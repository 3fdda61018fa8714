------------------------- MODULE StockEngine_proofs -------------------------
(***************************************************************************)
(* Proofs about the stock engine, for every set of transactions, keys,     *)
(* rows and scripts: the types, that no interleaving makes a quantity      *)
(* negative, that each row holds the balance of its last ledger entry, and *)
(* that the calls of a transaction are made all together or not at all.    *)
(***************************************************************************)
EXTENDS StockEngine, Maps_proofs

\* No row is written by two open transactions: the row lock.
RowLocks == \A t, u \in Tx : t # u => dirty[t] \cap dirty[u] = {}

\* A pending write has a call left, and its value will not be negative.
PendingCall ==
  \A t \in Tx : phase[t] = "write" =>
    /\ todo[t] # <<>>
    /\ read[t] + Signed(Head(todo[t])) >= 0

\* The uncommitted entries of a transaction are about the rows it wrote, and
\* the last entry of each such row carries the value written there.
PendingEntries ==
  \A t \in Tx :
    /\ \A i \in DOMAIN pend[t] : pend[t][i].row \in dirty[t]
    /\ \A r \in dirty[t] : /\ \E i \in DOMAIN pend[t] : pend[t][i].row = r
                           /\ EndsAt(pend[t], r, qty[r], val[t][r])

\* Nothing committed or pending is negative.
AllNonNegative ==
  /\ NonNegative
  /\ \A t \in Tx : /\ \A r \in Row : val[t][r] >= 0
                   /\ \A i \in DOMAIN pend[t] : pend[t][i].balanceAfter >= 0

----------------------------------------------------------------------------
(* What the pieces of a step do. *)

\* The calls left are operations, whichever way the sequence is consumed.
LEMMA OpFacts ==
  ASSUME NEW s \in Seq(Op), s # <<>>
  PROVE  Head(s) \in Op /\ Tail(s) \in Seq(Op) /\ Signed(Head(s)) \in Int
<1>1. Head(s) \in Op /\ Tail(s) \in Seq(Op)
  OBVIOUS
<1>2. \A op \in Op : Signed(op) \in Int
  BY DEF Op, Signed
<1> QED BY <1>1, <1>2

\* findFirst returns a row of the table with its quantity, or null and zero.
LEMMA FindFacts ==
  ASSUME StockTypeOK, NEW t \in Tx, NEW k, NEW r \in FindFirst(t, k)
  PROVE  /\ r \in Row \cup {NoRow}
         /\ Have(t, r) \in Int
<1>1. r \in Row \cup {NoRow}
  BY DEF FindFirst, Matches
<1>2. Have(t, r) \in Int
  BY <1>1 DEF Have, ValueSeen, StockTypeOK
<1> QED BY <1>1, <1>2

\* The value and the ledger entry of a write, and the row they are for.
LEMMA WriteFacts ==
  ASSUME StockTypeOK, PendingCall, NEW t \in Tx, Write(t)
  PROVE  \E r \in Row, q \in Int, b \in Nat :
           /\ \A u \in Tx \ {t} : r \notin dirty[u]
           /\ dirty' = [dirty EXCEPT ![t] = @ \cup {r}]
           /\ val' = [val EXCEPT ![t][r] = b]
           /\ pend' = [pend EXCEPT ![t] =
                Append(@, [tx |-> t, row |-> r, qty |-> q, balanceAfter |-> b])]
<1> DEFINE op == Head(todo[t])
<1>1. PICK r \in Target(t) :
        /\ dirty' = [dirty EXCEPT ![t] = @ \cup {r}]
        /\ val' = [val EXCEPT ![t][r] = read[t] + Signed(op)]
        /\ pend' = [pend EXCEPT ![t] =
             Append(@, [tx |-> t, row |-> r, qty |-> Signed(op),
                        balanceAfter |-> read[t] + Signed(op)])]
  BY DEF Write, LedgerEntry
<1>2. r \in Row /\ \A u \in Tx \ {t} : r \notin dirty[u]
  <2>1. CASE found[t] # NoRow
    BY <2>1, <1>1 DEF Target, Write, Blockers, StockTypeOK
  <2>2. CASE found[t] = NoRow
    BY <2>2, <1>1 DEF Target
  <2> QED BY <2>1, <2>2
<1>3. phase[t] = "write" /\ todo[t] # <<>> /\ todo[t] \in Seq(Op)
  BY DEF Write, PendingCall, StockTypeOK
<1>4. Signed(op) \in Int
  BY <1>3, OpFacts
<1>5. read[t] + Signed(op) \in Nat
  BY <1>3, <1>4 DEF PendingCall, StockTypeOK
<1> QED BY <1>1, <1>2, <1>4, <1>5

\* Appending an entry for r makes its balance the end of r, and leaves every
\* other row's end where it was.
LEMMA AppendEnds ==
  ASSUME NEW s \in Seq(Entry), NEW e \in Entry, NEW r, NEW base, NEW b,
         r # e.row => EndsAt(s, r, base, b),
         r = e.row => b = e.balanceAfter
  PROVE  EndsAt(Append(s, e), r, base, b)
<1> DEFINE s2 == Append(s, e)
<1>1. /\ Len(s2) = Len(s) + 1
      /\ DOMAIN s2 = 1..Len(s) + 1
      /\ DOMAIN s = 1..Len(s)
      /\ s2[Len(s) + 1] = e
      /\ \A i \in 1..Len(s) : s2[i] = s[i]
      /\ Len(s) \in Nat
  OBVIOUS
<1>2. CASE r = e.row
  BY <1>1, <1>2 DEF EndsAt
<1>3. CASE r # e.row
  BY <1>1, <1>3 DEF EndsAt
<1> QED BY <1>2, <1>3

\* Concatenating entries: a row of the second part ends where that part says,
\* every other row where the first part says.
LEMMA ConcatEnds ==
  ASSUME NEW s \in Seq(Entry), NEW p \in Seq(Entry), NEW r, NEW base, NEW q, NEW b,
         EndsAt(s, r, base, q), EndsAt(p, r, q, b)
  PROVE  EndsAt(s \o p, r, base, b)
<1> DEFINE c == s \o p
<1>1. /\ DOMAIN c = 1..Len(s) + Len(p)
      /\ DOMAIN s = 1..Len(s)
      /\ DOMAIN p = 1..Len(p)
      /\ Len(s) \in Nat /\ Len(p) \in Nat
      /\ \A i \in 1..Len(s) : c[i] = s[i]
      /\ \A i \in 1..Len(p) : c[Len(s) + i] = p[i]
  OBVIOUS
<1>2. ASSUME NEW i \in DOMAIN c, i > Len(s)
      PROVE  i - Len(s) \in DOMAIN p /\ c[i] = p[i - Len(s)]
  BY <1>1, <1>2
<1>3. CASE \A i \in DOMAIN p : p[i].row # r
  <2>1. b = q
    BY <1>3 DEF EndsAt
  <2>2. \A i \in DOMAIN c : c[i].row = r => i \in DOMAIN s
    BY <1>1, <1>2, <1>3
  <2>3. (\A i \in DOMAIN c : c[i].row # r) => b = base
    BY <2>1, <1>1 DEF EndsAt
  <2>4. ASSUME NEW i \in DOMAIN c, c[i].row = r,
               \A j \in DOMAIN c : j > i => c[j].row # r
        PROVE  b = c[i].balanceAfter
    <3>1. i \in DOMAIN s /\ s[i] = c[i]
      BY <2>2, <2>4, <1>1
    <3>2. \A j \in DOMAIN s : j > i => s[j].row # r
      BY <2>4, <1>1
    <3> QED BY <3>1, <3>2, <2>1, <2>4 DEF EndsAt
  <2> QED BY <2>3, <2>4 DEF EndsAt
<1>4. CASE \E i \in DOMAIN p : p[i].row = r
  <2>1. PICK n \in DOMAIN p : p[n].row = r
    BY <1>4
  <2>2. c[Len(s) + n].row = r /\ Len(s) + n \in DOMAIN c
    BY <2>1, <1>1
  <2>3. ASSUME NEW i \in DOMAIN c, c[i].row = r,
               \A j \in DOMAIN c : j > i => c[j].row # r
        PROVE  b = c[i].balanceAfter
    <3>1. i > Len(s)
      BY <2>2, <2>3, <1>1
    <3>2. i - Len(s) \in DOMAIN p /\ c[i] = p[i - Len(s)]
      BY <3>1, <1>2
    <3>3. ASSUME NEW j \in DOMAIN p, j > i - Len(s) PROVE p[j].row # r
      <4>1. Len(s) + j \in DOMAIN c /\ c[Len(s) + j] = p[j] /\ Len(s) + j > i
        BY <3>3, <1>1
      <4> QED BY <4>1, <2>3
    <3> QED BY <3>2, <3>3, <2>3 DEF EndsAt
  <2> QED BY <2>2, <2>3 DEF EndsAt
<1> QED BY <1>3, <1>4

----------------------------------------------------------------------------
(* The invariants. *)

\* The inductive invariant: the three properties, and what keeps them.
StockInv ==
  /\ StockTypeOK
  /\ RowLocks
  /\ PendingCall
  /\ PendingEntries
  /\ AllNonNegative
  /\ RowIsLastBalance

\* It holds of the opening stock.
LEMMA InvInit == StockInit => StockInv
<1> SUFFICES ASSUME StockInit PROVE StockInv
  OBVIOUS
<1> USE StockConstants DEF StockInit
<1>1. StockTypeOK
  BY DEF StockTypeOK, Phases
<1>2. RowLocks /\ PendingCall /\ PendingEntries
  BY DEF RowLocks, PendingCall, PendingEntries
<1>3. AllNonNegative
  BY DEF AllNonNegative, NonNegative
<1>4. RowIsLastBalance
  BY DEF RowIsLastBalance, EndsAt
<1> QED BY <1>1, <1>2, <1>3, <1>4 DEF StockInv

\* A transaction that rolls back takes what it wrote with it.
LEMMA InvRollback ==
  ASSUME StockInv, NEW t \in Tx, Rollback(t)
  PROVE  StockInv'
<1> USE DEF StockInv, Rollback, tableVars
<1>1. StockTypeOK'
  BY StockConstants DEF StockTypeOK, Phases
<1>2. RowLocks'
  BY DEF RowLocks, StockTypeOK
<1>3. PendingCall'
  BY DEF PendingCall, StockTypeOK
<1>4. PendingEntries'
  <2>1. dirty'[t] = {} /\ pend'[t] = <<>> /\ qty' = qty
    BY DEF StockTypeOK
  <2>2. \A u \in Tx \ {t} :
          dirty'[u] = dirty[u] /\ val'[u] = val[u] /\ pend'[u] = pend[u]
    BY DEF StockTypeOK
  <2> QED BY ONLY <2>1, <2>2, StockInv DEF PendingEntries, StockInv
<1>5. AllNonNegative'
  BY DEF AllNonNegative, NonNegative, StockTypeOK
<1>6. RowIsLastBalance'
  BY DEF RowIsLastBalance
<1> QED BY <1>1, <1>2, <1>3, <1>4, <1>5, <1>6

\* Opening a transaction, or deciding on further calls, touches no stock.
LEMMA InvBegin ==
  ASSUME StockInv, NEW t \in Tx, Begin(t) \/ Call(t)
  PROVE  StockInv'
<1> USE DEF StockInv, Begin, Call, CallWith
<1>1. StockTypeOK'
  <2>1. todo' \in [Tx -> Seq(Op)] /\ phase' \in [Tx -> Phases]
    <3>1. CASE Begin(t)
      BY <3>1, StockConstants DEF StockTypeOK, Phases
    <3>2. CASE Call(t)
      BY <3>2, StockConstants DEF StockTypeOK, Phases
    <3> QED BY <3>1, <3>2
  <2> QED BY <2>1 DEF StockTypeOK
<1>2. RowLocks' /\ PendingEntries' /\ AllNonNegative' /\ RowIsLastBalance'
  BY DEF RowLocks, PendingEntries, AllNonNegative, NonNegative, RowIsLastBalance
<1>3. PendingCall'
  BY DEF PendingCall, StockTypeOK
<1> QED BY <1>1, <1>2, <1>3

\* A call that passes its check will not write a negative value.
LEMMA InvFind ==
  ASSUME StockInv, NEW t \in Tx, Find(t)
  PROVE  StockInv'
<1> USE DEF StockInv
<1> DEFINE op == Head(todo[t])
<1>1. PICK r \in FindFirst(t, op.key) :
        /\ ~Refuses(t, op, r)
        /\ found' = [found EXCEPT ![t] = r]
        /\ read' = [read EXCEPT ![t] = Have(t, r)]
  BY DEF Find
<1>2. r \in Row \cup {NoRow} /\ Have(t, r) \in Int
  BY FindFacts
<1>3. Have(t, r) >= 0
  BY <1>2 DEF Have, ValueSeen, AllNonNegative, NonNegative
<1>4. todo[t] \in Seq(Op) /\ todo[t] # <<>> /\ op \in Op
  BY OpFacts DEF Find, StockTypeOK
<1>5. Have(t, r) + Signed(op) >= 0
  BY <1>1, <1>2, <1>3, <1>4 DEF Refuses, Signed, Op
<1>6. StockTypeOK'
  BY <1>1, <1>2 DEF Find, StockTypeOK, Phases
<1>7. PendingCall'
  BY <1>1, <1>4, <1>5 DEF PendingCall, Find, StockTypeOK
<1>8. RowLocks' /\ PendingEntries' /\ AllNonNegative' /\ RowIsLastBalance'
  BY DEF Find, RowLocks, PendingEntries, AllNonNegative, NonNegative, RowIsLastBalance
<1> QED BY <1>6, <1>7, <1>8

\* A write locks a row nobody else holds and adds the entry that explains it.
LEMMA InvWrite ==
  ASSUME StockInv, NEW t \in Tx, Write(t)
  PROVE  StockInv'
<1> USE DEF StockInv
<1>1. PICK r \in Row, q \in Int, b \in Nat :
        /\ \A u \in Tx \ {t} : r \notin dirty[u]
        /\ dirty' = [dirty EXCEPT ![t] = @ \cup {r}]
        /\ val' = [val EXCEPT ![t][r] = b]
        /\ pend' = [pend EXCEPT ![t] =
             Append(@, [tx |-> t, row |-> r, qty |-> q, balanceAfter |-> b])]
  BY WriteFacts
<1> DEFINE e == [tx |-> t, row |-> r, qty |-> q, balanceAfter |-> b]
<1>2. phase[t] = "write" /\ todo[t] # <<>> /\ todo[t] \in Seq(Op)
  BY DEF Write, PendingCall, StockTypeOK
<1>3. /\ e \in Entry /\ e.row = r /\ e.balanceAfter = b
      /\ pend[t] \in Seq(Entry)
  <2>1. e \in Entry /\ e.row = r /\ e.balanceAfter = b
    BY DEF Entry
  <2> QED BY <2>1 DEF StockTypeOK
<1>3a. pend' = [pend EXCEPT ![t] = Append(@, e)]
  BY <1>1
<1>4. pend'[t] = Append(pend[t], e) /\ \A u \in Tx \ {t} : pend'[u] = pend[u]
  BY <1>1 DEF StockTypeOK
<1> HIDE DEF e
<1>5. StockTypeOK'
  <2>1. Tail(todo[t]) \in Seq(Op)
    BY <1>2, OpFacts
  <2>2. /\ dirty' \in [Tx -> SUBSET Row]
        /\ val' \in [Tx -> [Row -> Int]]
        /\ pend' \in [Tx -> Seq(Entry)]
    BY <1>1, <1>3, <1>3a DEF StockTypeOK
  <2> QED BY <2>1, <2>2 DEF Write, StockTypeOK, Phases, tableVars
<1>6. RowLocks'
  <2>1. dirty'[t] = dirty[t] \cup {r} /\ \A u \in Tx \ {t} : dirty'[u] = dirty[u]
    BY <1>1 DEF StockTypeOK
  <2> QED BY <1>1, <2>1 DEF RowLocks
<1>7. PendingCall'
  BY DEF PendingCall, Write, StockTypeOK
<1>8. PendingEntries'
  <2>1. ASSUME NEW u \in Tx \ {t}
        PROVE  /\ \A i \in DOMAIN pend'[u] : pend'[u][i].row \in dirty'[u]
               /\ \A s \in dirty'[u] :
                    /\ \E i \in DOMAIN pend'[u] : pend'[u][i].row = s
                    /\ EndsAt(pend'[u], s, qty'[s], val'[u][s])
    <3>1. dirty'[u] = dirty[u] /\ val'[u] = val[u] /\ pend'[u] = pend[u]
      BY <1>1, <1>4 DEF StockTypeOK
    <3>2. qty' = qty
      BY DEF Write, tableVars
    <3> QED BY <3>1, <3>2 DEF PendingEntries
  <2>2. /\ DOMAIN pend'[t] = 1..Len(pend[t]) + 1
        /\ DOMAIN pend[t] = 1..Len(pend[t])
        /\ Len(pend[t]) \in Nat
        /\ pend'[t][Len(pend[t]) + 1] = e
        /\ \A i \in 1..Len(pend[t]) : pend'[t][i] = pend[t][i]
    BY <1>3, <1>4
  <2>3. dirty'[t] = dirty[t] \cup {r}
    BY <1>1 DEF StockTypeOK
  <2>4. \A i \in DOMAIN pend'[t] : pend'[t][i].row \in dirty'[t]
    <3>1. \A i \in 1..Len(pend[t]) : pend[t][i].row \in dirty[t]
      BY <2>2 DEF PendingEntries
    <3>2. e.row \in dirty'[t]
      BY <1>3, <2>3
    <3>3. \A i \in 1..Len(pend[t]) : pend'[t][i].row \in dirty'[t]
      BY <2>2, <2>3, <3>1
    <3>4. \A i \in DOMAIN pend'[t] : i \in 1..Len(pend[t]) \/ i = Len(pend[t]) + 1
      BY <2>2
    <3> QED BY <2>2, <3>2, <3>3, <3>4
  <2>5. ASSUME NEW s \in dirty'[t]
        PROVE  \E i \in DOMAIN pend'[t] : pend'[t][i].row = s
    <3>1. CASE s = r
      BY <3>1, <1>3, <2>2
    <3>2. CASE s # r
      <4>1. PICK i \in DOMAIN pend[t] : pend[t][i].row = s
        BY <3>2, <2>3 DEF PendingEntries
      <4> QED BY <4>1, <2>2
    <3> QED BY <3>1, <3>2
  <2>6. ASSUME NEW s \in dirty'[t]
        PROVE  EndsAt(pend'[t], s, qty'[s], val'[t][s])
    <3>1. s # r => val'[t][s] = val[t][s] /\ EndsAt(pend[t], s, qty[s], val[t][s])
      BY <1>1, <2>3 DEF PendingEntries, StockTypeOK
    <3>2. s = r => val'[t][s] = b
      BY <1>1 DEF StockTypeOK
    <3>3. EndsAt(Append(pend[t], e), s, qty[s], val'[t][s])
      BY <3>1, <3>2, <1>3, AppendEnds
    <3> QED BY <3>3, <1>4 DEF Write, tableVars
  <2> QED BY <2>1, <2>4, <2>5, <2>6 DEF PendingEntries
<1>9. AllNonNegative'
  <2>1. NonNegative'
    BY DEF AllNonNegative, NonNegative, Write, tableVars
  <2>2. \A u \in Tx : \A s \in Row : val'[u][s] >= 0
    BY <1>1 DEF AllNonNegative, StockTypeOK
  <2>3. ASSUME NEW u \in Tx, NEW i \in DOMAIN pend'[u]
        PROVE  pend'[u][i].balanceAfter >= 0
    <3>1. CASE u # t
      BY <3>1, <1>4 DEF AllNonNegative
    <3>2. CASE u = t
      <4>1. \/ i \in DOMAIN pend[t] /\ pend'[t][i] = pend[t][i]
            \/ pend'[t][i] = e
        BY <3>2, <1>3, <1>4
      <4> QED BY <4>1, <3>2, <1>3 DEF AllNonNegative
    <3> QED BY <3>1, <3>2
  <2> QED BY <2>1, <2>2, <2>3 DEF AllNonNegative
<1>10. RowIsLastBalance'
  BY DEF RowIsLastBalance, Write, tableVars
<1> QED BY <1>5, <1>6, <1>7, <1>8, <1>9, <1>10

\* A commit moves the entries to the end of the ledger and the values to the
\* table together.
LEMMA InvCommit ==
  ASSUME StockInv, NEW t \in Tx, Commit(t)
  PROVE  StockInv'
<1> USE DEF StockInv
<1>1. StockTypeOK'
  BY DEF Commit, StockTypeOK, Phases
<1>2. RowLocks'
  BY DEF Commit, RowLocks, StockTypeOK
<1>3. PendingCall'
  BY DEF Commit, PendingCall, StockTypeOK
<1>4. PendingEntries'
  <2>1. ASSUME NEW u \in Tx \ {t}, NEW s \in dirty[u] PROVE qty'[s] = qty[s]
    BY DEF Commit, RowLocks, StockTypeOK
  <2>2. \A u \in Tx \ {t} :
          dirty'[u] = dirty[u] /\ val'[u] = val[u] /\ pend'[u] = pend[u]
    BY DEF Commit, StockTypeOK
  <2>3. dirty'[t] = {} /\ pend'[t] = <<>>
    BY DEF Commit, StockTypeOK
  <2> QED BY <2>1, <2>2, <2>3 DEF PendingEntries
<1>5. ledger \in Seq(Entry) /\ pend[t] \in Seq(Entry)
  BY DEF StockTypeOK
<1>6. AllNonNegative'
  <2>1. \A r \in Row : qty'[r] >= 0
    BY DEF Commit, AllNonNegative, NonNegative, StockTypeOK
  <2>2. \A i \in DOMAIN ledger' : ledger'[i].balanceAfter >= 0
    <3>1. ledger' = ledger \o pend[t]
      BY DEF Commit
    <3>2. ASSUME NEW i \in DOMAIN ledger'
          PROVE  \/ i \in DOMAIN ledger /\ ledger'[i] = ledger[i]
                 \/ /\ i - Len(ledger) \in DOMAIN pend[t]
                    /\ ledger'[i] = pend[t][i - Len(ledger)]
      BY <3>1, <1>5
    <3> QED BY <3>2 DEF AllNonNegative, NonNegative
  <2>3. \A u \in Tx : /\ \A r \in Row : val'[u][r] >= 0
                      /\ \A i \in DOMAIN pend'[u] : pend'[u][i].balanceAfter >= 0
    BY DEF Commit, AllNonNegative, StockTypeOK
  <2> QED BY <2>1, <2>2, <2>3 DEF AllNonNegative, NonNegative
<1>7. RowIsLastBalance'
  <2> SUFFICES ASSUME NEW r \in Row
               PROVE  EndsAt(ledger \o pend[t], r, Opening[r], qty'[r])
    BY DEF Commit, RowIsLastBalance
  <2>1. EndsAt(ledger, r, Opening[r], qty[r])
    BY DEF RowIsLastBalance
  <2>2. EndsAt(pend[t], r, qty[r], qty'[r])
    <3>1. CASE r \in dirty[t]
      BY <3>1 DEF PendingEntries, Commit
    <3>2. CASE r \notin dirty[t]
      BY <3>2 DEF PendingEntries, Commit, EndsAt
    <3> QED BY <3>1, <3>2
  <2> QED BY <2>1, <2>2, <1>5, ConcatEnds
<1> QED BY <1>1, <1>2, <1>3, <1>4, <1>6, <1>7

\* Every step of the engine keeps the invariant.
LEMMA InvStep == StockInv /\ [StockNext]_stockVars => StockInv'
<1> SUFFICES ASSUME StockInv, [StockNext]_stockVars PROVE StockInv'
  OBVIOUS
<1>1. ASSUME NEW t \in Tx, Begin(t) \/ Call(t) PROVE StockInv'
  BY <1>1, InvBegin
<1>2. ASSUME NEW t \in Tx, Find(t) PROVE StockInv'
  BY <1>2, InvFind
<1>3. ASSUME NEW t \in Tx, Write(t) PROVE StockInv'
  BY <1>3, InvWrite
<1>4. ASSUME NEW t \in Tx, Commit(t) PROVE StockInv'
  BY <1>4, InvCommit
<1>5. ASSUME NEW t \in Tx,
             Refuse(t) \/ UniqueViolation(t) \/ BreakDeadlock(t) \/ Abort(t)
      PROVE  StockInv'
  BY <1>5, InvRollback DEF Refuse, UniqueViolation, BreakDeadlock, Abort
<1>6. CASE UNCHANGED stockVars
  BY <1>6 DEF stockVars, StockInv, StockTypeOK, RowLocks, PendingCall,
       PendingEntries, AllNonNegative, NonNegative, RowIsLastBalance
<1> QED
  BY <1>1, <1>2, <1>3, <1>4, <1>5, <1>6 DEF StockNext, Progress

\* The invariant of the engine, for any number of transactions.
THEOREM Invariance == StockSpec => []StockInv
BY InvInit, InvStep, PTL DEF StockSpec

\* Every variable keeps its type in every reachable state.
THEOREM TypeCorrect == StockSpec => []StockTypeOK
BY Invariance, PTL DEF StockInv

\* Whatever deducts, adds and moves run concurrently, no committed quantity
\* and no ledger balance is ever negative (stock.engine.ts:140-149).
THEOREM NeverNegative == StockSpec => []NonNegative
<1>1. StockInv => NonNegative
  BY DEF StockInv, AllNonNegative
<1> QED BY <1>1, Invariance, PTL

\* In whatever order transactions commit, each row holds the balanceAfter of
\* its last ledger entry (stock.engine.ts:67-104, 146-167).
THEOREM LedgerExplainsRows == StockSpec => []RowIsLastBalance
BY Invariance, PTL DEF StockInv

----------------------------------------------------------------------------
(* All or nothing.  What a transaction has not committed yet are the       *)
(* entries of the calls it has made, in order, and the rest of its script  *)
(* is still to do.  A commit appends these entries and no one else's.      *)

\* f[i] has the entries of t among the first i of s.
Picks(f, s, t, n) ==
  f = [i \in 0..n |-> IF i = 0 THEN <<>>
                      ELSE IF s[i].tx = t THEN Append(f[i - 1], s[i]) ELSE f[i - 1]]

LEMMA PicksStep ==
  ASSUME NEW f, NEW s, NEW t, NEW n \in Nat, Picks(f, s, t, n)
  PROVE  /\ f[0] = <<>>
         /\ \A i \in 0..n : i < n =>
              f[i + 1] = IF s[i + 1].tx = t THEN Append(f[i], s[i + 1]) ELSE f[i]
<1> DEFINE R == [i \in 0..n |-> IF i = 0 THEN <<>>
                               ELSE IF s[i].tx = t THEN Append(f[i - 1], s[i]) ELSE f[i - 1]]
<1>1. f = R
  BY DEF Picks
<1>2. R[0] = <<>>
  OBVIOUS
<1>3. ASSUME NEW i \in 0..n, i < n
      PROVE  R[i + 1] = IF s[i + 1].tx = t THEN Append(f[i], s[i + 1]) ELSE f[i]
  <2>1. i + 1 \in 0..n /\ i + 1 # 0 /\ (i + 1) - 1 = i
    BY <1>3
  <2> QED BY <2>1
<1> HIDE DEF R
<1> QED BY <1>1, <1>2, <1>3

LEMMA PicksExist ==
  ASSUME NEW s, NEW t, NEW n \in Nat
  PROVE  \E f : Picks(f, s, t, n)
<1> DEFINE G == {i \in 0..n : \E f : Picks(f, s, t, i)}
<1>1. 0 \in G
  <2> DEFINE f == [i \in 0..0 |-> <<>>]
  <2>1. Picks(f, s, t, 0)
    BY DEF Picks
  <2> QED BY <2>1
<1>2. ASSUME NEW i \in 0..n, i \in G, i < n PROVE i + 1 \in G
  <2>1. PICK f : Picks(f, s, t, i)
    BY <1>2
  <2> DEFINE e == IF s[i + 1].tx = t THEN Append(f[i], s[i + 1]) ELSE f[i]
             g == [j \in 0..(i + 1) |-> IF j <= i THEN f[j] ELSE e]
  <2>2. ASSUME NEW j \in 0..(i + 1)
        PROVE  g[j] = IF j = 0 THEN <<>>
                      ELSE IF s[j].tx = t THEN Append(g[j - 1], s[j]) ELSE g[j - 1]
    <3>1. CASE j = 0
      <4>1. g[j] = f[0]
        BY <1>2, <3>1
      <4> QED BY <2>1, <3>1, <4>1, PicksStep
    <3>2. CASE j # 0 /\ j <= i
      <4>1. g[j] = f[j] /\ g[j - 1] = f[j - 1]
        BY <1>2, <3>2
      <4>2. j - 1 \in 0..i /\ j - 1 < i /\ (j - 1) + 1 = j
        BY <1>2, <3>2
      <4>3. f[j] = IF s[j].tx = t THEN Append(f[j - 1], s[j]) ELSE f[j - 1]
        BY <2>1, <4>2, PicksStep
      <4> HIDE DEF g
      <4> QED BY <3>2, <4>1, <4>3
    <3>3. CASE j = i + 1
      <4>1. g[j] = e /\ g[j - 1] = f[i] /\ j # 0
        BY <1>2, <3>3
      <4> HIDE DEF g
      <4> QED BY <3>3, <4>1
    <3> QED BY <1>2, <3>1, <3>2, <3>3
  <2>3. g = [j \in 0..(i + 1) |-> g[j]]
    OBVIOUS
  <2> HIDE DEF g
  <2>4. Picks(g, s, t, i + 1)
    BY <2>2, <2>3 DEF Picks
  <2> QED BY <1>2, <2>4
<1> HIDE DEF G
<1>3. 0..n \subseteq G
  BY <1>1, <1>2, CountInduction
<1> QED BY <1>3 DEF G

\* The entries of t among those of s are what any such f ends with.
LEMMA EntriesPicked ==
  ASSUME NEW s, NEW t, Len(s) \in Nat
  PROVE  \E f : Picks(f, s, t, Len(s)) /\ EntriesIn(s, t) = f[Len(s)]
<1> DEFINE f == CHOOSE e : Picks(e, s, t, Len(s))
<1>1. EntriesIn(s, t) = f[Len(s)]
  BY DEF EntriesIn, Picks
<1>2. Picks(f, s, t, Len(s))
  BY PicksExist
<1> QED BY <1>1, <1>2

LEMMA NoEntries == ASSUME NEW t PROVE EntriesIn(<<>>, t) = <<>>
<1>1. PICK f : Picks(f, <<>>, t, 0) /\ EntriesIn(<<>>, t) = f[0]
  BY EntriesPicked
<1> QED BY <1>1, PicksStep

\* Entries appended by one transaction are its entries and nobody else's.
LEMMA EntriesAppended ==
  ASSUME NEW s \in Seq(Entry), NEW p \in Seq(Entry), NEW t
  PROVE  /\ (\A i \in DOMAIN p : p[i].tx # t) => EntriesIn(s \o p, t) = EntriesIn(s, t)
         /\ ((\A i \in DOMAIN p : p[i].tx = t) /\ EntriesIn(s, t) = <<>>)
               => EntriesIn(s \o p, t) = p
<1> DEFINE n == Len(s)
           m == Len(p)
           c == s \o p
<1>1. /\ n \in Nat /\ m \in Nat /\ Len(c) = n + m
      /\ \A i \in 1..n : c[i] = s[i]
      /\ \A i \in 1..m : c[n + i] = p[i]
  OBVIOUS
<1> HIDE DEF c, n, m
<1>2. PICK f : Picks(f, s, t, n) /\ EntriesIn(s, t) = f[n]
  BY <1>1, EntriesPicked DEF n
<1>3. PICK g : Picks(g, c, t, n + m) /\ EntriesIn(c, t) = g[n + m]
  <2>1. Len(c) \in Nat
    BY <1>1
  <2>2. PICK g : Picks(g, c, t, Len(c)) /\ EntriesIn(c, t) = g[Len(c)]
    BY <2>1, EntriesPicked
  <2> QED BY <1>1, <2>2
<1>4. g[n] = f[n]
  <2> DEFINE G == {i \in 0..n : g[i] = f[i]}
  <2>1. 0 \in G
    BY <1>1, <1>2, <1>3, PicksStep
  <2>2. ASSUME NEW i \in 0..n, i \in G, i < n PROVE i + 1 \in G
    <3>1. i \in 0..(n + m) /\ i < n + m /\ i + 1 \in 0..n /\ c[i + 1] = s[i + 1]
      BY <1>1, <2>2
    <3>2. f[i + 1] = IF s[i + 1].tx = t THEN Append(f[i], s[i + 1]) ELSE f[i]
      BY <1>1, <1>2, <2>2, PicksStep
    <3>3. g[i + 1] = IF c[i + 1].tx = t THEN Append(g[i], c[i + 1]) ELSE g[i]
      BY <1>1, <1>3, <3>1, PicksStep
    <3> QED BY <2>2, <3>1, <3>2, <3>3
  <2> HIDE DEF G
  <2>3. 0..n \subseteq G
    BY <1>1, <2>1, <2>2, CountInduction
  <2> QED BY <1>1, <2>3 DEF G
<1>5. ASSUME NEW i \in 0..m, i < m
      PROVE  /\ i + 1 \in 1..m
             /\ g[(n + i) + 1] = IF p[i + 1].tx = t THEN Append(g[n + i], p[i + 1]) ELSE g[n + i]
  <2>1. /\ n + i \in 0..(n + m) /\ n + i < n + m /\ (n + i) + 1 = n + (i + 1)
        /\ i + 1 \in 1..m
    BY <1>1, <1>5
  <2>2. g[(n + i) + 1] =
          IF c[(n + i) + 1].tx = t THEN Append(g[n + i], c[(n + i) + 1]) ELSE g[n + i]
    <3>1. n + m \in Nat
      BY <1>1
    <3> QED BY <1>3, <2>1, <3>1, PicksStep
  <2>3. c[(n + i) + 1] = p[i + 1]
    BY <1>1, <2>1
  <2> QED BY <2>1, <2>2, <2>3
<1>6. ASSUME \A i \in 1..m : p[i].tx # t PROVE g[n + m] = f[n]
  <2> DEFINE G == {i \in 0..m : g[n + i] = f[n]}
  <2>1. 0 \in G
    BY <1>1, <1>4
  <2>2. ASSUME NEW i \in 0..m, i \in G, i < m PROVE i + 1 \in G
    <3>1. n + (i + 1) = (n + i) + 1 /\ i + 1 \in 0..m
      BY <1>1, <2>2
    <3> QED BY <1>5, <1>6, <2>2, <3>1
  <2> HIDE DEF G
  <2>3. 0..m \subseteq G
    BY <1>1, <2>1, <2>2, CountInduction
  <2>4. m \in G
    BY <1>1, <2>3
  <2> QED BY <2>4 DEF G
<1>7. ASSUME \A i \in 1..m : p[i].tx = t, f[n] = <<>> PROVE g[n + m] = p
  <2> DEFINE G == {i \in 0..m : g[n + i] = SubSeq(p, 1, i)}
  <2>1. 0 \in G
    <3>1. n + 0 = n /\ SubSeq(p, 1, 0) = <<>>
      BY <1>1
    <3>2. g[n + 0] = SubSeq(p, 1, 0)
      BY <1>4, <1>7, <3>1
    <3>3. 0 \in 0..m
      BY <1>1
    <3> QED BY <3>2, <3>3
  <2>2. ASSUME NEW i \in 0..m, i \in G, i < m PROVE i + 1 \in G
    <3>1. n + (i + 1) = (n + i) + 1 /\ i + 1 \in 0..m
      BY <1>1, <2>2
    <3>2. Append(SubSeq(p, 1, i), p[i + 1]) = SubSeq(p, 1, i + 1)
      BY <1>1, <3>1 DEF m
    <3> QED BY <1>5, <1>7, <2>2, <3>1, <3>2
  <2> HIDE DEF G
  <2>3. 0..m \subseteq G
    BY <1>1, <2>1, <2>2, CountInduction
  <2>4. SubSeq(p, 1, m) = p
    BY DEF m
  <2>5. m \in G
    BY <1>1, <2>3
  <2> QED BY <2>4, <2>5 DEF G
<1>8. DOMAIN p = 1..m
  BY DEF m
<1> QED BY <1>2, <1>3, <1>6, <1>7, <1>8 DEF c

\* e is the ledger entry of the call op.
IsEntryOf(e, op) == e.qty = Signed(op) /\ KeyOf[e.row] = op.key

\* t has made some of the calls of s, and has the others to do.
HasBegun(t, s) ==
  /\ Len(pend[t]) + Len(todo[t]) >= Len(s)
  /\ Further[t] = {} => Len(pend[t]) + Len(todo[t]) = Len(s)
  /\ \A i \in 1..Len(s) : IF i <= Len(pend[t]) THEN IsEntryOf(pend[t][i], s[i])
                          ELSE todo[t][i - Len(pend[t])] = s[i]

ScriptInv ==
  \A t \in Tx :
    /\ InFlight(t) => \E s \in Script[t] : HasBegun(t, s)
    /\ ~InFlight(t) => pend[t] = <<>>
    /\ \A i \in DOMAIN pend[t] : pend[t][i].tx = t
    /\ (phase[t] = "write" /\ found[t] # NoRow) => KeyOf[found[t]] = Head(todo[t]).key

LEMMA ScriptInit == StockInit => ScriptInv /\ AllOrNothing
<1> SUFFICES ASSUME StockInit PROVE ScriptInv /\ AllOrNothing
  OBVIOUS
<1> USE DEF StockInit
<1>1. ScriptInv
  <2>1. ASSUME NEW t \in Tx
        PROVE  ~InFlight(t) /\ phase[t] # "write" /\ pend[t] = <<>> /\ DOMAIN pend[t] = {}
    <3>1. phase[t] = "idle" /\ pend[t] = <<>>
      OBVIOUS
    <3> QED BY <3>1 DEF InFlight
  <2> QED BY <2>1 DEF ScriptInv
<1>2. \A t \in Tx : EntriesOf(t) = <<>> /\ phase[t] # "committed"
  BY NoEntries DEF EntriesOf
<1> QED BY <1>1, <1>2 DEF AllOrNothing

\* A step that leaves the ledger, and who has committed.
LEMMA EntriesKept ==
  ASSUME AllOrNothing, ledger' = ledger,
         \A t \in Tx : phase'[t] = "committed" <=> phase[t] = "committed"
  PROVE  AllOrNothing'
BY DEF AllOrNothing, EntriesOf

LEMMA ScriptBegin ==
  ASSUME StockTypeOK, ScriptInv, NEW t \in Tx, Begin(t)
  PROVE  ScriptInv'
<1>1. PICK s \in Script[t] : todo' = [todo EXCEPT ![t] = s]
  BY DEF Begin
<1>2. /\ todo'[t] = s /\ pend[t] = <<>> /\ pend' = pend /\ found' = found
      /\ phase'[t] = "find" /\ \A u \in Tx \ {t} : phase'[u] = phase[u] /\ todo'[u] = todo[u]
  BY <1>1 DEF Begin, ScriptInv, InFlight, StockTypeOK
<1>3. s \in Seq(Op)
  BY StockConstants
<1>4. HasBegun(t, s)'
  BY <1>2, <1>3 DEF HasBegun
<1>5. \A u \in Tx \ {t} : \A x : HasBegun(u, x) => HasBegun(u, x)'
  BY <1>2 DEF HasBegun
<1>6. \A u \in Tx \ {t} : InFlight(u)' <=> InFlight(u)
  BY <1>2 DEF InFlight
<1> QED BY <1>2, <1>4, <1>5, <1>6 DEF ScriptInv, InFlight

LEMMA ScriptCall ==
  ASSUME StockTypeOK, ScriptInv, NEW t \in Tx, Call(t)
  PROVE  ScriptInv'
<1>1. PICK x \in Further[t] : CallWith(t, x)
  BY DEF Call
<1>2. /\ todo'[t] = x /\ todo[t] = <<>> /\ pend' = pend /\ found' = found /\ phase' = phase
      /\ phase[t] = "find" /\ \A u \in Tx \ {t} : todo'[u] = todo[u]
  BY <1>1 DEF CallWith, StockTypeOK
<1>3. PICK s \in Script[t] : HasBegun(t, s)
  BY <1>2 DEF ScriptInv, InFlight
<1>4. x \in Seq(Op) /\ s \in Seq(Op) /\ pend[t] \in Seq(Entry)
  BY StockConstants DEF StockTypeOK
<1>5. Len(pend[t]) \in Nat /\ Len(x) \in Nat /\ Len(s) \in Nat /\ Len(todo[t]) = 0
  BY <1>2, <1>4
<1>6. Len(pend[t]) >= Len(s) /\ \A i \in 1..Len(s) : IsEntryOf(pend[t][i], s[i])
  BY <1>3, <1>5 DEF HasBegun
<1>7. HasBegun(t, s)'
  BY <1>1, <1>2, <1>5, <1>6 DEF HasBegun
<1>8. \A u \in Tx \ {t} : \A y : HasBegun(u, y) => HasBegun(u, y)'
  BY <1>2 DEF HasBegun
<1> QED BY <1>2, <1>7, <1>8 DEF ScriptInv, InFlight

LEMMA ScriptFind ==
  ASSUME StockTypeOK, ScriptInv, NEW t \in Tx, Find(t)
  PROVE  ScriptInv'
<1>1. PICK r \in FindFirst(t, Head(todo[t]).key) : found' = [found EXCEPT ![t] = r]
  BY DEF Find
<1>2. /\ todo' = todo /\ pend' = pend /\ found'[t] = r /\ phase[t] = "find" /\ phase'[t] = "write"
      /\ \A u \in Tx \ {t} : phase'[u] = phase[u] /\ found'[u] = found[u]
  BY <1>1 DEF Find, StockTypeOK
<1>3. r # NoRow => KeyOf[r] = Head(todo[t]).key
  BY DEF FindFirst, Matches
<1>4. \A u \in Tx : \A y : HasBegun(u, y) => HasBegun(u, y)'
  BY <1>2 DEF HasBegun
<1>5. \A u \in Tx : InFlight(u)' <=> InFlight(u)
  BY <1>2 DEF InFlight
<1> QED BY <1>2, <1>3, <1>4, <1>5 DEF ScriptInv

LEMMA ScriptWrite ==
  ASSUME StockTypeOK, PendingCall, ScriptInv, NEW t \in Tx, Write(t)
  PROVE  ScriptInv'
<1> DEFINE op == Head(todo[t])
           q == read[t] + Signed(op)
<1>1. PICK r \in Target(t) : pend' = [pend EXCEPT ![t] = Append(@, LedgerEntry(t, r, op, q))]
  BY DEF Write
<1>2. /\ phase[t] = "write" /\ todo[t] # <<>> /\ todo[t] \in Seq(Op) /\ pend[t] \in Seq(Entry)
  BY DEF Write, PendingCall, StockTypeOK
<1> DEFINE e == LedgerEntry(t, r, op, q)
<1>3. /\ pend'[t] = Append(pend[t], e) /\ todo'[t] = Tail(todo[t]) /\ phase'[t] = "find"
      /\ \A u \in Tx \ {t} : /\ phase'[u] = phase[u] /\ found'[u] = found[u]
                             /\ todo'[u] = todo[u] /\ pend'[u] = pend[u]
  BY <1>1 DEF Write, StockTypeOK
<1>4. IsEntryOf(e, op) /\ e.tx = t
  <2>1. KeyOf[r] = op.key
    BY <1>2 DEF Target, ScriptInv
  <2> QED BY <2>1 DEF LedgerEntry, IsEntryOf
<1>5. PICK s \in Script[t] : HasBegun(t, s)
  BY <1>2 DEF ScriptInv, InFlight
<1>6. s \in Seq(Op) /\ Len(s) \in Nat
  BY StockConstants
<1> HIDE DEF e
<1>7. /\ Len(pend'[t]) = Len(pend[t]) + 1 /\ Len(pend[t]) \in Nat
      /\ Len(todo'[t]) = Len(todo[t]) - 1 /\ Len(todo[t]) \in Nat \ {0}
      /\ \A i \in 1..Len(pend[t]) : pend'[t][i] = pend[t][i]
      /\ pend'[t][Len(pend[t]) + 1] = e
      /\ op = todo[t][1] /\ \A i \in 1..(Len(todo[t]) - 1) : todo'[t][i] = todo[t][i + 1]
  BY <1>2, <1>3
<1> DEFINE n == Len(pend[t])
           k == Len(todo[t])
<1>8. ASSUME NEW i \in 1..Len(s)
      PROVE  IF i <= n + 1 THEN IsEntryOf(pend'[t][i], s[i])
             ELSE todo'[t][i - (n + 1)] = s[i]
  <2>1. IF i <= n THEN IsEntryOf(pend[t][i], s[i]) ELSE todo[t][i - n] = s[i]
    BY <1>5 DEF HasBegun
  <2>2. n + k >= Len(s)
    BY <1>5 DEF HasBegun
  <2>3. /\ n \in Nat /\ k \in Nat \ {0} /\ pend'[t][n + 1] = e /\ op = todo[t][1]
        /\ \A j \in 1..n : pend'[t][j] = pend[t][j]
        /\ \A j \in 1..(k - 1) : todo'[t][j] = todo[t][j + 1]
    BY <1>7
  <2> HIDE DEF n, k, op
  <2>4. CASE i <= n
    BY <1>6, <2>1, <2>3, <2>4
  <2>5. CASE i = n + 1
    <3>1. i - n = 1 /\ ~(i <= n)
      BY <2>3, <2>5
    <3>2. op = s[i]
      BY <2>1, <2>3, <3>1
    <3> QED BY <1>4, <2>3, <2>5, <3>2
  <2>6. CASE i > n + 1
    <3>1. /\ ~(i <= n) /\ ~(i <= n + 1) /\ i - n = (i - (n + 1)) + 1
          /\ i - (n + 1) \in 1..(k - 1)
      <4>1. i \in Nat /\ i <= Len(s) /\ Len(s) \in Nat
        BY <1>6
      <4>2. Len(s) <= n + k
        BY <1>6, <2>2, <2>3
      <4> QED BY <2>3, <2>6, <4>1, <4>2
    <3> QED BY <2>1, <2>3, <3>1
  <2> QED BY <1>6, <2>3, <2>4, <2>5, <2>6
<1>9. HasBegun(t, s)'
  <2>1. /\ n + k >= Len(s) /\ (Further[t] = {} => n + k = Len(s))
        /\ Len(pend'[t]) = n + 1 /\ Len(todo'[t]) = k - 1 /\ n \in Nat /\ k \in Nat
    BY <1>5, <1>7 DEF HasBegun
  <2> HIDE DEF n, k
  <2>2. /\ Len(pend'[t]) + Len(todo'[t]) >= Len(s)
        /\ Further[t] = {} => Len(pend'[t]) + Len(todo'[t]) = Len(s)
    BY <1>6, <2>1
  <2> QED BY <1>8, <2>1, <2>2 DEF HasBegun
<1>10. \A u \in Tx \ {t} : \A y : HasBegun(u, y) => HasBegun(u, y)'
  BY <1>3 DEF HasBegun
<1>11. \A i \in DOMAIN pend'[t] : pend'[t][i].tx = t
  BY <1>2, <1>3, <1>4 DEF ScriptInv
<1>12. \A u \in Tx \ {t} : InFlight(u)' <=> InFlight(u)
  BY <1>3 DEF InFlight
<1>13. ASSUME NEW u \in Tx \ {t}
       PROVE  /\ InFlight(u)' => \E x \in Script[u] : HasBegun(u, x)'
              /\ ~InFlight(u)' => pend'[u] = <<>>
              /\ \A i \in DOMAIN pend'[u] : pend'[u][i].tx = u
              /\ (phase'[u] = "write" /\ found'[u] # NoRow)
                   => KeyOf[found'[u]] = Head(todo'[u]).key
  BY <1>3, <1>10, <1>12 DEF ScriptInv
<1>14. InFlight(t)' /\ phase'[t] # "write" /\ \E x \in Script[t] : HasBegun(t, x)'
  BY <1>3, <1>9 DEF InFlight
<1> QED BY <1>11, <1>13, <1>14 DEF ScriptInv

\* The end of a transaction, one way or the other.
LEMMA ScriptEnd ==
  ASSUME StockTypeOK, ScriptInv, NEW t \in Tx, Rollback(t) \/ Commit(t)
  PROVE  ScriptInv'
<1>1. /\ pend'[t] = <<>> /\ phase'[t] \in {"committed", "aborted"}
      /\ \A u \in Tx \ {t} : /\ phase'[u] = phase[u] /\ found'[u] = found[u]
                             /\ todo'[u] = todo[u] /\ pend'[u] = pend[u]
  BY DEF Rollback, Commit, StockTypeOK
<1>2. \A u \in Tx \ {t} : \A y : HasBegun(u, y) => HasBegun(u, y)'
  BY <1>1 DEF HasBegun
<1>3. ~InFlight(t)' /\ \A u \in Tx \ {t} : InFlight(u)' <=> InFlight(u)
  BY <1>1 DEF InFlight
<1> QED BY <1>1, <1>2, <1>3 DEF ScriptInv

\* A commit shows all the calls of the script.
LEMMA CommitShowsAll ==
  ASSUME StockTypeOK, ScriptInv, AllOrNothing, NEW t \in Tx, Commit(t)
  PROVE  AllOrNothing'
<1>1. /\ phase[t] = "find" /\ todo[t] = <<>> /\ ledger' = ledger \o pend[t] /\ phase'[t] = "committed"
      /\ \A u \in Tx \ {t} : phase'[u] = phase[u]
      /\ ledger \in Seq(Entry) /\ pend[t] \in Seq(Entry)
  BY DEF Commit, StockTypeOK
<1>2. \A i \in DOMAIN pend[t] : pend[t][i].tx = t
  BY DEF ScriptInv
<1>3. EntriesOf(t) = <<>>
  BY <1>1 DEF AllOrNothing
<1>4. EntriesOf(t)' = pend[t]
  <2>1. EntriesIn(ledger, t) = <<>>
    BY <1>3 DEF EntriesOf
  <2>2. EntriesIn(ledger \o pend[t], t) = pend[t]
    <3> DEFINE p == pend[t]
    <3>1. p \in Seq(Entry) /\ \A i \in DOMAIN p : p[i].tx = t
      BY <1>1, <1>2
    <3> HIDE DEF p
    <3>2. EntriesIn(ledger \o p, t) = p
      BY <1>1, <2>1, <3>1, EntriesAppended
    <3> QED BY <3>2 DEF p
  <2> QED BY <1>1, <2>2 DEF EntriesOf
<1>5. ASSUME NEW u \in Tx \ {t} PROVE EntriesOf(u)' = EntriesOf(u)
  <2>1. EntriesIn(ledger \o pend[t], u) = EntriesIn(ledger, u)
    <3> DEFINE p == pend[t]
    <3>1. p \in Seq(Entry) /\ \A i \in DOMAIN p : p[i].tx = t
      BY <1>1, <1>2
    <3> HIDE DEF p
    <3>2. EntriesIn(ledger \o p, u) = EntriesIn(ledger, u)
      BY <1>1, <3>1, EntriesAppended
    <3> QED BY <3>2 DEF p
  <2> QED BY <1>1, <2>1 DEF EntriesOf
<1>6. PICK s \in Script[t] : HasBegun(t, s)
  BY <1>1 DEF ScriptInv, InFlight
<1>7. s \in Seq(Op)
  BY StockConstants
<1>8. /\ Len(pend[t]) >= Len(s) /\ (Further[t] = {} => Len(pend[t]) = Len(s))
      /\ \A i \in DOMAIN s : pend[t][i].qty = Signed(s[i]) /\ KeyOf[pend[t][i].row] = s[i].key
  <2>1. Len(todo[t]) = 0 /\ Len(pend[t]) \in Nat /\ Len(s) \in Nat /\ DOMAIN s = 1..Len(s)
    BY <1>1, <1>7
  <2>2. /\ Len(pend[t]) >= Len(s) /\ (Further[t] = {} => Len(pend[t]) = Len(s))
    BY <1>6, <2>1 DEF HasBegun
  <2>3. \A i \in 1..Len(s) : IsEntryOf(pend[t][i], s[i])
    BY <1>6, <2>1, <2>2 DEF HasBegun
  <2> QED BY <2>1, <2>2, <2>3 DEF IsEntryOf
<1> HIDE DEF AllOrNothing
<1>9. ASSUME NEW u \in Tx
      PROVE  IF phase'[u] = "committed"
               THEN \E x \in Script[u] :
                      /\ Len(EntriesOf(u)') >= Len(x)
                      /\ Further[u] = {} => Len(EntriesOf(u)') = Len(x)
                      /\ \A i \in DOMAIN x : /\ EntriesOf(u)'[i].qty = Signed(x[i])
                                             /\ KeyOf[EntriesOf(u)'[i].row] = x[i].key
               ELSE EntriesOf(u)' = <<>>
  <2>1. CASE u = t
    BY <1>1, <1>4, <1>8, <2>1
  <2>2. CASE u # t
    BY <1>1, <1>5, <2>2 DEF AllOrNothing
  <2> QED BY <2>1, <2>2
<1> QED BY <1>9 DEF AllOrNothing

LEMMA ScriptStep ==
  StockInv /\ ScriptInv /\ AllOrNothing /\ [StockNext]_stockVars => ScriptInv' /\ AllOrNothing'
<1> SUFFICES ASSUME StockInv, ScriptInv, AllOrNothing, [StockNext]_stockVars
             PROVE  ScriptInv' /\ AllOrNothing'
  OBVIOUS
<1> USE DEF StockInv
<1>1. CASE UNCHANGED stockVars
  <2>1. ledger' = ledger /\ phase' = phase /\ todo' = todo /\ found' = found /\ pend' = pend
    BY <1>1 DEF stockVars
  <2>2. \A t \in Tx : \A s : HasBegun(t, s) => HasBegun(t, s)'
    BY <2>1 DEF HasBegun
  <2>3. ScriptInv'
    BY <2>1, <2>2 DEF ScriptInv, InFlight
  <2> QED BY <2>1, <2>3, EntriesKept
<1>2. ASSUME NEW t \in Tx, Begin(t) \/ Call(t) \/ Find(t) \/ Write(t)
      PROVE  ScriptInv' /\ AllOrNothing'
  <2>1. ScriptInv'
    BY <1>2, ScriptBegin, ScriptCall, ScriptFind, ScriptWrite
  <2>2. ledger' = ledger /\ \A u \in Tx : phase'[u] = "committed" <=> phase[u] = "committed"
    BY <1>2 DEF Begin, Call, CallWith, Find, Write, tableVars, StockTypeOK
  <2> QED BY <2>1, <2>2, EntriesKept
<1>3. ASSUME NEW t \in Tx, Commit(t) PROVE ScriptInv' /\ AllOrNothing'
  BY <1>3, ScriptEnd, CommitShowsAll
<1>4. ASSUME NEW t \in Tx, Refuse(t) \/ UniqueViolation(t) \/ BreakDeadlock(t) \/ Abort(t)
      PROVE  ScriptInv' /\ AllOrNothing'
  <2>1. Rollback(t) /\ phase[t] # "committed"
    BY <1>4 DEF Refuse, UniqueViolation, BreakDeadlock, Abort, InFlight, Deadlocked, Blockers
  <2>2. ledger' = ledger /\ \A u \in Tx : phase'[u] = "committed" <=> phase[u] = "committed"
    BY <2>1 DEF Rollback, tableVars, StockTypeOK
  <2> QED BY <2>1, <2>2, ScriptEnd, EntriesKept
<1> QED BY <1>1, <1>2, <1>3, <1>4 DEF StockNext, Progress

\* The calls a transaction starts with are in the ledger all together, in their
\* order, once it has committed, and not at all unless it has, whatever other
\* transactions do between them (stock.engine.ts:190-222).
THEOREM AtomicCalls == StockSpec => []AllOrNothing
BY ScriptInit, ScriptStep, Invariance, PTL DEF StockSpec
----------------------------------------------------------------------------
(* What the calls still to make will add to a key. *)

\* What the calls s will add to key k.
DueFor(s, k) == [i \in DOMAIN s |-> IF s[i].key = k THEN Signed(s[i]) ELSE 0]
Due(s, k) == SumOver(DueFor(s, k), DOMAIN s)

\* The calls add what the first of them does, and what the others do.
LEMMA DueTail ==
  ASSUME NEW s \in Seq(Op), s # <<>>, NEW k
  PROVE  /\ Due(s, k) \in Int /\ Due(Tail(s), k) \in Int
         /\ Due(s, k) = (IF Head(s).key = k THEN Signed(Head(s)) ELSE 0) + Due(Tail(s), k)
<1> DEFINE n == Len(s) - 1
           u == Tail(s)
           f == DueFor(s, k)
           g == DueFor(u, k)
<1>1. /\ n \in Nat /\ DOMAIN s = 1..(n + 1) /\ DOMAIN u = 1..n /\ s[1] = Head(s)
      /\ \A i \in 1..n : u[i] = s[i + 1]
      /\ \A i \in 1..(n + 1) : s[i] \in Op
  OBVIOUS
<1>2. \A i \in 1..(n + 1) : Signed(s[i]) \in Int
  BY <1>1 DEF Op, Signed
<1> HIDE DEF n, u
<1>3. /\ \A i \in 1..(n + 1) : f[i] = (IF s[i].key = k THEN Signed(s[i]) ELSE 0) /\ f[i] \in Int
      /\ \A i \in 1..n : g[i] = f[i + 1] /\ g[i] \in Int
  BY <1>1, <1>2 DEF DueFor
<1> HIDE DEF f, g
<1>4. SumOver(f, 1..(n + 1)) = f[1] + SumOver(g, 1..n)
  <2>1. n \in Nat /\ \A i \in 1..(n + 1) : f[i] \in Int
    BY <1>1, <1>3
  <2>2. \A i \in 1..n : g[i] = f[i + 1]
    BY <1>3
  <2> QED BY <2>1, <2>2, SumShift
<1>5. SumOver(f, 1..(n + 1)) \in Int /\ SumOver(g, 1..n) \in Int
  <2>1. IsFiniteSet(1..(n + 1)) /\ IsFiniteSet(1..n)
    BY <1>1, FS_Interval
  <2> QED BY <1>3, <2>1, SumInt
<1>6. Due(s, k) = SumOver(f, 1..(n + 1)) /\ Due(u, k) = SumOver(g, 1..n)
  BY <1>1 DEF Due, f, g
<1>7. f[1] = IF Head(s).key = k THEN Signed(Head(s)) ELSE 0
  BY <1>1, <1>3
<1> QED BY <1>4, <1>5, <1>6, <1>7 DEF u

LEMMA DueEmpty == \A k : Due(<<>>, k) = 0
BY SumEmpty DEF Due

\* Calls for other keys add nothing.
LEMMA DueElsewhere ==
  ASSUME NEW s \in Seq(Op), NEW k, \A i \in DOMAIN s : s[i].key # k
  PROVE  Due(s, k) = 0
<1>1. DOMAIN s = 1..Len(s) /\ IsFiniteSet(DOMAIN s)
  BY FS_Interval
<1>2. \A i \in DOMAIN s : DueFor(s, k)[i] = 0
  BY DEF DueFor
<1> QED BY <1>1, <1>2, SumZero DEF Due

LEMMA DueOne ==
  ASSUME NEW op \in Op, NEW k
  PROVE  Due(<<op>>, k) = IF op.key = k THEN Signed(op) ELSE 0
<1>1. <<op>> \in Seq(Op) /\ <<op>> # <<>> /\ Head(<<op>>) = op /\ Tail(<<op>>) = <<>>
  OBVIOUS
<1>2. Signed(op) \in Int
  BY DEF Op, Signed
<1>3. Due(<<op>>, k) = (IF op.key = k THEN Signed(op) ELSE 0) + Due(<<>>, k)
  BY <1>1, DueTail
<1>4. Due(<<>>, k) = 0
  BY DueEmpty
<1> QED BY <1>2, <1>3, <1>4

LEMMA DueMove ==
  ASSUME NEW j \in Key, NEW k \in Key, j # k, NEW q \in Int
  PROVE  /\ Move(j, k, q) \in Seq(Op)
         /\ Due(Move(j, k, q), j) = -q
         /\ Due(Move(j, k, q), k) = q
         /\ \A l : l \notin {j, k} => Due(Move(j, k, q), l) = 0
<1> DEFINE d == Deduct(j, q)
           a == Add(k, q)
<1>1. /\ d \in Op /\ a \in Op /\ d.key = j /\ a.key = k /\ Signed(d) = -q /\ Signed(a) = q
  BY DEF Op, Deduct, Add, Signed
<1>2. Move(j, k, q) = <<d, a>>
  BY DEF Move
<1> HIDE DEF d, a
<1>3. /\ <<d, a>> \in Seq(Op) /\ <<d, a>> # <<>> /\ Head(<<d, a>>) = d /\ Tail(<<d, a>>) = <<a>>
  BY <1>1
<1>4. \A l : Due(<<d, a>>, l) = (IF d.key = l THEN Signed(d) ELSE 0) + Due(<<a>>, l)
  BY <1>3, DueTail
<1>5. \A l : Due(<<a>>, l) = IF a.key = l THEN Signed(a) ELSE 0
  BY <1>1, DueOne
<1> QED BY <1>1, <1>2, <1>3, <1>4, <1>5

----------------------------------------------------------------------------
(* How much of a key there is, and how much a transaction sees of it.  Its  *)
(* writes change what it sees by what its calls say, as long as what it has *)
(* read is still so; its commit makes everyone see what it saw.             *)

StockAt(k) == SumOver(qty, {r \in live : KeyOf[r] = k})
StockSeen(t, k) == SumOver([r \in Row |-> ValueSeen(t, r)], Matches(t, k))

\* A pending write for key k has read what is there still.
UpToDate(t, k) == phase[t] = "write" /\ Head(todo[t]).key = k => read[t] = Have(t, found[t])

\* There are finitely many rows, and a pending write has found one that is there.
RowsInv ==
  /\ IsFiniteSet(live)
  /\ \A t \in Tx : /\ IsFiniteSet(dirty[t])
                   /\ phase[t] = "write" /\ found[t] # NoRow =>
                        found[t] \in Matches(t, Head(todo[t]).key)

LEMMA RowsStep == RowsInv /\ StockTypeOK /\ [StockNext]_stockVars => RowsInv'
<1> SUFFICES ASSUME RowsInv, StockTypeOK, [StockNext]_stockVars PROVE RowsInv'
  OBVIOUS
<1> USE DEF RowsInv, Matches, Visible
<1>1. ASSUME NEW t \in Tx, Begin(t) \/ Call(t) PROVE RowsInv'
  BY <1>1 DEF Begin, Call, CallWith, StockTypeOK
<1>2. ASSUME NEW t \in Tx, Find(t) PROVE RowsInv'
  <2>1. PICK r \in FindFirst(t, Head(todo[t]).key) : found' = [found EXCEPT ![t] = r]
    BY <1>2 DEF Find
  <2>2. r # NoRow => r \in Matches(t, Head(todo[t]).key)
    BY <2>1 DEF FindFirst
  <2> QED BY <1>2, <2>1, <2>2 DEF Find, StockTypeOK
<1>3. ASSUME NEW t \in Tx, Write(t) PROVE RowsInv'
  <2>1. PICK r \in Target(t) : dirty' = [dirty EXCEPT ![t] = @ \cup {r}]
    BY <1>3 DEF Write
  <2>2. IsFiniteSet(dirty[t] \cup {r})
    BY FS_AddElement
  <2> QED BY <1>3, <2>1, <2>2 DEF Write, StockTypeOK, tableVars
<1>4. ASSUME NEW t \in Tx, Commit(t) PROVE RowsInv'
  <2>1. IsFiniteSet(live \cup dirty[t]) /\ IsFiniteSet({})
    BY FS_Union, FS_EmptySet
  <2> QED BY <1>4, <2>1 DEF Commit, StockTypeOK
<1>5. ASSUME NEW t \in Tx, Rollback(t) PROVE RowsInv'
  BY <1>5, FS_EmptySet DEF Rollback, StockTypeOK, tableVars
<1>6. CASE UNCHANGED stockVars
  BY <1>6 DEF stockVars
<1> QED BY <1>1, <1>2, <1>3, <1>4, <1>5, <1>6
        DEF StockNext, Progress, Refuse, UniqueViolation, BreakDeadlock, Abort

THEOREM RowsInvariance == IsFiniteSet(OpeningRow) => (StockSpec => []RowsInv)
<1> SUFFICES ASSUME IsFiniteSet(OpeningRow) PROVE StockSpec => []RowsInv
  OBVIOUS
<1>1. StockInit => RowsInv
  BY FS_EmptySet DEF StockInit, RowsInv
<1> QED BY <1>1, RowsStep, TypeCorrect, PTL DEF StockSpec

LEMMA SeenTypes ==
  ASSUME StockTypeOK, RowsInv, NEW t \in Tx, NEW k
  PROVE  /\ Matches(t, k) \subseteq Row /\ IsFiniteSet(Matches(t, k))
         /\ {r \in live : KeyOf[r] = k} \subseteq Row /\ IsFiniteSet({r \in live : KeyOf[r] = k})
         /\ \A r \in Row : ValueSeen(t, r) \in Int /\ qty[r] \in Int
         /\ StockSeen(t, k) \in Int /\ StockAt(k) \in Int
<1>1. /\ Matches(t, k) \subseteq Row /\ Matches(t, k) \subseteq live \cup dirty[t]
      /\ {r \in live : KeyOf[r] = k} \subseteq live /\ live \subseteq Row
  BY DEF Matches, Visible, StockTypeOK
<1>2. IsFiniteSet(live) /\ IsFiniteSet(live \cup dirty[t])
  BY FS_Union DEF RowsInv
<1>3. IsFiniteSet(Matches(t, k)) /\ IsFiniteSet({r \in live : KeyOf[r] = k})
  BY <1>1, <1>2, FS_Subset
<1>4. \A r \in Row : ValueSeen(t, r) \in Int /\ qty[r] \in Int
  BY DEF ValueSeen, StockTypeOK
<1> DEFINE f == [r \in Row |-> ValueSeen(t, r)]
<1>5. \A r \in Matches(t, k) : f[r] \in Int
  BY <1>1, <1>4
<1> HIDE DEF f
<1>6. SumOver(f, Matches(t, k)) \in Int
  BY <1>3, <1>5, SumInt
<1>7. SumOver(qty, {r \in live : KeyOf[r] = k}) \in Int
  BY <1>1, <1>3, <1>4, SumInt
<1> QED BY <1>1, <1>3, <1>4, <1>6, <1>7 DEF f, StockSeen, StockAt

\* A transaction that has written no row of a key sees what is committed.
LEMMA SeenCommitted ==
  ASSUME StockTypeOK, RowsInv, NEW t \in Tx, NEW k, \A r \in dirty[t] : KeyOf[r] # k
  PROVE  StockSeen(t, k) = StockAt(k)
<1> DEFINE f == [r \in Row |-> ValueSeen(t, r)]
           S == {r \in live : KeyOf[r] = k}
<1>1. Matches(t, k) = S
  BY DEF Matches, Visible, StockTypeOK
<1>2. \A r \in S : f[r] \in Int /\ f[r] = qty[r]
  BY SeenTypes DEF ValueSeen
<1>3. IsFiniteSet(S)
  BY SeenTypes
<1> HIDE DEF f, S
<1>4. SumOver(f, S) = SumOver(qty, S)
  BY <1>2, <1>3, SumEqual
<1> QED BY <1>1, <1>4 DEF f, S, StockSeen, StockAt

\* Nothing changes where a step changes no row of the key.
LEMMA SeenKept ==
  ASSUME StockTypeOK, RowsInv, NEW t \in Tx, NEW k,
         \A r \in Row : KeyOf[r] = k =>
           /\ r \in live' <=> r \in live
           /\ qty'[r] = qty[r]
           /\ r \in dirty'[t] <=> r \in dirty[t]
           /\ r \in dirty[t] => val'[t][r] = val[t][r],
         live' \subseteq Row
  PROVE  StockSeen(t, k)' = StockSeen(t, k) /\ StockAt(k)' = StockAt(k)
<1> DEFINE f == [r \in Row |-> ValueSeen(t, r)]
           g == [r \in Row |-> ValueSeen(t, r)']
           M == Matches(t, k)
           S == {r \in live : KeyOf[r] = k}
<1>1. Matches(t, k)' = M /\ {r \in live' : KeyOf[r] = k} = S
  BY SeenTypes DEF Matches, Visible
<1>2. \A r \in M : f[r] \in Int /\ f[r] = g[r]
  BY SeenTypes DEF Matches, ValueSeen
<1>3. \A r \in S : qty[r] \in Int /\ qty[r] = qty'[r]
  BY SeenTypes
<1>4. IsFiniteSet(M) /\ IsFiniteSet(S)
  BY SeenTypes
<1>5. StockSeen(t, k)' = SumOver(g, M)
  BY <1>1 DEF StockSeen
<1>6. StockAt(k)' = SumOver(qty', S)
  BY <1>1 DEF StockAt
<1> HIDE DEF f, g, M, S
<1>7. SumOver(f, M) = SumOver(g, M)
  BY <1>2, <1>4, SumEqual
<1>8. SumOver(qty, S) = SumOver(qty', S)
  BY <1>3, <1>4, SumEqual
<1> QED BY <1>5, <1>6, <1>7, <1>8 DEF f, M, S, StockSeen, StockAt

\* A write of a fresh read changes what is seen by what its call says.
LEMMA SeenWritten ==
  ASSUME StockTypeOK, PendingCall, RowsInv, NEW t \in Tx, NEW k, Write(t), UpToDate(t, k)
  PROVE  /\ StockSeen(t, k)' =
              StockSeen(t, k) + (IF Head(todo[t]).key = k THEN Signed(Head(todo[t])) ELSE 0)
         /\ StockAt(k)' = StockAt(k)
<1> DEFINE op == Head(todo[t])
<1>1. PICK r \in Target(t) : /\ dirty' = [dirty EXCEPT ![t] = @ \cup {r}]
                             /\ val' = [val EXCEPT ![t][r] = read[t] + Signed(op)]
  BY DEF Write
<1>2. /\ live' = live /\ qty' = qty /\ phase[t] = "write" /\ todo[t] # <<>> /\ todo[t] \in Seq(Op)
      /\ live \subseteq Row /\ read[t] \in Int
  BY DEF Write, tableVars, PendingCall, StockTypeOK
<1>3. r \in Row /\ KeyOf[r] = op.key
  BY <1>1, <1>2 DEF Target, RowsInv, Matches
<1>4. Signed(op) \in Int
  BY <1>2, OpFacts
<1>5. /\ dirty'[t] = dirty[t] \cup {r} /\ val'[t][r] = read[t] + Signed(op)
      /\ \A x \in Row \ {r} : val'[t][x] = val[t][x]
  BY <1>1, <1>3 DEF StockTypeOK
<1>6. CASE op.key # k
  <2>1. \A x \in Row : KeyOf[x] = k =>
          /\ x \in live' <=> x \in live
          /\ qty'[x] = qty[x]
          /\ x \in dirty'[t] <=> x \in dirty[t]
          /\ x \in dirty[t] => val'[t][x] = val[t][x]
    BY <1>2, <1>3, <1>5, <1>6
  <2>2. StockSeen(t, k)' = StockSeen(t, k) /\ StockAt(k)' = StockAt(k) /\ StockSeen(t, k) \in Int
    BY <1>2, <2>1, SeenKept, SeenTypes
  <2> QED BY <1>6, <2>2
<1>7. CASE op.key = k
  <2> DEFINE f == [x \in Row |-> ValueSeen(t, x)]
             g == [x \in Row |-> ValueSeen(t, x)']
             M == Matches(t, k)
  <2>1. Matches(t, k)' = M \cup {r}
    BY <1>2, <1>3, <1>5, <1>7 DEF Matches, Visible
  <2>2. g[r] = read[t] + Signed(op) /\ \A x \in M \ {r} : g[x] = f[x]
    BY <1>2, <1>3, <1>5 DEF ValueSeen, Matches
  <2>3. IsFiniteSet(M) /\ M \subseteq Row /\ \A x \in Row : f[x] \in Int
    BY SeenTypes
  <2>4. StockSeen(t, k)' = SumOver(g, M \cup {r})
    BY <2>1 DEF StockSeen
  <2>5. StockSeen(t, k) = SumOver(f, M)
    BY DEF StockSeen
  <2>6. StockAt(k)' = StockAt(k)
    BY <1>2 DEF StockAt
  <2>7. read[t] = Have(t, found[t])
    BY <1>2, <1>7 DEF UpToDate
  <2>8. IF r \in M THEN read[t] = f[r] ELSE read[t] = 0
    <3>1. CASE found[t] # NoRow
      <4>1. r = found[t] /\ r \in M
        BY <1>1, <1>2, <1>7, <3>1 DEF Target, RowsInv
      <4> QED BY <1>3, <2>7, <3>1, <4>1 DEF Have
    <3>2. CASE found[t] = NoRow
      <4>1. r \notin live /\ r \notin dirty[t]
        BY <1>1, <3>2 DEF Target
      <4> QED BY <2>7, <3>2, <4>1 DEF Have, Matches, Visible
    <3> QED BY <3>1, <3>2
  <2> HIDE DEF f, g, M
  <2>9. \A x \in M \cup {r} : f[x] \in Int /\ g[x] \in Int
    BY <1>2, <1>3, <1>4, <2>2, <2>3
  <2>10. SumOver(g, M \cup {r}) = SumOver(f, M) + Signed(op)
    <3>1. CASE r \in M
      <4>1. M \cup {r} = M /\ \A x \in M \ {r} : f[x] = g[x]
        BY <2>2, <3>1
      <4>2. SumOver(g, M) = SumOver(f, M) - f[r] + g[r]
        BY <2>3, <2>9, <3>1, <4>1, SumChange
      <4>3. SumOver(f, M) \in Int
        BY <2>3, <2>9, SumInt
      <4>4. f[r] = read[t] /\ g[r] = read[t] + Signed(op)
        BY <2>2, <2>8, <3>1
      <4>5. SumOver(g, M) = SumOver(f, M) - read[t] + (read[t] + Signed(op))
        BY <4>2, <4>4
      <4> HIDE DEF op
      <4>6. SumOver(g, M) = SumOver(f, M) + Signed(op)
        BY <1>2, <1>4, <4>3, <4>5
      <4> QED BY <4>1, <4>6
    <3>2. CASE r \notin M
      <4>1. SumOver(g, M \cup {r}) = g[r] + SumOver(g, M)
        BY <2>3, <2>9, <3>2, SumAdd
      <4>2. SumOver(f, M) = SumOver(g, M) /\ SumOver(f, M) \in Int
        <5>1. \A x \in M : f[x] \in Int /\ f[x] = g[x]
          BY <2>2, <2>9, <3>2
        <5> QED BY <2>3, <5>1, SumEqual, SumInt
      <4> QED BY <1>4, <2>2, <2>8, <3>2, <4>1, <4>2
    <3> QED BY <3>1, <3>2
  <2> QED BY <1>7, <2>4, <2>5, <2>6, <2>10
<1> QED BY <1>6, <1>7

\* A commit makes of what is there what its transaction saw.
LEMMA SeenInstalled ==
  ASSUME StockTypeOK, RowsInv, NEW t \in Tx, NEW k, Commit(t)
  PROVE  StockAt(k)' = StockSeen(t, k)
<1> DEFINE f == [r \in Row |-> ValueSeen(t, r)]
           M == Matches(t, k)
<1>1. live' = live \cup dirty[t] /\ qty' = [r \in Row |-> IF r \in dirty[t] THEN val[t][r] ELSE qty[r]]
  BY DEF Commit
<1>2. {r \in live' : KeyOf[r] = k} = M
  BY <1>1 DEF Matches, Visible, StockTypeOK
<1>3. IsFiniteSet(M) /\ \A r \in M : f[r] \in Int /\ f[r] = qty'[r]
  BY <1>1, SeenTypes DEF ValueSeen
<1>4. StockAt(k)' = SumOver(qty', M)
  BY <1>2 DEF StockAt
<1> HIDE DEF f, M
<1>5. SumOver(f, M) = SumOver(qty', M)
  BY <1>3, SumEqual
<1> QED BY <1>4, <1>5 DEF f, M, StockSeen

=============================================================================
