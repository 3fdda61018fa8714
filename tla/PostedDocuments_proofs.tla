----------------------- MODULE PostedDocuments_proofs -----------------------
(***************************************************************************)
(* Proofs about posted documents, for every set of transactions, types,    *)
(* keys, rows and scripts: numbering is gap-free and serialises the        *)
(* documents of a type, and where the documents that share stock are of    *)
(* one type no update of stock is lost, and the documents implement the    *)
(* serial ledger of StockLedger.                                           *)
(***************************************************************************)
EXTENDS PostedDocuments, StockEngine_proofs, Maps_proofs

\* A document's step is a step of the engine, or leaves its state alone.
LEMMA DocStepIsStockStep ==
  ASSUME [DocNext]_docVars
  PROVE  UNCHANGED stockVars \/ \E t \in Tx : Begin(t) \/ Progress(t) \/ Abort(t)
<1>1. CASE UNCHANGED docVars
  BY <1>1 DEF docVars, stockVars
<1>2. ASSUME NEW t \in Tx, OpenTransaction(t) \/ DocProgress(t) \/ Crash(t)
      PROVE  UNCHANGED stockVars \/ Begin(t) \/ Progress(t) \/ Abort(t)
  BY <1>2 DEF OpenTransaction, DocProgress, Crash, TakeNumber, InsertHeader,
       NumberTaken, StockCall, LineFails, PostDoc, PoolTimeout, Progress
<1> QED BY <1>1, <1>2 DEF DocNext

\* Posting a document is a behaviour of the stock engine: what holds of every
\* caller of the engine holds of documents.
THEOREM DocumentsUseEngine == DocSpec => StockSpec
<1>1. DocInit => StockInit
  BY DEF DocInit
<1>2. [DocNext]_docVars => [StockNext]_stockVars
  BY DocStepIsStockStep DEF StockNext
<1> QED BY <1>1, <1>2, PTL DEF DocSpec, StockSpec

----------------------------------------------------------------------------
(* Numbers. *)

\* A computed number is one above a number in use, or 1.
FollowsOn ==
  \A t \in Tx :
    (step[t] \in {"counted", "scanned", "numbered"} /\ DocOf[t] # NoDoc)
      => \/ number[t] = 1
         \/ number[t] > 1 /\ number[t] - 1 \in numbers[DocOf[t]]

\* The number of a document past its insert is not in use yet.
NotYetTaken ==
  \A t \in Tx :
    (step[t] = "numbered" /\ DocOf[t] # NoDoc) => number[t] \notin numbers[DocOf[t]]

SeriesInv ==
  /\ SeriesTypeOK
  /\ NoGaps
  /\ FollowsOn
  /\ NotYetTaken
  /\ OneAtATime

\* maxSeq returns a number in use, or 0 when there is none.
LEMMA MaxSeqFacts ==
  ASSUME NEW d, NEW m \in MaxSeq(d) PROVE m = 0 \/ m \in numbers[d]
BY DEF MaxSeq

\* A number that follows on and is not in use is the only one of its kind.
LEMMA OneNextNumber ==
  ASSUME NEW N \in SUBSET Nat, NEW a \in Nat, NEW b \in Nat,
         \A n \in N : 1..n \subseteq N,
         a = 1 \/ (a > 1 /\ a - 1 \in N),
         b = 1 \/ (b > 1 /\ b - 1 \in N),
         a \notin N, b \notin N
  PROVE  a = b
<1>1. ASSUME NEW x \in Nat, NEW y \in Nat, x >= 1, x < y, y - 1 \in N PROVE x \in N
  BY <1>1
<1> QED BY <1>1

\* Every step of the series keeps its invariant.
LEMMA SeriesInit1 == SeriesInit => SeriesInv
BY SeriesConstants
DEF SeriesInit, SeriesInv, SeriesTypeOK, NoGaps, FollowsOn, NotYetTaken, OneAtATime, Steps

\* Opening a connection, or a step with no number.
LEMMA SeriesOpen ==
  ASSUME SeriesInv, NEW t \in Tx, Open(t) \/ Fail(t)
  PROVE  SeriesInv'
BY SeriesConstants
DEF Open, Fail, SeriesInv, SeriesTypeOK, NoGaps, FollowsOn, NotYetTaken, OneAtATime, Steps

\* Computing a number.
LEMMA SeriesScan ==
  ASSUME SeriesInv, NEW t \in Tx, Scan(t)
  PROVE  SeriesInv'
<1> USE SeriesConstants DEF SeriesInv
<1>1. PICK m \in MaxSeq(DocOf[t]) : number' = [number EXCEPT ![t] = m + 1]
  BY DEF Scan
<1>2. DocOf[t] \in DocType /\ numbers[DocOf[t]] \subseteq Nat
  BY DEF Scan, SeriesTypeOK
<1>3. m \in Nat /\ (m = 0 \/ m \in numbers[DocOf[t]])
  BY <1>2, MaxSeqFacts
<1>4. SeriesTypeOK'
  BY <1>1, <1>3 DEF Scan, SeriesTypeOK, Steps
<1>5. FollowsOn'
  BY <1>1, <1>3 DEF Scan, SeriesTypeOK, FollowsOn
<1>6. NoGaps' /\ NotYetTaken' /\ OneAtATime'
  BY <1>1 DEF Scan, SeriesTypeOK, NoGaps, NotYetTaken, OneAtATime
<1> QED BY <1>4, <1>5, <1>6

\* Inserting the document: nobody else of its type is past that point.
LEMMA SeriesInsert ==
  ASSUME SeriesInv, NEW t \in Tx, Insert(t) \/ SkipNumber(t)
  PROVE  SeriesInv'
<1> USE SeriesConstants DEF SeriesInv
<1>1. CASE SkipNumber(t)
  BY <1>1 DEF SkipNumber, SeriesTypeOK, Steps, NoGaps, FollowsOn, NotYetTaken, OneAtATime
<1>2. CASE Insert(t)
  <2>1. SeriesTypeOK' /\ NoGaps' /\ FollowsOn' /\ NotYetTaken'
    BY <1>2 DEF Insert, SeriesTypeOK, Steps, NoGaps, FollowsOn, NotYetTaken
  <2>2. ASSUME NEW u \in Tx \ {t}, step[u] = "numbered", DocOf[t] # NoDoc,
               DocOf[u] = DocOf[t]
        PROVE  FALSE
    <3> DEFINE N == numbers[DocOf[t]]
    <3>1. N \in SUBSET Nat /\ number[t] \in Nat /\ number[u] \in Nat
      BY <2>2 DEF SeriesTypeOK
    <3>2. \A n \in N : 1..n \subseteq N
      BY <2>2 DEF NoGaps
    <3>3. number[t] \notin N /\ number[u] \notin N
      BY <1>2, <2>2 DEF Insert, NotYetTaken
    <3>4. /\ number[t] = 1 \/ (number[t] > 1 /\ number[t] - 1 \in N)
          /\ number[u] = 1 \/ (number[u] > 1 /\ number[u] - 1 \in N)
      BY <1>2, <2>2 DEF Insert, FollowsOn
    <3> HIDE DEF N
    <3>5. number[t] = number[u]
      BY <3>1, <3>2, <3>3, <3>4, OneNextNumber
    <3> QED BY <1>2, <2>2, <3>5 DEF Insert, SameNumber
  <2>3. OneAtATime'
    BY <1>2, <2>2 DEF Insert, OneAtATime, SeriesTypeOK
  <2> QED BY <2>1, <2>3
<1> QED BY <1>1, <1>2

\* Committing it: its number joins the others without a gap.
LEMMA SeriesPost ==
  ASSUME SeriesInv, NEW t \in Tx, Post(t)
  PROVE  SeriesInv'
<1> USE SeriesConstants DEF SeriesInv
<1>1. SeriesTypeOK'
  BY DEF Post, SeriesTypeOK, Steps
<1>2. OneAtATime'
  BY DEF Post, OneAtATime, SeriesTypeOK
<1>3. NoGaps'
  <2>1. ASSUME NEW d \in DocType, NEW n \in numbers'[d] PROVE 1..n \subseteq numbers'[d]
    <3>1. CASE n \in numbers[d]
      BY <3>1 DEF Post, NoGaps, SeriesTypeOK
    <3>2. CASE n \notin numbers[d]
      <4>1. d = DocOf[t] /\ n = number[t] /\ numbers'[d] = numbers[d] \cup {n}
        BY <3>2 DEF Post, SeriesTypeOK
      <4>2. d # NoDoc
        OBVIOUS
      <4>3. n \in Nat /\ (n = 1 \/ (n > 1 /\ n - 1 \in numbers[d]))
        BY <4>1, <4>2 DEF FollowsOn, Post, SeriesTypeOK
      <4>4. 1..n = (1..(n-1)) \cup {n}
        BY <4>3
      <4>5. n > 1 => 1..(n-1) \subseteq numbers[d]
        BY <4>3 DEF NoGaps
      <4> QED BY <4>1, <4>3, <4>4, <4>5
    <3> QED BY <3>1, <3>2
  <2> QED BY <2>1 DEF NoGaps
<1>4. FollowsOn'
  BY DEF Post, FollowsOn, SeriesTypeOK
<1>5. NotYetTaken'
  BY DEF Post, NotYetTaken, OneAtATime, SeriesTypeOK
<1> QED BY <1>1, <1>2, <1>3, <1>4, <1>5

\* A step of a document is one of its series, or leaves that alone.
LEMMA SeriesSteps ==
  ASSUME [DocNext]_docVars
  PROVE  UNCHANGED seriesVars \/ \E t \in Tx : \/ Open(t) \/ Scan(t) \/ Insert(t)
                                             \/ SkipNumber(t) \/ Post(t) \/ Fail(t)
<1>1. CASE UNCHANGED docVars
  BY <1>1 DEF docVars, seriesVars
<1>2. ASSUME NEW t \in Tx, OpenTransaction(t) \/ DocProgress(t) \/ Crash(t)
      PROVE  \/ Open(t) \/ Scan(t) \/ Insert(t) \/ SkipNumber(t) \/ Post(t) \/ Fail(t)
             \/ UNCHANGED seriesVars
  BY <1>2 DEF OpenTransaction, DocProgress, Crash, TakeNumber, InsertHeader,
       NumberTaken, Duplicate, StockCall, LineFails, PostDoc, PoolTimeout
<1> QED BY <1>1, <1>2 DEF DocNext

\* Every step of a document keeps the invariant of its series.
LEMMA SeriesStep == SeriesInv /\ [DocNext]_docVars => SeriesInv'
<1> SUFFICES ASSUME SeriesInv, [DocNext]_docVars PROVE SeriesInv'
  OBVIOUS
<1>1. CASE UNCHANGED seriesVars
  BY <1>1 DEF seriesVars, SeriesInv, SeriesTypeOK, NoGaps, FollowsOn, NotYetTaken, OneAtATime
<1> QED BY <1>1, SeriesSteps, SeriesOpen, SeriesScan, SeriesInsert, SeriesPost

\* The invariant of document numbering.
THEOREM SeriesInvariance == DocSpec => []SeriesInv
<1>1. DocInit => SeriesInv
  BY SeriesInit1 DEF DocInit
<1> QED BY <1>1, SeriesStep, PTL DEF DocSpec

\* No two documents of a type are between insert and commit together.
THEOREM PostedOneAtATime == DocSpec => []OneAtATime
BY SeriesInvariance, PTL DEF SeriesInv

\* Numbers have no gaps, whatever fails.
THEOREM NumberedWithoutGaps == DocSpec => []NoGaps
BY SeriesInvariance, PTL DEF SeriesInv

\* Every variable of the engine and of the numbering keeps its type.
THEOREM DocumentsTypeCorrect == DocSpec => []DocTypeOK
<1>1. SeriesInv => SeriesTypeOK
  BY DEF SeriesInv
<1> QED BY <1>1, DocumentsUseEngine, TypeCorrect, SeriesInvariance, PTL DEF DocTypeOK

\* The number that follows what a scan returns is in use only beyond ScanLimit.
LEMMA ScanFinds ==
  ASSUME NEW d, numbers[d] \in SUBSET (Nat \ {0}), IsFiniteSet(numbers[d]),
         NEW m \in MaxSeq(d), m + 1 \in numbers[d]
  PROVE  m >= ScanLimit
<1> DEFINE N == numbers[d]
           Below == {x \in N : x <= m}
<1>1. N # {} /\ m \in Nat \ {0}
  BY DEF MaxSeq
<1>2. Cardinality(N) \in Nat /\ ScanLimit \in Nat
  BY FS_CardinalityType, SeriesConstants
<1>3. Cardinality(Below) >= IF Cardinality(N) < ScanLimit THEN Cardinality(N) ELSE ScanLimit
  BY <1>1 DEF MaxSeq
<1>4. IsFiniteSet(Below) /\ Cardinality(Below) \in Nat
  BY FS_Subset, FS_CardinalityType
<1>5. Cardinality(Below) < Cardinality(N)
  <2>1. m + 1 \notin Below /\ Below \subseteq N
    BY <1>1
  <2>2. Below # N
    BY <2>1
  <2> QED BY <2>1, <2>2, <1>2, <1>4, FS_Subset
<1>6. Cardinality(Below) >= ScanLimit
  BY <1>2, <1>3, <1>4, <1>5
<1>7. Cardinality(Below) <= m
  <2>1. Below \subseteq 1..m
    BY <1>1
  <2>2. IsFiniteSet(1..m) /\ Cardinality(1..m) = IF 1 > m THEN 0 ELSE m - 1 + 1
    BY <1>1, FS_Interval
  <2>3. Cardinality(1..m) = m
    BY <1>1, <2>2
  <2>4. Cardinality(Below) <= Cardinality(1..m)
    BY <2>1, <2>2, FS_Subset
  <2> QED BY <2>3, <2>4
<1> QED BY <1>1, <1>2, <1>4, <1>6, <1>7

\* A series has finitely many documents, numbered from 1.
Finitely == \A d \in DocType : IsFiniteSet(numbers[d])

LEMMA FinitelyNext == Finitely /\ [DocNext]_docVars => Finitely'
<1> SUFFICES ASSUME Finitely, [DocNext]_docVars, NEW d \in DocType PROVE IsFiniteSet(numbers'[d])
  BY DEF Finitely
<1>1. \/ numbers' = numbers
      \/ \E t \in Tx : Post(t)
  BY SeriesSteps DEF seriesVars, Open, Scan, Insert, SkipNumber, Fail
<1>2. ASSUME NEW t \in Tx, Post(t)
      PROVE  numbers'[d] = numbers[d] \/ numbers'[d] = numbers[d] \cup {number[t]}
  BY <1>2 DEF Post
<1> QED BY <1>1, <1>2, FS_AddElement DEF Finitely

----------------------------------------------------------------------------
(* No lost update, and one row per key, of documents of which those that   *)
(* share a key are of one type.                                            *)
(*                                                                         *)
(* The argument: two documents past their insert are of different types    *)
(* (OneAtATime), so their keys are disjoint, so what findFirst returned to *)
(* one of them is still there when it writes (FreshRead), although the     *)
(* engine takes no lock when it reads.                                     *)

\* The engine works for a document exactly while the document is numbered.
EngineAtWork == \A t \in Tx : InFlight(t) <=> step[t] = "numbered"

\* A transaction calls for, and writes, rows of its own keys only, and holds
\* nothing once it has ended.
OwnKeys ==
  \A t \in Tx :
    /\ \A i \in DOMAIN todo[t] : todo[t][i].key \in KeysOf(t)
    /\ \A r \in dirty[t] : KeyOf[r] \in KeysOf(t)
    /\ ~InFlight(t) => dirty[t] = {} /\ pend[t] = <<>>

\* What a pending call has read still holds.
Fresh(t) ==
  LET k == Head(todo[t]).key
  IN  IF found[t] = NoRow
        THEN read[t] = 0 /\ \A r \in Row : KeyOf[r] = k => ~Visible(t, r)
        ELSE found[t] \in Matches(t, k) /\ read[t] = ValueSeen(t, found[t])

FreshRead == \A t \in Tx : phase[t] = "write" => Fresh(t)

\* A row that does not exist yet holds nothing.
UnbornEmpty == \A r \in Row \ live : qty[r] = 0

\* Nobody sees two rows of a key.
OneRowSeen ==
  \A t \in Tx : \A r, s \in live \cup dirty[t] : KeyOf[r] = KeyOf[s] => r = s

\* Uncommitted entries are a chain too, from the committed quantities.
PendingChain == \A t \in Tx : Chained(pend[t], qty)

SerialInv ==
  /\ StockInv
  /\ OneAtATime
  /\ EngineAtWork
  /\ OwnKeys
  /\ FreshRead
  /\ UnbornEmpty
  /\ OneRowSeen
  /\ OneRowPerKey
  /\ PendingChain
  /\ BalanceChain

----------------------------------------------------------------------------
(* Chains of balances. *)

\* An entry that continues from its row's balance lengthens the chain.
LEMMA AppendChain ==
  ASSUME NEW s \in Seq(Entry), NEW e \in Entry, NEW base, NEW b,
         Chained(s, base), EndsAt(s, e.row, base[e.row], b),
         e.balanceAfter = b + e.qty
  PROVE  Chained(Append(s, e), base)
<1> DEFINE s2 == Append(s, e)
<1>1. /\ DOMAIN s2 = 1..Len(s) + 1
      /\ DOMAIN s = 1..Len(s)
      /\ s2[Len(s) + 1] = e
      /\ \A i \in 1..Len(s) : s2[i] = s[i]
      /\ Len(s) \in Nat
  OBVIOUS
<1> HIDE DEF s2
<1>2. ASSUME NEW i \in DOMAIN s2, \A j \in DOMAIN s2 : j < i => s2[j].row # s2[i].row
      PROVE  s2[i].balanceAfter = base[s2[i].row] + s2[i].qty
  <2>1. CASE i \in DOMAIN s
    BY <1>1, <1>2, <2>1 DEF Chained
  <2>2. CASE i = Len(s) + 1
    <3>1. \A j \in DOMAIN s : s[j].row # e.row
      BY <1>1, <1>2, <2>2
    <3>2. b = base[e.row]
      BY <3>1 DEF EndsAt
    <3> QED BY <3>2, <1>1, <2>2
  <2> QED BY <1>1, <2>1, <2>2
<1>3. ASSUME NEW i \in DOMAIN s2, NEW j \in DOMAIN s2, j < i, s2[j].row = s2[i].row,
             \A k \in DOMAIN s2 : j < k /\ k < i => s2[k].row # s2[i].row
      PROVE  s2[i].balanceAfter = s2[j].balanceAfter + s2[i].qty
  <2>1. j \in DOMAIN s /\ s2[j] = s[j]
    BY <1>1, <1>3
  <2>2. CASE i \in DOMAIN s
    <3>1. s2[i] = s[i] /\ s[j].row = s[i].row
      BY <1>1, <1>3, <2>1, <2>2
    <3>2. \A k \in DOMAIN s : j < k /\ k < i => s[k].row # s[i].row
      BY <1>1, <1>3, <3>1
    <3> QED BY <1>3, <2>1, <2>2, <3>1, <3>2 DEF Chained
  <2>3. CASE i = Len(s) + 1
    <3>1. s[j].row = e.row /\ \A k \in DOMAIN s : k > j => s[k].row # e.row
      BY <1>1, <1>3, <2>1, <2>3
    <3>2. b = s[j].balanceAfter
      BY <3>1, <2>1 DEF EndsAt
    <3> QED BY <3>2, <1>1, <2>1, <2>3
  <2> QED BY <1>1, <2>2, <2>3
<1> QED BY <1>2, <1>3 DEF Chained, s2

\* Two chains join when the second starts where the first ends.
LEMMA ConcatChain ==
  ASSUME NEW s \in Seq(Entry), NEW p \in Seq(Entry), NEW base, NEW mid,
         Chained(s, base), Chained(p, mid),
         \A i \in DOMAIN p : EndsAt(s, p[i].row, base[p[i].row], mid[p[i].row])
  PROVE  Chained(s \o p, base)
<1> DEFINE c == s \o p
           n == Len(s)
<1>1. /\ DOMAIN c = 1..n + Len(p)
      /\ DOMAIN s = 1..n
      /\ DOMAIN p = 1..Len(p)
      /\ n \in Nat /\ Len(p) \in Nat
      /\ \A i \in 1..n : c[i] = s[i]
      /\ \A i \in 1..Len(p) : c[n + i] = p[i]
  OBVIOUS
<1>2. ASSUME NEW i \in DOMAIN c, i > n
      PROVE  i - n \in DOMAIN p /\ c[i] = p[i - n]
  BY <1>1, <1>2
<1>5. \A j \in DOMAIN s : j \in DOMAIN c /\ c[j] = s[j] /\ j \in Int /\ j <= n
  BY <1>1
<1>6. \A j \in DOMAIN p : n + j \in DOMAIN c /\ c[n + j] = p[j] /\ j \in Int /\ j > 0
  BY <1>1
<1>7. n \in Int /\ DOMAIN c \subseteq Int
  BY <1>1
<1>8. \A i \in DOMAIN c : i \in DOMAIN s \/ i > n
  BY <1>1
<1> HIDE DEF c, n
<1>3. ASSUME NEW i \in DOMAIN c, \A j \in DOMAIN c : j < i => c[j].row # c[i].row
      PROVE  c[i].balanceAfter = base[c[i].row] + c[i].qty
  <2>1. CASE i \in DOMAIN s
    <3>1. \A j \in DOMAIN s : j < i => s[j].row # s[i].row
      BY <1>5, <1>3, <2>1
    <3> QED BY <3>1, <1>5, <2>1 DEF Chained
  <2>2. CASE i > n
    <3>1. i - n \in DOMAIN p /\ c[i] = p[i - n]
      BY <1>2, <2>2
    <3>2. ASSUME NEW j \in DOMAIN s PROVE s[j].row # p[i - n].row
      <4>1. j \in DOMAIN c /\ c[j] = s[j] /\ j < i
        BY <1>5, <1>7, <2>2
      <4> QED BY <4>1, <1>3, <3>1
    <3>3. mid[p[i - n].row] = base[p[i - n].row]
      BY <3>1, <3>2 DEF EndsAt
    <3>4. ASSUME NEW j \in DOMAIN p, j < i - n PROVE p[j].row # p[i - n].row
      <4>1. n + j \in DOMAIN c /\ c[n + j] = p[j] /\ n + j < i
        BY <1>6, <1>7, <3>4
      <4> QED BY <4>1, <1>3, <3>1
    <3>5. p[i - n].balanceAfter = mid[p[i - n].row] + p[i - n].qty
      BY <3>1, <3>4 DEF Chained
    <3> QED BY <3>1, <3>3, <3>5
  <2> QED BY <1>8, <2>1, <2>2
<1>4. ASSUME NEW i \in DOMAIN c, NEW j \in DOMAIN c, j < i, c[j].row = c[i].row,
             \A k \in DOMAIN c : j < k /\ k < i => c[k].row # c[i].row
      PROVE  c[i].balanceAfter = c[j].balanceAfter + c[i].qty
  <2>1. CASE i \in DOMAIN s
    <3>1. j \in DOMAIN s /\ c[i] = s[i] /\ c[j] = s[j]
      BY <1>4, <1>5, <1>7, <1>8, <2>1
    <3>2. \A k \in DOMAIN s : j < k /\ k < i => s[k].row # s[i].row
      BY <1>4, <1>5, <2>1, <3>1
    <3> QED BY <3>1, <3>2, <1>4, <2>1 DEF Chained
  <2>2. CASE i > n /\ j > n
    <3>1. /\ i - n \in DOMAIN p /\ c[i] = p[i - n]
          /\ j - n \in DOMAIN p /\ c[j] = p[j - n]
      BY <1>2, <2>2
    <3>2. ASSUME NEW k \in DOMAIN p, j - n < k, k < i - n
          PROVE  p[k].row # p[i - n].row
      <4>1. n + k \in DOMAIN c /\ c[n + k] = p[k] /\ j < n + k /\ n + k < i
        BY <1>6, <1>7, <3>2
      <4> QED BY <4>1, <1>4, <3>1
    <3>3. j - n < i - n
      BY <1>5, <1>7, <1>8, <1>4
    <3> QED BY <3>1, <3>2, <3>3, <1>4 DEF Chained
  <2>3. CASE i > n /\ j \in DOMAIN s
    <3>1. i - n \in DOMAIN p /\ c[i] = p[i - n] /\ c[j] = s[j]
      BY <1>5, <1>7, <1>8, <1>2, <2>3
    <3>2. ASSUME NEW k \in DOMAIN p, k < i - n PROVE p[k].row # p[i - n].row
      <4>1. n + k \in DOMAIN c /\ c[n + k] = p[k] /\ j < n + k /\ n + k < i
        BY <1>1, <1>5, <1>6, <1>7, <2>3, <3>2
      <4> QED BY <4>1, <1>4, <3>1
    <3>3. p[i - n].balanceAfter = mid[p[i - n].row] + p[i - n].qty
      BY <3>1, <3>2 DEF Chained
    <3>4. ASSUME NEW k \in DOMAIN s, k > j PROVE s[k].row # p[i - n].row
      <4>1. k \in DOMAIN c /\ c[k] = s[k] /\ k < i /\ j < k
        BY <1>5, <1>7, <2>3, <3>4
      <4> QED BY <4>1, <1>4, <3>1
    <3>5. mid[p[i - n].row] = s[j].balanceAfter
      BY <3>1, <3>4, <2>3, <1>4 DEF EndsAt
    <3> QED BY <3>1, <3>3, <3>5
  <2> QED BY <1>8, <2>1, <2>2, <2>3
<1> QED BY <1>3, <1>4 DEF Chained, c

----------------------------------------------------------------------------
(* What keeps the documents apart. *)

\* Two documents whose engine calls are running share no key.
LEMMA Isolation ==
  ASSUME OneTypePerKey, OneAtATime, EngineAtWork,
         NEW t \in Tx, NEW u \in Tx, t # u, InFlight(t), InFlight(u)
  PROVE  KeysOf(t) \cap KeysOf(u) = {}
BY DEF OneTypePerKey, OneAtATime, EngineAtWork

\* A row somebody else has written is of a key the reader does not touch.
LEMMA OthersRows ==
  ASSUME OneTypePerKey, SerialInv, NEW t \in Tx, InFlight(t),
         NEW u \in Tx \ {t}, NEW r \in dirty[u]
  PROVE  KeyOf[r] \notin KeysOf(t)
<1>1. InFlight(u) /\ KeyOf[r] \in KeysOf(u)
  BY DEF SerialInv, OwnKeys
<1> QED BY <1>1, Isolation DEF SerialInv

\* The engine works exactly between a document's insert and its end.
LEMMA EngineAtWorkStep ==
  ASSUME StockTypeOK, SeriesTypeOK, EngineAtWork, DocNext
  PROVE  EngineAtWork'
<1>1. PICK t \in Tx : OpenTransaction(t) \/ DocProgress(t) \/ Crash(t)
  BY DEF DocNext
<1> USE DEF EngineAtWork, InFlight
<1>2. CASE OpenTransaction(t) \/ TakeNumber(t)
  BY <1>2 DEF OpenTransaction, TakeNumber, Open, Scan, stockVars, SeriesTypeOK
<1>3. CASE InsertHeader(t)
  BY <1>3 DEF InsertHeader, Insert, SkipNumber, Begin, StockTypeOK, SeriesTypeOK
<1>4. CASE NumberTaken(t) \/ PoolTimeout(t)
  BY <1>4 DEF NumberTaken, PoolTimeout, PoolExhausted, Duplicate, Fail, stockVars,
       SeriesTypeOK
<1>5. CASE StockCall(t)
  BY <1>5 DEF StockCall, Find, Write, seriesVars, StockTypeOK
<1>6. CASE LineFails(t) \/ Crash(t)
  BY <1>6 DEF LineFails, Crash, Refuse, UniqueViolation, BreakDeadlock, Abort, Rollback,
       Fail, stockVars, StockTypeOK, SeriesTypeOK
<1>7. CASE PostDoc(t)
  BY <1>7 DEF PostDoc, Commit, Post, StockTypeOK, SeriesTypeOK
<1> QED BY <1>1, <1>2, <1>3, <1>4, <1>5, <1>6, <1>7 DEF DocProgress

\* What the steps of the engine preserve beyond its own invariant; the other
\* conjuncts of SerialInv are those of StockInv and of the series.
StockSide ==
  /\ OwnKeys
  /\ FreshRead
  /\ UnbornEmpty
  /\ OneRowSeen
  /\ OneRowPerKey
  /\ PendingChain
  /\ BalanceChain

\* The start of the lines.
LEMMA SideBegin ==
  ASSUME SerialInv, NEW t \in Tx, Begin(t)
  PROVE  StockSide'
<1> USE DEF SerialInv, StockInv
<1>1. PICK s \in Script[t] : todo' = [todo EXCEPT ![t] = s]
  BY DEF Begin
<1>2. \A i \in DOMAIN s : s[i].key \in KeysOf(t)
  BY DEF KeysOf
<1>3. UNCHANGED <<live, qty, ledger, found, read, dirty, val, pend>>
  BY DEF Begin
<1>4. /\ \A u \in Tx \ {t} : todo'[u] = todo[u] /\ phase'[u] = phase[u]
      /\ todo'[t] = s /\ phase'[t] = "find"
  BY <1>1 DEF Begin, StockTypeOK
<1>5. OwnKeys'
  BY <1>2, <1>3, <1>4 DEF OwnKeys, InFlight, KeysOf
<1>6. FreshRead'
  BY <1>3, <1>4 DEF FreshRead, Fresh, Matches, Visible, ValueSeen
<1>7. UnbornEmpty' /\ OneRowSeen' /\ OneRowPerKey' /\ PendingChain' /\ BalanceChain'
  BY <1>3 DEF UnbornEmpty, OneRowSeen, OneRowPerKey, PendingChain, BalanceChain, Chained
<1> QED BY <1>5, <1>6, <1>7 DEF StockSide

\* A read that is fresh when it is made.
LEMMA SideFind ==
  ASSUME SerialInv, NEW t \in Tx, Find(t)
  PROVE  StockSide'
<1> USE DEF SerialInv, StockInv
<1>1. UNCHANGED <<live, qty, ledger, todo, dirty, val, pend>>
  BY DEF Find
<1>2. PICK r \in FindFirst(t, Head(todo[t]).key) :
        found' = [found EXCEPT ![t] = r] /\ read' = [read EXCEPT ![t] = Have(t, r)]
  BY DEF Find
<1>3. /\ found'[t] = r /\ read'[t] = Have(t, r) /\ phase'[t] = "write"
      /\ \A u \in Tx \ {t} : /\ found'[u] = found[u] /\ read'[u] = read[u]
                             /\ phase'[u] = phase[u]
  BY <1>2 DEF Find, StockTypeOK
<1>4. OwnKeys'
  BY <1>1, <1>3 DEF Find, OwnKeys, InFlight, KeysOf
<1>5. Fresh(t)'
  <2>1. CASE Matches(t, Head(todo[t]).key) = {}
    <3>1. r = NoRow
      BY <2>1 DEF FindFirst
    <3>2. \A x \in Row : KeyOf[x] = Head(todo[t]).key => ~Visible(t, x)
      BY <2>1 DEF Matches
    <3> QED BY <3>1, <3>2, <1>1, <1>3 DEF Fresh, Have, Visible
  <2>2. CASE Matches(t, Head(todo[t]).key) # {}
    <3>1. r \in Matches(t, Head(todo[t]).key) /\ r # NoRow
      BY <2>2, StockConstants DEF FindFirst, Matches
    <3> QED BY <3>1, <1>1, <1>3 DEF Fresh, Have, Matches, Visible, ValueSeen
  <2> QED BY <2>1, <2>2
<1>6. ASSUME NEW u \in Tx \ {t}, phase'[u] = "write" PROVE Fresh(u)'
  BY <1>1, <1>3, <1>6 DEF FreshRead, Fresh, Matches, Visible, ValueSeen
<1>7. UnbornEmpty' /\ OneRowSeen' /\ OneRowPerKey' /\ PendingChain' /\ BalanceChain'
  BY <1>1 DEF UnbornEmpty, OneRowSeen, OneRowPerKey, PendingChain, BalanceChain, Chained
<1> QED BY <1>4, <1>5, <1>6, <1>7 DEF StockSide, FreshRead

\* A rollback leaves nothing behind.
LEMMA SideRollback ==
  ASSUME SerialInv, NEW t \in Tx, Rollback(t)
  PROVE  StockSide'
<1> USE DEF SerialInv, StockInv
<1>1. UNCHANGED <<live, qty, ledger>>
  BY DEF Rollback, tableVars
<1>2. /\ phase'[t] = "aborted" /\ todo'[t] = <<>> /\ dirty'[t] = {} /\ pend'[t] = <<>>
      /\ \A u \in Tx \ {t} : /\ phase'[u] = phase[u] /\ todo'[u] = todo[u]
                             /\ found'[u] = found[u] /\ read'[u] = read[u]
                             /\ dirty'[u] = dirty[u] /\ val'[u] = val[u]
                             /\ pend'[u] = pend[u]
  BY DEF Rollback, StockTypeOK
<1>3. OwnKeys'
  BY <1>2 DEF OwnKeys, InFlight, KeysOf
<1>4. FreshRead'
  BY <1>1, <1>2 DEF FreshRead, Fresh, Matches, Visible, ValueSeen
<1>5. UnbornEmpty' /\ OneRowPerKey' /\ BalanceChain'
  BY <1>1 DEF UnbornEmpty, OneRowPerKey, BalanceChain, Chained
<1>6. OneRowSeen'
  BY <1>1, <1>2 DEF OneRowSeen
<1>7. PendingChain'
  <2>1. Chained(<<>>, qty)
    BY DEF Chained
  <2> QED BY <1>1, <1>2, <2>1 DEF PendingChain
<1> QED BY <1>3, <1>4, <1>5, <1>6, <1>7 DEF StockSide

\* A write continues the chain of its row, from a value that is still there.
LEMMA SideWrite ==
  ASSUME OneTypePerKey, SerialInv, NEW t \in Tx, Write(t)
  PROVE  StockSide'
<1> USE DEF SerialInv, StockInv
<1> DEFINE op == Head(todo[t])
           newQty == read[t] + Signed(op)
<1>1. PICK r \in Target(t) :
        /\ dirty' = [dirty EXCEPT ![t] = @ \cup {r}]
        /\ val' = [val EXCEPT ![t][r] = newQty]
        /\ pend' = [pend EXCEPT ![t] = Append(@, LedgerEntry(t, r, op, newQty))]
  BY DEF Write
<1>2. phase[t] = "write" /\ InFlight(t) /\ todo[t] # <<>> /\ todo[t] \in Seq(Op)
  BY DEF Write, PendingCall, StockTypeOK, InFlight
<1>3. op \in Op /\ Tail(todo[t]) \in Seq(Op) /\ Signed(op) \in Int /\ read[t] \in Int
  BY <1>2, OpFacts DEF StockTypeOK
<1>4. op.key \in KeysOf(t)
  BY <1>2 DEF OwnKeys
<1>5. Fresh(t)
  BY <1>2 DEF FreshRead
<1> HIDE DEF op
<1>6. UNCHANGED <<live, qty, ledger>>
  BY DEF Write, tableVars
<1>7. r \in Row /\ KeyOf[r] = op.key
  <2>1. CASE found[t] # NoRow
    BY <2>1, <1>1, <1>5 DEF Target, Fresh, Matches, op
  <2>2. CASE found[t] = NoRow
    BY <2>2, <1>1 DEF Target, op
  <2> QED BY <2>1, <2>2
<1>8. \/ found[t] = r /\ Visible(t, r) /\ read[t] = ValueSeen(t, r)
      \/ /\ found[t] = NoRow /\ read[t] = 0 /\ r \notin live /\ r \notin dirty[t]
         /\ \A x \in Row : KeyOf[x] = op.key => ~Visible(t, x)
  <2>1. CASE found[t] # NoRow
    BY <2>1, <1>1, <1>5 DEF Target, Fresh, Matches
  <2>2. CASE found[t] = NoRow
    BY <2>2, <1>1, <1>5 DEF Target, Fresh, op
  <2> QED BY <2>1, <2>2
<1>9. /\ dirty'[t] = dirty[t] \cup {r}
      /\ pend'[t] = Append(pend[t], LedgerEntry(t, r, op, newQty))
      /\ \A u \in Tx \ {t} : /\ dirty'[u] = dirty[u] /\ val'[u] = val[u]
                             /\ pend'[u] = pend[u]
  BY <1>1 DEF StockTypeOK
<1>10. /\ todo'[t] = Tail(todo[t]) /\ phase'[t] = "find"
       /\ \A u \in Tx \ {t} : /\ todo'[u] = todo[u] /\ phase'[u] = phase[u]
                              /\ found'[u] = found[u] /\ read'[u] = read[u]
  BY DEF Write, StockTypeOK
<1>11. OwnKeys'
  <2>1. \A i \in DOMAIN Tail(todo[t]) : Tail(todo[t])[i].key \in KeysOf(t)
    <3>1. ASSUME NEW i \in DOMAIN Tail(todo[t])
          PROVE  i + 1 \in DOMAIN todo[t] /\ Tail(todo[t])[i] = todo[t][i + 1]
      BY <1>2
    <3> QED BY <3>1 DEF OwnKeys
  <2>2. ASSUME NEW x \in dirty'[t] PROVE KeyOf[x] \in KeysOf(t)
    BY <1>4, <1>7, <1>9 DEF OwnKeys
  <2>3. \A u \in Tx : KeysOf(u)' = KeysOf(u)
    BY DEF KeysOf
  <2>4. /\ \A i \in DOMAIN todo'[t] : todo'[t][i].key \in KeysOf(t)
        /\ \A x \in dirty'[t] : KeyOf[x] \in KeysOf(t)
        /\ InFlight(t)'
    BY <2>1, <2>2, <1>10 DEF InFlight
  <2>5. ASSUME NEW u \in Tx \ {t}
        PROVE  /\ \A i \in DOMAIN todo'[u] : todo'[u][i].key \in KeysOf(u)
               /\ \A x \in dirty'[u] : KeyOf[x] \in KeysOf(u)
               /\ ~InFlight(u)' => dirty'[u] = {} /\ pend'[u] = <<>>
    BY <1>9, <1>10 DEF OwnKeys, InFlight
  <2> QED BY <2>3, <2>4, <2>5 DEF OwnKeys
<1>12. FreshRead'
  BY <1>6, <1>9, <1>10 DEF FreshRead, Fresh, Matches, Visible, ValueSeen
<1>13. UnbornEmpty' /\ OneRowPerKey' /\ BalanceChain'
  BY <1>6 DEF UnbornEmpty, OneRowPerKey, BalanceChain, Chained
<1>14. OneRowSeen'
  <2>1. ASSUME NEW x \in live \cup dirty[t], KeyOf[x] = KeyOf[r] PROVE x = r
    <3>1. CASE Visible(t, r)
      BY <3>1, <2>1 DEF Visible, OneRowSeen
    <3>2. CASE ~Visible(t, r)
      BY <3>2, <2>1, <1>7, <1>8 DEF Visible, StockTypeOK
    <3> QED BY <3>1, <3>2
  <2> QED BY <2>1, <1>6, <1>9 DEF OneRowSeen
<1>15. PendingChain'
  <2> DEFINE e == LedgerEntry(t, r, op, newQty)
  <2>1. e \in Entry /\ e.row = r /\ e.qty = Signed(op) /\ e.balanceAfter = newQty
    BY <1>3, <1>7 DEF LedgerEntry, Entry
  <2>2. EndsAt(pend[t], r, qty[r], read[t])
    <3>1. CASE r \in dirty[t]
      BY <3>1, <1>8 DEF ValueSeen, PendingEntries
    <3>2. CASE r \notin dirty[t]
      <4>1. read[t] = qty[r]
        BY <3>2, <1>7, <1>8 DEF ValueSeen, UnbornEmpty
      <4> QED BY <3>2, <4>1 DEF PendingEntries, EndsAt
    <3> QED BY <3>1, <3>2
  <2> HIDE DEF e
  <2>3. pend[t] \in Seq(Entry) /\ Chained(pend[t], qty)
    BY DEF StockTypeOK, PendingChain
  <2>4. e.balanceAfter = read[t] + e.qty
    BY <2>1
  <2>5. Chained(Append(pend[t], e), qty)
    BY <2>1, <2>2, <2>3, <2>4, AppendChain
  <2>6. pend'[t] = Append(pend[t], e)
    BY <1>9 DEF e
  <2> QED BY <2>5, <2>6, <1>6, <1>9 DEF PendingChain
<1> QED BY <1>11, <1>12, <1>13, <1>14, <1>15 DEF StockSide

\* A commit joins its entries to the ledger's, row by row.
LEMMA SideCommit ==
  ASSUME OneTypePerKey, SerialInv, NEW t \in Tx, Commit(t)
  PROVE  StockSide'
<1> USE DEF SerialInv, StockInv
<1>1. /\ live' = live \cup dirty[t]
      /\ \A r \in dirty[t] : qty'[r] = val[t][r]
      /\ \A r \in Row \ dirty[t] : qty'[r] = qty[r]
      /\ ledger' = ledger \o pend[t]
      /\ UNCHANGED <<todo, found, read>>
  BY DEF Commit, StockTypeOK
<1>2. /\ phase'[t] = "committed" /\ dirty'[t] = {} /\ pend'[t] = <<>>
      /\ \A u \in Tx \ {t} : /\ phase'[u] = phase[u] /\ dirty'[u] = dirty[u]
                             /\ val'[u] = val[u] /\ pend'[u] = pend[u]
  BY DEF Commit, StockTypeOK
<1>3. InFlight(t) /\ todo[t] = <<>>
  BY DEF Commit, InFlight
<1>4. OwnKeys'
  BY <1>1, <1>2 DEF OwnKeys, InFlight, KeysOf
<1>5. UnbornEmpty'
  BY <1>1 DEF UnbornEmpty
<1>6. FreshRead'
  <2>1. ASSUME NEW u \in Tx \ {t}, phase[u] = "write" PROVE Fresh(u)'
    <3>1. InFlight(u) /\ Fresh(u) /\ todo[u] # <<>> /\ todo[u] \in Seq(Op)
      BY <2>1 DEF InFlight, FreshRead, PendingCall, StockTypeOK
    <3>2. Head(todo[u]).key \in KeysOf(u)
      BY <3>1 DEF OwnKeys
    <3>3. \A r \in dirty[t] : KeyOf[r] # Head(todo[u]).key
      BY <3>1, <3>2, OthersRows
    <3>4. \A r \in Row : KeyOf[r] = Head(todo[u]).key =>
             /\ Visible(u, r)' <=> Visible(u, r)
             /\ ValueSeen(u, r)' = ValueSeen(u, r)
      BY <1>1, <1>2, <3>3 DEF Visible, ValueSeen
    <3>5. \A k : k = Head(todo[u]).key => Matches(u, k)' = Matches(u, k)
      BY <3>4 DEF Matches
    <3>6. \A r \in Matches(u, Head(todo[u]).key) :
             r \in Row /\ KeyOf[r] = Head(todo[u]).key
      BY DEF Matches
    <3> QED BY <1>1, <3>1, <3>4, <3>5, <3>6 DEF Fresh
  <2> QED BY <2>1, <1>2 DEF FreshRead
<1>7. OneRowSeen' /\ OneRowPerKey'
  <2>1. ASSUME NEW u \in Tx \ {t}, NEW r \in live \cup dirty[t], NEW s \in dirty[u],
               KeyOf[r] = KeyOf[s]
        PROVE  r = s
    <3>1. InFlight(u) /\ KeyOf[s] \in KeysOf(u)
      BY DEF OwnKeys
    <3>2. r \notin dirty[t]
      BY <3>1, <2>1, OthersRows
    <3> QED BY <3>2, <2>1 DEF OneRowSeen
  <2>2. \A r, s \in live \cup dirty[t] : KeyOf[r] = KeyOf[s] => r = s
    BY DEF OneRowSeen
  <2>3. ASSUME NEW u \in Tx \ {t}, NEW r \in dirty[u], NEW s \in dirty[u],
               KeyOf[r] = KeyOf[s]
        PROVE  r = s
    BY <2>3 DEF OneRowSeen
  <2> QED BY <2>1, <2>2, <2>3, <1>1, <1>2 DEF OneRowSeen, OneRowPerKey
<1>8. PendingChain'
  <2>1. ASSUME NEW u \in Tx \ {t} PROVE Chained(pend[u], qty')
    <3>1. \A i \in DOMAIN pend[u] : qty'[pend[u][i].row] = qty[pend[u][i].row]
      BY <1>1 DEF PendingEntries, RowLocks, StockTypeOK
    <3> QED BY <3>1 DEF PendingChain, Chained
  <2>2. Chained(<<>>, qty')
    BY DEF Chained
  <2> QED BY <2>1, <2>2, <1>2 DEF PendingChain
<1>9. BalanceChain'
  <2>1. ledger \in Seq(Entry) /\ pend[t] \in Seq(Entry)
    BY DEF StockTypeOK
  <2>2. Chained(ledger, Opening) /\ Chained(pend[t], qty)
    BY DEF BalanceChain, PendingChain
  <2>3. \A i \in DOMAIN pend[t] : pend[t][i].row \in Row
    BY DEF PendingEntries, StockTypeOK
  <2>4. \A i \in DOMAIN pend[t] :
          EndsAt(ledger, pend[t][i].row, Opening[pend[t][i].row], qty[pend[t][i].row])
    BY <2>3 DEF RowIsLastBalance
  <2>5. Chained(ledger \o pend[t], Opening)
    BY <2>1, <2>2, <2>4, ConcatChain
  <2> QED BY <2>5, <1>1 DEF BalanceChain
<1> QED BY <1>4, <1>5, <1>6, <1>7, <1>8, <1>9 DEF StockSide

----------------------------------------------------------------------------
(* The theorem. *)

\* The invariant starts, given one row per key in the opening stock.
LEMMA SerialInit ==
  ASSUME OneOpeningRow, DocInit
  PROVE  SerialInv
<1>1. StockInv
  BY InvInit DEF DocInit
<1>2. OneAtATime
  BY SeriesInit1 DEF DocInit, SeriesInv
<1>3. EngineAtWork
  BY DEF DocInit, StockInit, SeriesInit, EngineAtWork, InFlight
<1>4. OwnKeys /\ FreshRead /\ PendingChain /\ BalanceChain
  BY DEF DocInit, StockInit, OwnKeys, FreshRead, PendingChain, BalanceChain, Chained,
       InFlight
<1>5. UnbornEmpty /\ OneRowSeen /\ OneRowPerKey
  BY StockConstants DEF DocInit, StockInit, UnbornEmpty, OneRowSeen, OneRowPerKey,
       OneOpeningRow
<1> QED BY <1>1, <1>2, <1>3, <1>4, <1>5 DEF SerialInv

\* Every step keeps it.
LEMMA SerialStep ==
  ASSUME OneTypePerKey, SerialInv, SeriesInv, [DocNext]_docVars
  PROVE  SerialInv'
<1>1. StockInv'
  <2>1. [StockNext]_stockVars
    BY DocStepIsStockStep DEF StockNext
  <2> QED BY <2>1, InvStep DEF SerialInv
<1>2. OneAtATime'
  BY SeriesStep DEF SeriesInv
<1>3. EngineAtWork'
  <2>1. CASE UNCHANGED docVars
    BY <2>1 DEF docVars, SerialInv, EngineAtWork, InFlight
  <2>2. CASE DocNext
    BY <2>2, EngineAtWorkStep DEF SerialInv, StockInv, SeriesInv
  <2> QED BY <2>1, <2>2
<1>4. StockSide'
  <2>1. CASE UNCHANGED stockVars
    BY <2>1 DEF stockVars, SerialInv, StockSide, OwnKeys, InFlight, KeysOf, FreshRead,
         Fresh, Matches, Visible, ValueSeen, UnbornEmpty, OneRowSeen, OneRowPerKey,
         PendingChain, BalanceChain, Chained
  <2>2. ASSUME NEW t \in Tx, Begin(t) \/ Progress(t) \/ Abort(t) PROVE StockSide'
    <3>1. \/ Begin(t) \/ Find(t) \/ Write(t) \/ Commit(t) \/ Rollback(t)
      BY <2>2 DEF Progress, Refuse, UniqueViolation, BreakDeadlock, Abort
    <3> QED BY <3>1, SideBegin, SideFind, SideWrite, SideCommit, SideRollback
  <2> QED BY <2>1, <2>2, DocStepIsStockStep
<1> QED BY <1>1, <1>2, <1>3, <1>4 DEF SerialInv, StockSide

\* Documents that share stock only with documents of their own type lose no
\* update: the ledger is an unbroken chain of balances on every row.
THEOREM NoLostUpdate ==
  ASSUME OneTypePerKey, OneOpeningRow
  PROVE  DocSpec => []BalanceChain
<1>1. DocInit => SerialInv
  BY SerialInit
<1>2. SerialInv /\ SeriesInv /\ [DocNext]_docVars => SerialInv'
  BY SerialStep
<1>3. SerialInv => BalanceChain
  BY DEF SerialInv
<1> QED BY <1>1, <1>2, <1>3, SeriesInvariance, PTL DEF DocSpec

\* Nor do they ever split a key into two rows, whether or not the unique index
\* covers it.
THEOREM SingleRows ==
  ASSUME OneTypePerKey, OneOpeningRow
  PROVE  DocSpec => []OneRowPerKey
<1>1. DocInit => SerialInv
  BY SerialInit
<1>2. SerialInv /\ SeriesInv /\ [DocNext]_docVars => SerialInv'
  BY SerialStep
<1>3. SerialInv => OneRowPerKey
  BY DEF SerialInv
<1> QED BY <1>1, <1>2, <1>3, SeriesInvariance, PTL DEF DocSpec

----------------------------------------------------------------------------
(* A number that turns out to be taken was taken by a rival, or lies beyond *)
(* what maxSeq reads.                                                       *)

\* Numbers start at 1, and are for documents with a series.
Numbered ==
  /\ \A d \in DocType : 0 \notin numbers[d]
  /\ \A t \in Tx : step[t] \in {"counted", "scanned"} => DocOf[t] \in DocType

RivalInv ==
  /\ StockInv
  /\ SeriesInv
  /\ EngineAtWork
  /\ Finitely
  /\ Numbered
  /\ TakenByRival

\* What has been posted stays posted.
LEMMA PostedStays ==
  ASSUME SeriesTypeOK, EngineAtWork, [DocNext]_docVars, NEW u \in Tx, step[u] = "posted"
  PROVE  step'[u] = "posted"
<1> USE DEF SeriesTypeOK
<1>1. CASE UNCHANGED docVars
  BY <1>1 DEF docVars
<1>2. ASSUME NEW t \in Tx, OpenTransaction(t) \/ DocProgress(t) \/ Crash(t)
      PROVE  step'[u] = "posted"
  <2> USE DEF EngineAtWork, InFlight
  <2>1. CASE OpenTransaction(t) \/ TakeNumber(t) \/ InsertHeader(t) \/ StockCall(t) \/ PostDoc(t)
    BY <2>1 DEF OpenTransaction, TakeNumber, InsertHeader, StockCall, PostDoc, Open, Scan,
         Insert, SkipNumber, Post, seriesVars
  <2>2. CASE NumberTaken(t) \/ PoolTimeout(t)
    BY <2>2 DEF NumberTaken, PoolTimeout, PoolExhausted, Duplicate, Fail
  <2>3. CASE LineFails(t) \/ Crash(t)
    <3>1. BreakDeadlock(t) => phase[t] = "write"
      BY DEF BreakDeadlock, Deadlocked, Blockers
    <3>2. step[t] # "posted"
      BY <2>3, <3>1 DEF LineFails, Crash, Refuse, UniqueViolation, Abort
    <3> QED BY <2>3, <3>2 DEF LineFails, Crash, Fail
  <2> QED BY <1>2, <2>1, <2>2, <2>3 DEF DocProgress
<1> QED BY <1>1, <1>2 DEF DocNext

\* A step that takes no number and commits none changes neither who holds which
\* number nor which are taken.
LEMMA RivalKept ==
  ASSUME TakenByRival, [DocNext]_docVars, SeriesTypeOK, EngineAtWork,
         number' = number, numbers' = numbers,
         \A t \in Tx : step'[t] \in {"counted", "scanned"} => step[t] \in {"counted", "scanned"}
  PROVE  TakenByRival'
<1> SUFFICES ASSUME NEW t \in Tx, step'[t] \in {"counted", "scanned"},
                    number[t] \in numbers[DocOf[t]], ~(number[t] > ScanLimit)
             PROVE  \E u \in Tx \ {t} : /\ step'[u] = "posted"
                                        /\ DocOf[u] = DocOf[t]
                                        /\ number[u] = number[t]
  BY DEF TakenByRival
<1>1. PICK u \in Tx \ {t} : /\ step[u] = "posted"
                            /\ DocOf[u] = DocOf[t]
                            /\ number[u] = number[t]
  BY DEF TakenByRival
<1> QED BY <1>1, PostedStays

\* Computing a number: it is new, or beyond what was read.
LEMMA RivalScan ==
  ASSUME RivalInv, [DocNext]_docVars, NEW t \in Tx, Scan(t)
  PROVE  TakenByRival'
<1> USE DEF RivalInv, SeriesInv
<1>1. PICK m \in MaxSeq(DocOf[t]) : number' = [number EXCEPT ![t] = m + 1]
  BY DEF Scan
<1>2. DocOf[t] \in DocType /\ numbers' = numbers
  BY SeriesConstants DEF Scan
<1>3. numbers[DocOf[t]] \in SUBSET (Nat \ {0}) /\ IsFiniteSet(numbers[DocOf[t]])
  BY <1>2 DEF SeriesTypeOK, Finitely, Numbered
<1>4. number'[t] = m + 1
  BY <1>1 DEF SeriesTypeOK
<1>5. number'[t] \in numbers'[DocOf[t]] => number'[t] > ScanLimit
  <2>1. m \in Nat /\ ScanLimit \in Nat
    BY <1>3, MaxSeqFacts, SeriesConstants
  <2>2. m + 1 \in numbers[DocOf[t]] => m >= ScanLimit
    BY <1>3, ScanFinds
  <2> QED BY <1>2, <1>4, <2>1, <2>2
<1>6. ASSUME NEW v \in Tx \ {t}, step'[v] \in {"counted", "scanned"},
             number'[v] \in numbers'[DocOf[v]]
      PROVE  \/ \E u \in Tx \ {v} : /\ step'[u] = "posted"
                                    /\ DocOf[u] = DocOf[v]
                                    /\ number'[u] = number'[v]
             \/ number'[v] > ScanLimit
  <2>1. step'[v] = step[v] /\ number'[v] = number[v]
    BY <1>1 DEF Scan, SeriesTypeOK
  <2>2. CASE number[v] > ScanLimit
    BY <2>1, <2>2
  <2>3. CASE ~(number[v] > ScanLimit)
    <3>1. PICK u \in Tx \ {v} : /\ step[u] = "posted"
                                /\ DocOf[u] = DocOf[v]
                                /\ number[u] = number[v]
      BY <1>2, <1>6, <2>1, <2>3 DEF TakenByRival
    <3>2. u # t
      BY <3>1 DEF Scan
    <3>3. number'[u] = number[u]
      BY <1>1, <3>2 DEF SeriesTypeOK
    <3> QED BY <2>1, <3>1, <3>3, PostedStays
  <2> QED BY <2>2, <2>3
<1> QED BY <1>5, <1>6 DEF TakenByRival

\* Posting: whoever holds the number now has a rival.
LEMMA RivalPost ==
  ASSUME RivalInv, [DocNext]_docVars, NEW t \in Tx, Post(t)
  PROVE  TakenByRival'
<1> USE DEF RivalInv, SeriesInv
<1>1. number' = number /\ step'[t] = "posted"
  BY DEF Post, SeriesTypeOK
<1>2. ASSUME NEW v \in Tx, step'[v] \in {"counted", "scanned"},
             number[v] \in numbers'[DocOf[v]]
      PROVE  \/ \E u \in Tx \ {v} : /\ step'[u] = "posted"
                                    /\ DocOf[u] = DocOf[v]
                                    /\ number[u] = number[v]
             \/ number[v] > ScanLimit
  <2>1. v # t /\ step'[v] = step[v]
    BY <1>1, <1>2 DEF Post, SeriesTypeOK
  <2>2. CASE number[v] \in numbers[DocOf[v]]
    <3>1. CASE number[v] > ScanLimit
      BY <3>1
    <3>2. CASE ~(number[v] > ScanLimit)
      <4>1. PICK u \in Tx \ {v} : /\ step[u] = "posted"
                                  /\ DocOf[u] = DocOf[v]
                                  /\ number[u] = number[v]
        BY <1>2, <2>1, <2>2, <3>2 DEF TakenByRival
      <4> QED BY <4>1, PostedStays
    <3> QED BY <3>1, <3>2
  <2>3. CASE number[v] \notin numbers[DocOf[v]]
    <3>1. DocOf[v] \in DocType
      BY <1>2, <2>1 DEF Numbered
    <3> QED BY <1>1, <1>2, <2>1, <2>3, <3>1 DEF Post
  <2> QED BY <2>2, <2>3
<1> QED BY <1>1, <1>2 DEF TakenByRival

LEMMA NumberedStep ==
  ASSUME RivalInv, [DocNext]_docVars
  PROVE  Numbered'
<1> USE DEF RivalInv, SeriesInv
<1>1. CASE UNCHANGED seriesVars
  BY <1>1 DEF seriesVars, Numbered
<1>2. ASSUME NEW t \in Tx, Open(t) \/ Insert(t) \/ SkipNumber(t) \/ Fail(t) PROVE Numbered'
  BY <1>2 DEF Numbered, Open, Insert, SkipNumber, Fail, SeriesTypeOK
<1>3. ASSUME NEW t \in Tx, Scan(t) PROVE Numbered'
  BY <1>3, SeriesConstants DEF Numbered, Scan, SeriesTypeOK
<1>4. ASSUME NEW t \in Tx, Post(t) PROVE Numbered'
  <2>1. ASSUME NEW d \in DocType, 0 \in numbers'[d] PROVE FALSE
    <3>1. d = DocOf[t] /\ number[t] = 0
      BY <1>4, <2>1 DEF Post, Numbered
    <3>2. d # NoDoc
      BY SeriesConstants
    <3> QED BY <1>4, <3>1, <3>2 DEF FollowsOn, Post
  <2>2. ASSUME NEW u \in Tx, step'[u] \in {"counted", "scanned"} PROVE DocOf[u] \in DocType
    BY <1>4, <2>2 DEF Numbered, Post, SeriesTypeOK
  <2> QED BY <2>1, <2>2 DEF Numbered
<1> QED BY <1>1, <1>2, <1>3, <1>4, SeriesSteps

LEMMA RivalStep == RivalInv /\ [DocNext]_docVars => RivalInv'
<1> SUFFICES ASSUME RivalInv, [DocNext]_docVars PROVE RivalInv'
  OBVIOUS
<1>1. StockInv'
  <2>1. [StockNext]_stockVars
    BY DocStepIsStockStep DEF StockNext
  <2> QED BY <2>1, InvStep DEF RivalInv
<1>2. SeriesInv' /\ Finitely' /\ Numbered'
  BY SeriesStep, FinitelyNext, NumberedStep DEF RivalInv
<1>3. EngineAtWork'
  <2>1. CASE UNCHANGED docVars
    BY <2>1 DEF docVars, RivalInv, EngineAtWork, InFlight
  <2>2. CASE DocNext
    BY <2>2, EngineAtWorkStep DEF RivalInv, StockInv, SeriesInv
  <2> QED BY <2>1, <2>2
<1>4. TakenByRival'
  <2>1. CASE UNCHANGED seriesVars
    BY <2>1, RivalKept DEF seriesVars, RivalInv, SeriesInv
  <2>2. ASSUME NEW t \in Tx, Open(t) \/ Insert(t) \/ SkipNumber(t) \/ Fail(t)
        PROVE  TakenByRival'
    <3>1. number' = number /\ numbers' = numbers
      BY <2>2 DEF Open, Insert, SkipNumber, Fail
    <3>2. \A u \in Tx : step'[u] \in {"counted", "scanned"} => step[u] \in {"counted", "scanned"}
      BY <2>2 DEF Open, Insert, SkipNumber, Fail, RivalInv, SeriesInv, SeriesTypeOK
    <3> QED BY <3>1, <3>2, RivalKept DEF RivalInv, SeriesInv
  <2> QED BY <2>1, <2>2, RivalScan, RivalPost, SeriesSteps
<1> QED BY <1>1, <1>2, <1>3, <1>4 DEF RivalInv

\* Up to the number that maxSeq reads, a document that finds its number taken
\* lost it to a handler that computed the same one and posted since; from
\* ScanLimit + 1 on, the number may have been in use already
\* (document-series.service.ts:125-140).
THEOREM LostToRival == DocSpec => []TakenByRival
<1>1. DocInit => RivalInv
  <2>1. DocInit => StockInv /\ SeriesInv
    BY InvInit, SeriesInit1 DEF DocInit
  <2>2. DocInit => EngineAtWork /\ TakenByRival
    BY DEF DocInit, StockInit, SeriesInit, EngineAtWork, InFlight, TakenByRival
  <2>3. DocInit => Finitely /\ Numbered
    BY SeriesConstants, FS_Interval DEF DocInit, SeriesInit, Finitely, Numbered
  <2> QED BY <2>1, <2>2, <2>3 DEF RivalInv
<1>2. RivalInv => TakenByRival
  BY DEF RivalInv
<1> QED BY <1>1, <1>2, RivalStep, PTL DEF DocSpec

----------------------------------------------------------------------------
(* The serial ledger.  While a document works, the stock of its keys is    *)
(* what its calls so far make of what is committed of them, and nobody     *)
(* else commits any of that; so its commit is the one step of a posting.   *)

Stock == [k \in Key |-> StockOf(k)]

\* g is the stock after each of the first n calls of s, which it covers.
Follows(g, s, n) ==
  /\ g \in [0..n -> [Key -> Int]]
  /\ \A i \in 1..n : /\ g[i] = [g[i - 1] EXCEPT ![s[i].key] = @ + Signed(s[i])]
                     /\ s[i].kind = "deduct" => g[i - 1][s[i].key] >= s[i].qty

\* What the ledger says of a posting is such a run of its calls.
LEMMA AfterCalls ==
  ASSUME NEW s \in Seq(Op), NEW n \in Nat, n <= Len(s),
         NEW h, Follows(h, s, n), h[0] = Stock, NEW j \in 0..n
  PROVE  Serial!After(s, j) = h[j]
<1> DEFINE Rec(f) == [i \in 0..j |->
                        IF i = 0 THEN Stock
                        ELSE [f[i - 1] EXCEPT ![s[i].key] =
                                @ + (IF s[i].kind = "add" THEN s[i].qty ELSE -s[i].qty)]]
           f == CHOOSE e : e = Rec(e)
           e == [i \in 0..j |-> h[i]]
<1>1. Serial!After(s, j) = f[j]
  BY DEF Serial!After, Stock
<1>2. e = Rec(e)
  <2>1. \A i \in 0..j : i # 0 => i \in 1..n /\ i - 1 \in 0..j
    OBVIOUS
  <2> QED BY <2>1 DEF Follows, Signed
<1>3. f = Rec(f)
  <2> HIDE DEF Rec, e
  <2> QED BY <1>2
<1>4. 0..j \subseteq {i \in 0..j : f[i] = h[i]}
  <2> DEFINE G == {i \in 0..j : f[i] = h[i]}
  <2> HIDE DEF f
  <2>1. 0 \in G
    BY <1>3
  <2>2. ASSUME NEW i \in 0..j, i \in G, i < j PROVE i + 1 \in G
    <3>1. i + 1 \in 0..j /\ i + 1 # 0 /\ i + 1 \in 1..n /\ (i + 1) - 1 = i /\ f[i] = h[i]
      BY <2>2
    <3>2. f[i + 1] = Rec(f)[i + 1]
      <4> HIDE DEF Rec
      <4> QED BY <1>3
    <3>3. f[i + 1] = [f[i] EXCEPT ![s[i + 1].key] = @ + Signed(s[i + 1])]
      BY <3>1, <3>2 DEF Signed
    <3>4. h[i + 1] = [h[i] EXCEPT ![s[i + 1].key] = @ + Signed(s[i + 1])]
      BY <3>1 DEF Follows
    <3> QED BY <3>1, <3>3, <3>4
  <2> HIDE DEF G
  <2>3. 0..j \subseteq G
    BY <2>1, <2>2, CountInduction
  <2> QED BY <2>3 DEF G
<1> QED BY <1>1, <1>4

\* The sum over a set of one row at most.
LEMMA SumOfRow ==
  ASSUME NEW S, NEW f, \A r \in S : f[r] \in Int, \A r, s \in S : r = s
  PROVE  /\ S = {} => SumOver(f, S) = 0
         /\ \A r \in S : SumOver(f, S) = f[r]
<1>1. S = {} => SumOver(f, S) = 0
  BY SumEmpty
<1>2. ASSUME NEW r \in S PROVE SumOver(f, S) = f[r]
  <2>1. S = {} \cup {r} /\ f[r] \in Int
    OBVIOUS
  <2>2. SumOver(f, {} \cup {r}) = f[r] + SumOver(f, {})
    BY <2>1, SumAdd, FS_EmptySet
  <2>3. SumOver(f, {}) = 0
    BY SumEmpty
  <2> QED BY <2>1, <2>2, <2>3
<1> QED BY <1>1, <1>2

\* Where a key has one row, the stock of the key is the quantity of that.
LEMMA StockOfRow ==
  ASSUME OneRowPerKey, live \subseteq Row, qty \in [Row -> Int], NEW k
  PROVE  /\ (\A r \in live : KeyOf[r] # k) => StockOf(k) = 0
         /\ \A r \in live : KeyOf[r] = k => StockOf(k) = qty[r]
         /\ StockOf(k) \in Int
<1> DEFINE S == {r \in live : KeyOf[r] = k}
<1>1. /\ StockOf(k) = SumOver(qty, S)
      /\ \A r \in S : qty[r] \in Int
      /\ \A r, s \in S : r = s
      /\ (\A r \in live : KeyOf[r] # k) => S = {}
      /\ \A r \in live : KeyOf[r] = k => r \in S
      /\ \A r \in S : r \in live /\ KeyOf[r] = k
  BY DEF StockOf, OneRowPerKey
<1> HIDE DEF S
<1>2. (S = {} => SumOver(qty, S) = 0) /\ \A r \in S : SumOver(qty, S) = qty[r]
  BY <1>1, SumOfRow
<1> QED BY <1>1, <1>2

\* v is the quantity t sees of key k.
Sees(t, k, v) ==
  /\ \A r \in Row : KeyOf[r] = k /\ Visible(t, r) => v = ValueSeen(t, r)
  /\ (\A r \in Row : KeyOf[r] = k => ~Visible(t, r)) => v = 0

\* t has made the first n calls of s, and sees what they make of the stock.
HasMade(t, s, n, g) ==
  /\ n \in 0..Len(s) /\ Follows(g, s, n)
  /\ Len(todo[t]) = Len(s) - n /\ \A i \in 1..(Len(s) - n) : todo[t][i] = s[n + i]
  /\ \A k \in KeysOf(t) : g[0][k] = StockOf(k) /\ Sees(t, k, g[n][k])

AtWork(t) == \E s \in Script[t] : \E n, g : HasMade(t, s, n, g)

LedgerInv == \A t \in Tx : InFlight(t) => AtWork(t)

\* The calls t may make are of its keys.
LEMMA ScriptKeys ==
  ASSUME NEW t \in Tx, NEW s \in Script[t]
  PROVE  /\ s \in Seq(Op) /\ Len(s) \in Nat
         /\ \A i \in 1..Len(s) : s[i] \in Op /\ s[i].key \in KeysOf(t) \cap Key
<1>1. s \in Seq(Op)
  BY StockConstants
<1>2. \A i \in 1..Len(s) : s[i] \in Op
  BY <1>1
<1>3. \A i \in 1..Len(s) : s[i].key \in KeysOf(t)
  BY <1>1 DEF KeysOf
<1> QED BY <1>1, <1>2, <1>3 DEF Op

\* Where nothing changes that t sees or has to do, t is where it was.
LEMMA WorkKept ==
  ASSUME NEW t \in Tx, AtWork(t), todo'[t] = todo[t],
         \A k \in KeysOf(t) :
           /\ StockOf(k)' = StockOf(k)
           /\ \A r \in Row : KeyOf[r] = k => /\ Visible(t, r)' <=> Visible(t, r)
                                             /\ ValueSeen(t, r)' = ValueSeen(t, r)
  PROVE  AtWork(t)'
<1>0. PICK s \in Script[t] : \E n, g : HasMade(t, s, n, g)
  BY DEF AtWork
<1>1. PICK n, g : HasMade(t, s, n, g)
  BY <1>0
<1>2. ASSUME NEW k \in KeysOf(t), NEW v, Sees(t, k, v) PROVE Sees(t, k, v)'
  BY <1>2 DEF Sees
<1>3. \A k \in KeysOf(t) : g[0][k] = StockOf(k)' /\ Sees(t, k, g[n][k])'
  BY <1>1, <1>2 DEF HasMade
<1>4. HasMade(t, s, n, g)'
  BY <1>1, <1>3 DEF HasMade, Follows, KeysOf
<1> QED BY <1>4 DEF AtWork

LEMMA StockSame ==
  ASSUME live' = live, qty' = qty, NEW k PROVE StockOf(k)' = StockOf(k)
BY DEF StockOf

\* Before its first call t sees what is committed.
LEMMA BeginWork ==
  ASSUME SerialInv, NEW t \in Tx, Begin(t)
  PROVE  AtWork(t)'
<1> USE DEF SerialInv, StockInv
<1>1. PICK s \in Script[t] : todo' = [todo EXCEPT ![t] = s]
  BY DEF Begin
<1>2. todo'[t] = s /\ Len(s) \in Nat /\ UNCHANGED <<live, qty, dirty, val>> /\ dirty[t] = {}
  BY <1>1, ScriptKeys DEF Begin, StockTypeOK, OwnKeys, InFlight
<1>3. OneRowPerKey /\ live \subseteq Row /\ qty \in [Row -> Int]
  BY DEF StockTypeOK
<1>4. Stock \in [Key -> Int] /\ \A k \in Key : Stock[k] = StockOf(k)
  BY <1>3, StockOfRow DEF Stock
<1>5. PICK g : Follows(g, s, 0) /\ g[0] = Stock
  <2> DEFINE e == [i \in 0..0 |-> Stock]
  <2>1. Follows(e, s, 0) /\ e[0] = Stock
    BY <1>4 DEF Follows
  <2> QED BY <2>1
<1>6. ASSUME NEW k \in KeysOf(t) PROVE g[0][k] = StockOf(k)' /\ Sees(t, k, g[0][k])'
  <2>1. k \in Key
    <3>1. PICK x \in Script[t] : \E i \in DOMAIN x : k = x[i].key
      BY DEF KeysOf
    <3> QED BY <3>1, ScriptKeys
  <2>2. PICK v : v = g[0][k]
    OBVIOUS
  <2>3. StockOf(k) = v
    BY <2>1, <2>2, <1>4, <1>5
  <2>4. /\ \A r \in live : KeyOf[r] = k => v = qty[r]
        /\ (\A r \in live : KeyOf[r] # k) => v = 0
    BY <1>3, <2>3, StockOfRow
  <2>5. Sees(t, k, v)'
    BY <1>2, <1>3, <2>4 DEF Sees, Visible, ValueSeen
  <2>6. StockOf(k)' = v
    BY <1>2, <2>3, StockSame
  <2> QED BY <2>2, <2>5, <2>6
<1>7. Follows(g, s, 0)'
  BY <1>5 DEF Follows
<1>8. HasMade(t, s, 0, g)'
  BY <1>2, <1>6, <1>7 DEF HasMade, KeysOf
<1> QED BY <1>8 DEF AtWork

\* A call that was found and written is one call more.
LEMMA WriteWork ==
  ASSUME SerialInv, NEW t \in Tx, Write(t), AtWork(t), OneRowSeen'
  PROVE  AtWork(t)'
<1> USE DEF SerialInv, StockInv
<1> DEFINE op == Head(todo[t])
           q == read[t] + Signed(op)
<1>1. PICK r \in Target(t) : /\ dirty' = [dirty EXCEPT ![t] = @ \cup {r}]
                            /\ val' = [val EXCEPT ![t][r] = q]
  BY DEF Write
<1>2. phase[t] = "write" /\ todo[t] # <<>> /\ todo[t] \in Seq(Op) /\ InFlight(t)
  BY DEF Write, PendingCall, StockTypeOK, InFlight
<1>3. op \in Op /\ Tail(todo[t]) \in Seq(Op) /\ Signed(op) \in Int /\ read[t] \in Int
  BY <1>2, OpFacts DEF StockTypeOK
<1>4. Fresh(t) /\ q >= 0
  BY <1>2 DEF FreshRead, PendingCall
<1>5. op.key \in KeysOf(t)
  BY <1>2 DEF OwnKeys
<1>0. PICK s \in Script[t] : \E n, g : HasMade(t, s, n, g)
  BY DEF AtWork
<1>6. PICK n, g : HasMade(t, s, n, g)
  BY <1>0
<1>7. s \in Seq(Op) /\ Len(s) \in Nat /\ n \in Nat /\ n + 1 \in 1..Len(s) /\ op = s[n + 1]
  <2>1. s \in Seq(Op) /\ Len(s) \in Nat
    BY ScriptKeys
  <2>2. n \in 0..Len(s) /\ Len(todo[t]) = Len(s) - n /\ Len(todo[t]) \in Nat \ {0}
    BY <1>2, <1>6, <2>1 DEF HasMade
  <2>3. todo[t][1] = s[n + 1] /\ op = todo[t][1]
    BY <1>2, <1>6, <2>1, <2>2 DEF HasMade
  <2> QED BY <2>1, <2>2, <2>3
<1>8. Sees(t, op.key, g[n][op.key])
  BY <1>5, <1>6 DEF HasMade
<1>9. read[t] = g[n][op.key]
  <2>1. CASE found[t] = NoRow
    BY <2>1, <1>4, <1>8 DEF Fresh, Sees
  <2>2. CASE found[t] # NoRow
    BY <2>2, <1>4, <1>8 DEF Fresh, Sees, Matches
  <2> QED BY <2>1, <2>2
<1> HIDE DEF op
<1>10. r \in Row /\ KeyOf[r] = op.key
  <2>1. CASE found[t] # NoRow
    BY <2>1, <1>1, <1>4 DEF Target, Fresh, Matches, op
  <2>2. CASE found[t] = NoRow
    BY <2>2, <1>1 DEF Target, op
  <2> QED BY <2>1, <2>2
<1>11. /\ dirty'[t] = dirty[t] \cup {r} /\ val'[t][r] = q
       /\ \A x \in Row : x # r => val'[t][x] = val[t][x]
       /\ todo'[t] = Tail(todo[t]) /\ live' = live /\ qty' = qty
  BY <1>1, <1>10 DEF Write, StockTypeOK, tableVars
<1>12. PICK h : /\ Follows(h, s, n + 1) /\ h[0] = g[0]
                /\ h[n + 1] = [g[n] EXCEPT ![op.key] = @ + Signed(op)]
  <2> DEFINE e == [i \in 0..(n + 1) |->
                     IF i <= n THEN g[i] ELSE [g[n] EXCEPT ![op.key] = @ + Signed(op)]]
  <2>1. g \in [0..n -> [Key -> Int]] /\ n \in 0..n
    BY <1>6, <1>7 DEF HasMade, Follows
  <2>2. [g[n] EXCEPT ![op.key] = @ + Signed(op)] \in [Key -> Int]
    BY <1>3, <2>1 DEF Op
  <2>3. e \in [0..(n + 1) -> [Key -> Int]]
    BY <1>7, <2>1, <2>2
  <2>4. ASSUME NEW i \in 1..(n + 1)
        PROVE  /\ e[i] = [e[i - 1] EXCEPT ![s[i].key] = @ + Signed(s[i])]
               /\ s[i].kind = "deduct" => e[i - 1][s[i].key] >= s[i].qty
    <3>1. i - 1 \in 0..n /\ e[i - 1] = g[i - 1]
      BY <1>7
    <3>2. CASE i \in 1..n
      <4>1. e[i] = g[i]
        BY <1>7, <3>2
      <4> QED BY <3>1, <3>2, <4>1, <1>6 DEF HasMade, Follows
    <3>3. CASE i = n + 1
      <4>1. e[i] = [g[n] EXCEPT ![op.key] = @ + Signed(op)] /\ e[i - 1] = g[n] /\ s[i] = op
        BY <1>7, <3>1, <3>3
      <4> HIDE DEF e
      <4>2. op.kind = "deduct" => g[n][op.key] >= op.qty
        BY <1>3, <1>4, <1>9 DEF Signed, Op
      <4> QED BY <4>1, <4>2
    <3>4. i \in 1..n \/ i = n + 1
      BY <1>7
    <3> QED BY <3>2, <3>3, <3>4
  <2>5. e[0] = g[0] /\ e[n + 1] = [g[n] EXCEPT ![op.key] = @ + Signed(op)]
    BY <1>7
  <2> HIDE DEF e
  <2> QED BY <2>3, <2>4, <2>5 DEF Follows
<1>13. /\ Len(todo'[t]) = Len(s) - (n + 1)
       /\ \A i \in 1..(Len(s) - (n + 1)) : todo'[t][i] = s[(n + 1) + i]
  <2>1. Len(todo[t]) = Len(s) - n /\ \A i \in 1..(Len(s) - n) : todo[t][i] = s[n + i]
    BY <1>6 DEF HasMade
  <2>2. /\ Len(Tail(todo[t])) = Len(todo[t]) - 1
        /\ \A i \in 1..(Len(todo[t]) - 1) : Tail(todo[t])[i] = todo[t][i + 1]
    BY <1>2
  <2>3. ASSUME NEW i \in 1..(Len(s) - (n + 1)) PROVE todo'[t][i] = s[(n + 1) + i]
    <3>1. Len(todo[t]) = Len(s) - n
      BY <2>1
    <3>2. Len(s) \in Nat /\ n \in Nat /\ i \in Nat
      BY <1>7
    <3>3. i + 1 \in 1..(Len(s) - n) /\ n + (i + 1) = (n + 1) + i
      BY <3>2
    <3>4. i \in 1..(Len(todo[t]) - 1)
      BY <3>1, <3>2
    <3> QED BY <3>3, <3>4, <2>1, <2>2, <1>11
  <2> QED BY <1>7, <1>11, <2>1, <2>2, <2>3
<1>14. ASSUME NEW k \in KeysOf(t) PROVE h[0][k] = StockOf(k)' /\ Sees(t, k, h[n + 1][k])'
  <2>1. h[0][k] = StockOf(k)' /\ Sees(t, k, g[n][k])
    BY <1>6, <1>11, <1>12, StockSame DEF HasMade
  <2>2. k \in Key /\ g[n] \in [Key -> Int]
    <3>1. PICK x \in Script[t] : \E i \in DOMAIN x : k = x[i].key
      BY DEF KeysOf
    <3> QED BY <3>1, <1>6, <1>7, ScriptKeys DEF HasMade, Follows
  <2>3. CASE k # op.key
    <3>1. h[n + 1][k] = g[n][k]
      BY <1>12, <2>2, <2>3
    <3>2. \A x \in Row : KeyOf[x] = k => /\ Visible(t, x)' <=> Visible(t, x)
                                         /\ ValueSeen(t, x)' = ValueSeen(t, x)
      BY <1>10, <1>11, <2>3 DEF Visible, ValueSeen
    <3>3. PICK v : v = g[n][k]
      OBVIOUS
    <3>4. Sees(t, k, v)'
      BY <2>1, <3>2, <3>3 DEF Sees
    <3> QED BY <2>1, <3>1, <3>3, <3>4
  <2>4. CASE k = op.key
    <3>1. h[n + 1][k] = q
      BY <1>9, <1>12, <2>2, <2>4
    <3>2. \A x \in Row : KeyOf[x] = k /\ Visible(t, x)' => x = r
      BY <1>10, <1>11, <2>4 DEF Visible, OneRowSeen
    <3>3. Visible(t, r)' /\ ValueSeen(t, r)' = q
      BY <1>11 DEF Visible, ValueSeen
    <3>4. PICK v : v = q
      OBVIOUS
    <3>5. Sees(t, k, v)'
      BY <1>10, <2>4, <3>2, <3>3, <3>4 DEF Sees
    <3> QED BY <2>1, <3>1, <3>4, <3>5
  <2> QED BY <2>3, <2>4
<1>15. PICK m : m = n + 1
  OBVIOUS
<1>16. Follows(h, s, m)'
  BY <1>12, <1>15 DEF Follows
<1>17. HasMade(t, s, m, h)'
  BY <1>7, <1>13, <1>14, <1>15, <1>16 DEF HasMade, KeysOf
<1> QED BY <1>17 DEF AtWork

\* A commit makes the stock of its own keys what t saw, and leaves the others'.
LEMMA CommitStock ==
  ASSUME SerialInv, OneRowPerKey', NEW t \in Tx, Commit(t), NEW k
  PROVE  /\ k \notin KeysOf(t) => StockOf(k)' = StockOf(k)
         /\ \A v : Sees(t, k, v) => StockOf(k)' = v
<1> USE DEF SerialInv, StockInv
<1>1. /\ live' = live \cup dirty[t] /\ \A r \in dirty[t] : qty'[r] = val[t][r]
      /\ \A r \in Row \ dirty[t] : qty'[r] = qty[r]
  BY DEF Commit, StockTypeOK
<1>2. live \subseteq Row /\ qty \in [Row -> Int] /\ live' \subseteq Row /\ qty' \in [Row -> Int]
  BY DEF Commit, StockTypeOK
<1>3. /\ (\A r \in live : KeyOf[r] # k) => StockOf(k) = 0
      /\ \A r \in live : KeyOf[r] = k => StockOf(k) = qty[r]
  BY <1>2, StockOfRow
<1>4. /\ (\A r \in live' : KeyOf[r] # k) => StockOf(k)' = 0
      /\ \A r \in live' : KeyOf[r] = k => StockOf(k)' = qty'[r]
  <2> DEFINE S == {r \in live' : KeyOf[r] = k}
  <2>1. /\ StockOf(k)' = SumOver(qty', S)
        /\ \A r \in S : qty'[r] \in Int
        /\ \A r, s \in S : r = s
        /\ (\A r \in live' : KeyOf[r] # k) => S = {}
        /\ \A r \in live' : KeyOf[r] = k => r \in S
    BY <1>2 DEF StockOf, OneRowPerKey
  <2> HIDE DEF S
  <2>2. (S = {} => SumOver(qty', S) = 0) /\ \A r \in S : SumOver(qty', S) = qty'[r]
    BY <2>1, SumOfRow
  <2> QED BY <2>1, <2>2
<1>5. k \notin KeysOf(t) => StockOf(k)' = StockOf(k)
  <2> SUFFICES ASSUME k \notin KeysOf(t) PROVE StockOf(k)' = StockOf(k)
    OBVIOUS
  <2>1. \A r \in Row : KeyOf[r] = k => (r \in live' <=> r \in live) /\ qty'[r] = qty[r]
    BY <1>1 DEF OwnKeys
  <2> QED BY <1>2, <1>3, <1>4, <2>1
<1>6. ASSUME NEW v, Sees(t, k, v) PROVE StockOf(k)' = v
  <2>1. \A r \in Row : r \in live' <=> Visible(t, r)
    BY <1>1 DEF Visible
  <2>2. \A r \in live' : qty'[r] = ValueSeen(t, r)
    BY <1>1, <1>2 DEF ValueSeen
  <2>3. CASE \E r \in live' : KeyOf[r] = k
    BY <1>2, <1>4, <1>6, <2>1, <2>2, <2>3 DEF Sees
  <2>4. CASE \A r \in live' : KeyOf[r] # k
    BY <1>2, <1>4, <1>6, <2>1, <2>4 DEF Sees
  <2> QED BY <2>3, <2>4
<1> QED BY <1>5, <1>6

\* Nobody else's commit is of t's keys.
LEMMA CommitWork ==
  ASSUME OneTypePerKey, SerialInv, OneRowPerKey', NEW t \in Tx, InFlight(t), AtWork(t),
         NEW u \in Tx \ {t}, Commit(u)
  PROVE  AtWork(t)'
<1>1. /\ live' = live \cup dirty[u] /\ todo' = todo
      /\ \A r \in Row \ dirty[u] : qty'[r] = qty[r]
      /\ dirty'[t] = dirty[t] /\ val'[t] = val[t]
  BY DEF Commit, SerialInv, StockInv, StockTypeOK
<1>2. \A r \in dirty[u] : KeyOf[r] \notin KeysOf(t)
  BY OthersRows
<1>3. InFlight(u)
  BY DEF Commit, InFlight
<1>4. KeysOf(t) \cap KeysOf(u) = {}
  BY <1>3, Isolation DEF SerialInv
<1>5. ASSUME NEW k \in KeysOf(t) PROVE StockOf(k)' = StockOf(k)
  BY <1>4, CommitStock
<1>6. \A k \in KeysOf(t) : \A r \in Row : KeyOf[r] = k =>
         (Visible(t, r)' <=> Visible(t, r)) /\ ValueSeen(t, r)' = ValueSeen(t, r)
  BY <1>1, <1>2 DEF Visible, ValueSeen
<1> QED BY <1>1, <1>5, <1>6, WorkKept

\* The other steps of anybody leave what t sees.
LEMMA OtherWork ==
  ASSUME SerialInv, NEW t \in Tx, InFlight(t), AtWork(t), NEW u \in Tx,
         \/ u # t /\ (Begin(u) \/ Write(u) \/ Rollback(u))
         \/ Find(u)
         \/ UNCHANGED stockVars
  PROVE  AtWork(t)'
<1>1. /\ live' = live /\ qty' = qty
      /\ todo'[t] = todo[t] /\ dirty'[t] = dirty[t] /\ val'[t] = val[t]
  BY DEF Begin, Write, Rollback, Find, stockVars, tableVars, SerialInv, StockInv,
     StockTypeOK
<1>2. \A k : StockOf(k)' = StockOf(k)
  BY <1>1, StockSame
<1>3. \A r \in Row : (Visible(t, r)' <=> Visible(t, r)) /\ ValueSeen(t, r)' = ValueSeen(t, r)
  BY <1>1 DEF Visible, ValueSeen
<1> QED BY <1>1, <1>2, <1>3, WorkKept

LEMMA LedgerInit == DocInit => LedgerInv
BY DEF DocInit, StockInit, LedgerInv, InFlight

LEMMA LedgerStep ==
  ASSUME OneTypePerKey, SerialInv, SerialInv', LedgerInv, [DocNext]_docVars
  PROVE  LedgerInv'
<1> SUFFICES ASSUME NEW t \in Tx, InFlight(t)' PROVE AtWork(t)'
  BY DEF LedgerInv
<1>1. InFlight(t) => AtWork(t)
  BY DEF LedgerInv
<1>2. CASE UNCHANGED stockVars
  <2>1. InFlight(t)
    BY <1>2 DEF InFlight, stockVars
  <2> QED BY <1>1, <1>2, <2>1, OtherWork
<1>3. ASSUME NEW u \in Tx, Begin(u) \/ Progress(u) \/ Abort(u) PROVE AtWork(t)'
  <2>1. u # t => InFlight(t)
    BY <1>3 DEF Begin, Progress, Abort, Find, Write, Refuse, UniqueViolation, Commit,
         BreakDeadlock, Rollback, InFlight, SerialInv, StockInv, StockTypeOK
  <2>2. CASE Begin(u)
    BY <1>1, <2>1, <2>2, BeginWork, OtherWork
  <2>3. CASE Find(u)
    <3>1. InFlight(t)
      BY <2>1, <2>3 DEF Find, InFlight
    <3> QED BY <1>1, <2>3, <3>1, OtherWork
  <2>4. CASE Write(u)
    <3>1. CASE u = t
      <4>1. InFlight(t) /\ OneRowSeen'
        BY <2>4, <3>1 DEF Write, InFlight, SerialInv
      <4> QED BY <1>1, <2>4, <3>1, <4>1, WriteWork
    <3>2. CASE u # t
      BY <1>1, <2>1, <2>4, <3>2, OtherWork
    <3> QED BY <3>1, <3>2
  <2>5. CASE Commit(u)
    <3>1. u # t
      BY <2>5 DEF Commit, InFlight, SerialInv, StockInv, StockTypeOK
    <3>2. OneRowPerKey'
      BY DEF SerialInv
    <3> QED BY <1>1, <2>1, <2>5, <3>1, <3>2, CommitWork
  <2>6. CASE Rollback(u)
    <3>1. u # t
      BY <2>6 DEF Rollback, InFlight, SerialInv, StockInv, StockTypeOK
    <3> QED BY <1>1, <2>1, <2>6, <3>1, OtherWork
  <2>7. Begin(u) \/ Find(u) \/ Write(u) \/ Commit(u) \/ Rollback(u)
    BY <1>3 DEF Progress, Abort, Refuse, UniqueViolation, BreakDeadlock
  <2> QED BY <2>2, <2>3, <2>4, <2>5, <2>6, <2>7
<1> QED BY <1>2, <1>3, DocStepIsStockStep

\* A commit is a posting: all of the calls, in order, on the stock as it is.
LEMMA CommitPosts ==
  ASSUME SerialInv, OneRowPerKey', NEW t \in Tx, Commit(t), AtWork(t)
  PROVE  Serial!PostDocument(t)
<1> USE DEF SerialInv, StockInv
<1>0. PICK s \in Script[t] : \E n, g : HasMade(t, s, n, g)
  BY DEF AtWork
<1>1. PICK n, g : HasMade(t, s, n, g)
  BY <1>0
<1>2. s \in Seq(Op) /\ Len(s) \in Nat /\ n = Len(s)
  <2>1. s \in Seq(Op) /\ Len(s) \in Nat
    BY ScriptKeys
  <2>2. todo[t] = <<>> /\ n \in 0..Len(s) /\ Len(todo[t]) = Len(s) - n
    BY <1>1 DEF Commit, HasMade
  <2> QED BY <2>1, <2>2
<1>3. g \in [0..n -> [Key -> Int]] /\ \A i \in 0..n : g[i] \in [Key -> Int]
  BY <1>1 DEF HasMade, Follows
<1>4. \A k \in Key : StockOf(k) \in Int
  BY StockOfRow DEF StockTypeOK
<1>5. PICK h : Follows(h, s, n) /\ h[0] = Stock
               /\ \A k \in Key : h[n][k] = IF k \in KeysOf(t) THEN g[n][k] ELSE StockOf(k)
  <2> DEFINE At(i) == [k \in Key |-> IF k \in KeysOf(t) THEN g[i][k] ELSE StockOf(k)]
             e == [i \in 0..n |-> At(i)]
  <2>1. \A i \in 0..n : At(i) \in [Key -> Int]
    BY <1>3, <1>4
  <2>2. ASSUME NEW i \in 1..n
        PROVE  /\ At(i) = [At(i - 1) EXCEPT ![s[i].key] = @ + Signed(s[i])]
               /\ s[i].kind = "deduct" => At(i - 1)[s[i].key] >= s[i].qty
    <3>1. s[i].key \in KeysOf(t) \cap Key
      BY <1>2, ScriptKeys
    <3>2. /\ g[i] = [g[i - 1] EXCEPT ![s[i].key] = @ + Signed(s[i])]
          /\ s[i].kind = "deduct" => g[i - 1][s[i].key] >= s[i].qty
      BY <1>1 DEF HasMade, Follows
    <3>3. i - 1 \in 0..n /\ g[i - 1] \in [Key -> Int]
      BY <1>2, <1>3
    <3>4. At(i - 1)[s[i].key] = g[i - 1][s[i].key]
      BY <3>1
    <3>5. \A k \in Key : At(i)[k] = [At(i - 1) EXCEPT ![s[i].key] = @ + Signed(s[i])][k]
      BY <3>1, <3>2, <3>3
    <3> QED BY <3>2, <3>4, <3>5
  <2>3. At(0) = Stock
    BY <1>1 DEF HasMade, Stock
  <2> HIDE DEF At
  <2>4. e \in [0..n -> [Key -> Int]] /\ e[0] = Stock /\ e[n] = At(n)
    BY <1>2, <2>1, <2>3
  <2>5. \A i \in 1..n : e[i] = At(i) /\ e[i - 1] = At(i - 1)
    BY <1>2
  <2> HIDE DEF e
  <2>6. Follows(e, s, n)
    BY <2>2, <2>4, <2>5 DEF Follows
  <2> QED BY <2>4, <2>6 DEF At
<1>6. \A j \in 0..n : Serial!After(s, j) = h[j]
  BY <1>2, <1>5, AfterCalls
<1>7. Serial!Covered(s)
  <2>1. ASSUME NEW i \in DOMAIN s, s[i].kind = "deduct"
        PROVE  Serial!After(s, i - 1)[s[i].key] >= s[i].qty
    <3>1. i \in 1..n /\ i - 1 \in 0..n
      BY <1>2
    <3>2. h[i - 1][s[i].key] >= s[i].qty
      BY <1>5, <2>1, <3>1 DEF Follows
    <3> QED BY <1>6, <3>1, <3>2
  <2> QED BY <2>1 DEF Serial!Covered
<1>8. Stock' = h[n]
  <2>1. ASSUME NEW k \in Key PROVE StockOf(k)' = h[n][k]
    <3>1. CASE k \in KeysOf(t)
      <4>1. PICK v : v = g[n][k]
        OBVIOUS
      <4>2. Sees(t, k, v)
        BY <1>1, <3>1, <4>1 DEF HasMade
      <4>3. StockOf(k)' = v
        BY <4>2, CommitStock
      <4> QED BY <1>5, <3>1, <4>1, <4>3
    <3>2. CASE k \notin KeysOf(t)
      <4>1. StockOf(k)' = StockOf(k)
        BY <3>2, CommitStock
      <4> QED BY <1>5, <3>2, <4>1
    <3> QED BY <3>1, <3>2
  <2>2. h[n] \in [Key -> Int]
    BY <1>2, <1>5 DEF Follows
  <2> QED BY <2>1, <2>2 DEF Stock
<1>9. /\ t \notin {u \in Tx : phase[u] = "committed"}
      /\ {u \in Tx : phase'[u] = "committed"} = {u \in Tx : phase[u] = "committed"} \cup {t}
  BY DEF Commit, StockTypeOK
<1>10. n \in 0..n /\ Serial!After(s, Len(s)) = h[n]
  BY <1>2, <1>6
<1> QED BY <1>7, <1>8, <1>9, <1>10 DEF Serial!PostDocument, Stock

\* Every other step leaves the stock and what is posted.
LEMMA RestStutters ==
  ASSUME SerialInv, NEW t \in Tx, Rollback(t) => phase[t] # "committed",
         Begin(t) \/ Find(t) \/ Write(t) \/ Rollback(t)
  PROVE  /\ [k \in Key |-> StockOf(k)]' = [k \in Key |-> StockOf(k)]
         /\ {u \in Tx : phase[u] = "committed"}' = {u \in Tx : phase[u] = "committed"}
<1>1. live' = live /\ qty' = qty
  BY DEF Begin, Find, Write, Rollback, tableVars
<1>2. \A u \in Tx : phase'[u] = "committed" <=> phase[u] = "committed"
  BY DEF Begin, Find, Write, Rollback, SerialInv, StockInv, StockTypeOK
<1>3. \A k : StockOf(k)' = StockOf(k)
  BY <1>1, StockSame
<1> QED BY <1>2, <1>3

LEMMA MapsInit ==
  ASSUME DocInit PROVE Serial!Init
<1>1. \A k : StockOf(k) = SumOver(Opening, {r \in OpeningRow : KeyOf[r] = k})
  BY DEF DocInit, StockInit, StockOf
<1>2. {t \in Tx : phase[t] = "committed"} = {}
  BY DEF DocInit, StockInit
<1> QED BY <1>1, <1>2 DEF Serial!Init

LEMMA MapsStep ==
  ASSUME SerialInv, SerialInv', LedgerInv, [DocNext]_docVars
  PROVE  [Serial!Next]_<<[k \in Key |-> StockOf(k)], {t \in Tx : phase[t] = "committed"}>>
<1>1. CASE UNCHANGED stockVars
  <2>1. live' = live /\ qty' = qty /\ phase' = phase
    BY <1>1 DEF stockVars
  <2>2. \A k : StockOf(k)' = StockOf(k)
    BY <2>1, StockSame
  <2> QED BY <2>1, <2>2
<1>2. ASSUME NEW t \in Tx, Begin(t) \/ Progress(t) \/ Abort(t)
      PROVE  \/ Serial!PostDocument(t)
             \/ /\ [k \in Key |-> StockOf(k)]' = [k \in Key |-> StockOf(k)]
                /\ {u \in Tx : phase[u] = "committed"}' = {u \in Tx : phase[u] = "committed"}
  <2>1. CASE Commit(t)
    <3>1. AtWork(t) /\ OneRowPerKey'
      BY <2>1 DEF Commit, InFlight, LedgerInv, SerialInv
    <3> QED BY <2>1, <3>1, CommitPosts
  <2>2. CASE Begin(t) \/ Find(t) \/ Write(t)
    <3>1. Rollback(t) => phase[t] # "committed"
      BY <2>2 DEF Begin, Find, Write
    <3> QED BY <2>2, <3>1, RestStutters
  <2>3. CASE Refuse(t) \/ UniqueViolation(t) \/ BreakDeadlock(t) \/ Abort(t)
    <3>1. Rollback(t) /\ phase[t] # "committed"
      BY <2>3 DEF Refuse, UniqueViolation, BreakDeadlock, Abort, InFlight, Deadlocked, Blockers
    <3> QED BY <3>1, RestStutters
  <2> QED BY <1>2, <2>1, <2>2, <2>3 DEF Progress
<1> QED BY <1>1, <1>2, DocStepIsStockStep DEF Serial!Next

\* Documents that share stock only with documents of their own type change
\* the stock of every key, and are posted, as if one at a time, each by all of
\* its calls in one step and with every deduction covered, although each
\* reads without a lock and writes call by call (stock.engine.ts:39-223).
THEOREM ImplementsLedger ==
  ASSUME OneTypePerKey, OneOpeningRow
  PROVE  DocSpec => SerialLedger
<1>1. DocInit => SerialInv /\ LedgerInv
  BY SerialInit, LedgerInit
<1>2. SerialInv /\ SeriesInv /\ LedgerInv /\ [DocNext]_docVars => SerialInv' /\ LedgerInv'
  BY SerialStep, LedgerStep
<1>3. DocInit => Serial!Init
  BY MapsInit
<1>4. SerialInv /\ SerialInv' /\ LedgerInv /\ [DocNext]_docVars
        => [Serial!Next]_<<[k \in Key |-> StockOf(k)], {t \in Tx : phase[t] = "committed"}>>
  BY MapsStep
<1> QED BY <1>1, <1>2, <1>3, <1>4, SeriesInvariance, PTL DEF DocSpec, SerialLedger, Serial!Spec
=============================================================================
