------------------------ MODULE Reservations_proofs ------------------------
(***************************************************************************)
(* Requests drive the stock engine and nothing else touches its state, for *)
(* every set of requests, batches, reservations and calls: what is proved  *)
(* of the engine holds of reservations, releases, issues and dispatches.   *)
(***************************************************************************)
EXTENDS Reservations, StockEngine_proofs

----------------------------------------------------------------------------
(* Types, and how the place of a request goes with its transaction. *)

Places == {"idle", "checked", "line", "calls", "reserved", "available", "settled",
           "done", "failed"}

ReqTypeOK ==
  /\ DOMAIN req = Tx /\ at \in [Tx -> Places]
  /\ batch \in [Tx -> Batch \cup {NoBatch}]
  /\ held \in [Tx -> Nat] /\ pos \in [Tx -> Nat] /\ newIssued \in [Tx -> Nat]
  /\ resDirty \in [Tx -> SUBSET Res]
  /\ DOMAIN resVal = Tx
  /\ \A t \in Tx : DOMAIN resVal[t] = Res /\ \A r \in Res : IsReservation(resVal[t][r])
  /\ \A r \in Res : IsReservation(res[r])
  /\ issued \in [Request -> Nat] /\ shipped \subseteq Order

AtWork == {"line", "reserved", "available"}
Settles(t) == req[t].op \in {"reserve", "release"}

\* Where a request is says what its transaction is about to do and has written.
Stage(t) ==
  /\ at[t] # "idle" => req[t] \in Call0[t]
  /\ at[t] \in {"idle", "checked"} => phase[t] = "idle"
  /\ at[t] \in AtWork \cup {"calls", "settled"} <=> InFlight(t)
  /\ at[t] \in {"line", "settled"} => phase[t] = "find" /\ todo[t] = <<>>
  /\ at[t] \in AtWork => req[t].op = "issue" /\ pos[t] <= Len(Lines(t))
  /\ at[t] \in {"reserved", "available"} => pos[t] < Len(Lines(t))
  /\ at[t] = "calls" => req[t].op # "issue"
  /\ at[t] = "settled" => Settles(t)
  /\ at[t] \notin AtWork => pos[t] = 0
  /\ at[t] \notin AtWork \cup {"settled"} => resDirty[t] = {}
  /\ at[t] \in {"checked", "calls", "settled"} /\ Settles(t) => batch[t] \in Batch

ShapeInv == ReqTypeOK /\ \A t \in Tx : Stage(t)

----------------------------------------------------------------------------
(* What issues have taken. *)

Quantities(ls) == [i \in DOMAIN ls |-> ls[i].qty]

IssuesTakeTurns == \A t, u \in Tx : t # u => ~(Issuing(t) /\ Issuing(u))

\* The issue underway has added the lines it is done with.
Adding(t) ==
  (Issuing(t) /\ pos[t] > 0 /\ req[t].request \in Request) =>
    newIssued[t] = issued[req[t].request] + SumOver(Quantities(Lines(t)), 1..pos[t])

IssueInv == IssuesTakeTurns /\ (\A t \in Tx : Adding(t)) /\ IssuedAddsUp

----------------------------------------------------------------------------
(* What is reserved and claimed. *)

ResLocks == \A t, u \in Tx : t # u => resDirty[t] \cap resDirty[u] = {}

\* A reservation comes to be with the request that makes it.
Unborn == \A t \in Tx : at[t] # "done" => \A r \in NewRes(t) : res[r].status = "none"

\* y is x later: of the same batch, not larger, and not active again.
Later(x, y) ==
  /\ x.status # "none" /\ y.status # "none" /\ y.batch = x.batch /\ y.qty <= x.qty
  /\ y.status = "active" => x.status = "active"

Wears(t) ==
  \A r \in resDirty[t] :
    IF req[t].op = "reserve" THEN r = req[t].res ELSE Later(res[r], resVal[t][r])

\* A release works with a quantity that covers what is still claimed.
HeldEnough(t) ==
  (at[t] \in {"checked", "calls"} /\ req[t].op = "release") =>
    LET x == res[req[t].res]
    IN  /\ x.status # "none" /\ x.batch = batch[t]
        /\ x.status = "active" => x.qty <= held[t]

\* What its calls do to the reserved stock of b before it has settled the claim.
Owed(t, b) ==
  CASE at[t] = "reserved" /\ Lines(t)[pos[t] + 1].batch = b -> Lines(t)[pos[t] + 1].qty
    [] at[t] = "calls" /\ req[t].op = "reserve" /\ batch[t] = b -> -req[t].qty
    [] at[t] = "calls" /\ req[t].op = "release" /\ batch[t] = b -> held[t]
    [] OTHER -> 0

\* What t has changed of the claims on b.
Changes(t, b) == [r \in Res |-> Claim(ResSeen(t, r), b) - Claim(res[r], b)]
Change(t, b) == SumOver(Changes(t, b), Res)

Balanced(t) ==
  InFlight(t) => \A b \in Batch :
    Booked(pend[t], Reserved[b]) + Due(todo[t], Reserved[b]) + Owed(t, b) <= Change(t, b)

ClaimInv ==
  /\ ResLocks /\ Unborn
  /\ \A t \in Tx : Wears(t) /\ HeldEnough(t) /\ Balanced(t)
  /\ ReservedIsClaimed

----------------------------------------------------------------------------
(* Sums over entries. *)

LEMMA BookedInt ==
  ASSUME NEW s \in Seq(Entry), NEW k
  PROVE  Booked(s, k) \in Int
<1>1. DOMAIN s = 1..Len(s) /\ IsFiniteSet(DOMAIN s) /\ \A i \in DOMAIN s : s[i] \in Entry
  BY FS_Interval
<1>2. \A i \in DOMAIN s : EntriesFor(s, k)[i] \in Int
  BY <1>1 DEF EntriesFor, Entry
<1> QED BY <1>1, <1>2, SumInt DEF Booked

LEMMA BookedAppend ==
  ASSUME NEW s \in Seq(Entry), NEW e \in Entry, NEW k
  PROVE  /\ Booked(s, k) \in Int
         /\ Booked(Append(s, e), k) = Booked(s, k) + (IF KeyOf[e.row] = k THEN e.qty ELSE 0)
<1> DEFINE n == Len(s)
           u == Append(s, e)
           f == EntriesFor(s, k)
           g == EntriesFor(u, k)
<1>1. /\ n \in Nat /\ DOMAIN s = 1..n /\ DOMAIN u = 1..(n + 1) /\ u[n + 1] = e
      /\ \A i \in 1..n : u[i] = s[i] /\ s[i] \in Entry
  OBVIOUS
<1>2. e.qty \in Int /\ \A i \in 1..n : s[i].qty \in Int
  BY <1>1 DEF Entry
<1> HIDE DEF n, u
<1>3. /\ \A i \in 1..n : f[i] \in Int /\ g[i] = f[i]
      /\ g[n + 1] = IF KeyOf[e.row] = k THEN e.qty ELSE 0
  BY <1>1, <1>2 DEF EntriesFor
<1> HIDE DEF f, g
<1>4. /\ IsFiniteSet(1..n) /\ 1..(n + 1) = (1..n) \cup {n + 1} /\ n + 1 \notin 1..n
  <2>1. n \in Nat
    BY <1>1
  <2>2. IsFiniteSet(1..n)
    BY <2>1, FS_Interval
  <2> QED BY <2>1, <2>2
<1>5. \A i \in (1..n) \cup {n + 1} : g[i] \in Int
  BY <1>2, <1>3, <1>4
<1>6. SumOver(g, 1..(n + 1)) = g[n + 1] + SumOver(g, 1..n)
  BY <1>4, <1>5, SumAdd
<1>7. SumOver(g, 1..n) = SumOver(f, 1..n) /\ SumOver(f, 1..n) \in Int
  BY <1>3, <1>4, SumEqual, SumInt
<1>8. Booked(s, k) = SumOver(f, 1..n) /\ Booked(u, k) = SumOver(g, 1..(n + 1))
  BY <1>1 DEF Booked, f, g
<1>9. g[n + 1] \in Int
  BY <1>2, <1>3
<1>10. Booked(u, k) = Booked(s, k) + g[n + 1]
  BY <1>6, <1>7, <1>8, <1>9
<1> QED BY <1>3, <1>7, <1>8, <1>10 DEF u

LEMMA BookedEmpty == \A k : Booked(<<>>, k) = 0
BY SumEmpty DEF Booked

LEMMA BookedConcat ==
  ASSUME NEW s \in Seq(Entry), NEW p \in Seq(Entry), NEW k
  PROVE  /\ Booked(s, k) \in Int /\ Booked(p, k) \in Int
         /\ Booked(s \o p, k) = Booked(s, k) + Booked(p, k)
<1> DEFINE m == Len(p)
           Upto(i) == SubSeq(p, 1, i)
           G == {i \in 0..m : Booked(s \o Upto(i), k) = Booked(s, k) + Booked(Upto(i), k)}
<1>1. m \in Nat /\ Upto(m) = p /\ Upto(0) = <<>> /\ s \o <<>> = s
  OBVIOUS
<1>2. ASSUME NEW i \in 0..m, i < m
      PROVE  /\ p[i + 1] \in Entry /\ Upto(i) \in Seq(Entry) /\ s \o Upto(i) \in Seq(Entry)
             /\ Upto(i + 1) = Append(Upto(i), p[i + 1])
             /\ s \o Upto(i + 1) = Append(s \o Upto(i), p[i + 1])
  <2>1. i + 1 \in 1..Len(p) /\ Upto(i) \in Seq(Entry)
    BY <1>2
  <2>2. Upto(i + 1) = Append(Upto(i), p[i + 1])
    BY <1>2
  <2> HIDE DEF Upto
  <2>3. p[i + 1] \in Entry /\ s \o Upto(i) \in Seq(Entry)
    BY <2>1
  <2>4. s \o Append(Upto(i), p[i + 1]) = Append(s \o Upto(i), p[i + 1])
    BY <2>1, <2>3
  <2> QED BY <2>1, <2>2, <2>3, <2>4
<1> HIDE DEF m, Upto
<1>3. 0 \in G
  <2>1. Booked(s, k) \in Int
    BY BookedInt
  <2>2. Booked(s \o Upto(0), k) = Booked(s, k) + Booked(Upto(0), k)
    <3>1. s \o Upto(0) = s /\ Upto(0) = <<>>
      BY <1>1
    <3>2. Booked(<<>>, k) = 0
      BY BookedEmpty
    <3>3. Booked(s \o Upto(0), k) = Booked(s, k) /\ Booked(Upto(0), k) = 0
      BY <3>1, <3>2, Zenon
    <3> QED BY <2>1, <3>3
  <2> QED BY <1>1, <2>2
<1>4. ASSUME NEW i \in 0..m, i \in G, i < m PROVE i + 1 \in G
  <2> DEFINE x == IF KeyOf[p[i + 1].row] = k THEN p[i + 1].qty ELSE 0
  <2>1. x \in Int
    BY <1>2, <1>4 DEF Entry
  <2>2. /\ Booked(Upto(i), k) \in Int /\ Booked(s \o Upto(i), k) \in Int
        /\ Booked(Append(Upto(i), p[i + 1]), k) = Booked(Upto(i), k) + x
        /\ Booked(Append(s \o Upto(i), p[i + 1]), k) = Booked(s \o Upto(i), k) + x
    <3>1. p[i + 1] \in Entry /\ Upto(i) \in Seq(Entry) /\ s \o Upto(i) \in Seq(Entry)
      BY <1>2, <1>4
    <3>2. /\ Booked(Upto(i), k) \in Int
          /\ Booked(Append(Upto(i), p[i + 1]), k) = Booked(Upto(i), k) + x
      BY <3>1, BookedAppend
    <3>3. /\ Booked(s \o Upto(i), k) \in Int
          /\ Booked(Append(s \o Upto(i), p[i + 1]), k) = Booked(s \o Upto(i), k) + x
      BY <3>1, BookedAppend
    <3> QED BY <3>2, <3>3
  <2>5. /\ Booked(Upto(i + 1), k) = Booked(Upto(i), k) + x
        /\ Booked(s \o Upto(i + 1), k) = Booked(s \o Upto(i), k) + x
    BY <1>2, <1>4, <2>2
  <2>3. Booked(s, k) \in Int
    BY BookedInt
  <2> HIDE DEF x
  <2>4. Booked(s \o Upto(i + 1), k) = Booked(s, k) + Booked(Upto(i + 1), k)
    BY <1>4, <2>1, <2>2, <2>3, <2>5
  <2> QED BY <1>1, <1>4, <2>4
<1>5. 0..m \subseteq G
  <2> HIDE DEF G
  <2> QED BY <1>1, <1>3, <1>4, CountInduction
<1>6. Booked(s \o p, k) = Booked(s, k) + Booked(p, k)
  <2>1. m \in G
    BY <1>1, <1>5
  <2> QED BY <1>1, <2>1
<1> QED BY <1>6, BookedInt

----------------------------------------------------------------------------
(* What an issue takes off the reservations. *)

\* f[i] is what is left of n after the first i of m reservations.
Lefts(f, t, M, n, m) ==
  f = [i \in 0..m |-> IF i = 0 THEN n
                      ELSE IF ByPriority[i] \in M
                             THEN Max({0, f[i-1] - ResSeen(t, ByPriority[i]).qty})
                             ELSE f[i-1]]

\* What is left of a units after one more reservation.
Left1(t, M, r, a) == IF r \in M THEN Max({0, a - ResSeen(t, r).qty}) ELSE a

LEMMA LeftsStep ==
  ASSUME NEW f, NEW t, NEW M, NEW n, NEW m \in Nat, Lefts(f, t, M, n, m)
  PROVE  /\ f[0] = n
         /\ \A i \in 0..m : i < m => f[i + 1] = Left1(t, M, ByPriority[i + 1], f[i])
<1> DEFINE R == [i \in 0..m |-> IF i = 0 THEN n
                      ELSE IF ByPriority[i] \in M
                             THEN Max({0, f[i-1] - ResSeen(t, ByPriority[i]).qty})
                             ELSE f[i-1]]
<1>1. f = R
  BY DEF Lefts
<1>2. R[0] = n
  OBVIOUS
<1>3. ASSUME NEW i \in 0..m, i < m
      PROVE  R[i + 1] = Left1(t, M, ByPriority[i + 1], f[i])
  <2>1. i + 1 \in 0..m /\ i + 1 # 0 /\ (i + 1) - 1 = i
    BY <1>3
  <2> QED BY <2>1 DEF Left1
<1> HIDE DEF R
<1> QED BY <1>1, <1>2, <1>3

LEMMA LeftsExist ==
  ASSUME NEW t, NEW M, NEW n, NEW m \in Nat
  PROVE  \E f : Lefts(f, t, M, n, m)
<1> DEFINE G == {i \in 0..m : \E f : Lefts(f, t, M, n, i)}
<1>1. 0 \in G
  <2> DEFINE f == [i \in 0..0 |-> n]
  <2>1. Lefts(f, t, M, n, 0)
    BY DEF Lefts
  <2> QED BY <2>1
<1>2. ASSUME NEW i \in 0..m, i \in G, i < m PROVE i + 1 \in G
  <2>1. PICK f : Lefts(f, t, M, n, i)
    BY <1>2
  <2> DEFINE e == Left1(t, M, ByPriority[i + 1], f[i])
             g == [j \in 0..(i + 1) |-> IF j <= i THEN f[j] ELSE e]
  <2>2. ASSUME NEW j \in 0..(i + 1)
        PROVE  g[j] = IF j = 0 THEN n ELSE Left1(t, M, ByPriority[j], g[j - 1])
    <3>1. CASE j = 0
      <4>1. g[j] = f[0]
        BY <1>2, <3>1
      <4> QED BY <2>1, <3>1, <4>1, LeftsStep
    <3>2. CASE j # 0 /\ j <= i
      <4>1. g[j] = f[j] /\ g[j - 1] = f[j - 1]
        BY <1>2, <3>2
      <4>2. j - 1 \in 0..i /\ j - 1 < i /\ (j - 1) + 1 = j
        BY <1>2, <3>2
      <4>3. f[j] = Left1(t, M, ByPriority[j], f[j - 1])
        BY <2>1, <4>2, LeftsStep
      <4> HIDE DEF g
      <4> QED BY <3>2, <4>1, <4>3
    <3>3. CASE j = i + 1
      <4>1. g[j] = e /\ g[j - 1] = f[i] /\ j # 0
        BY <1>2, <3>3
      <4> HIDE DEF g
      <4> QED BY <3>3, <4>1
    <3> QED BY <1>2, <3>1, <3>2, <3>3
  <2>3. g = [j \in 0..(i + 1) |-> g[j]]
    OBVIOUS
  <2> HIDE DEF g
  <2>4. Lefts(g, t, M, n, i + 1)
    BY <2>2, <2>3 DEF Lefts, Left1
  <2> QED BY <1>2, <2>4
<1> HIDE DEF G
<1>3. 0..m \subseteq G
  BY <1>1, <1>2, CountInduction
<1> QED BY <1>3 DEF G

LEMMA MaxZero ==
  ASSUME NEW x \in Int
  PROVE  Max({0, x}) = IF x >= 0 THEN x ELSE 0
<1>1. \E y \in {0, x} : \A z \in {0, x} : y >= z
  OBVIOUS
<1> QED BY <1>1 DEF Max

\* The reservations take what they have of it, in their order.
LEMMA LeftFacts ==
  ASSUME NEW t, NEW M, NEW n \in Nat, \A r \in Res : ResSeen(t, r).qty \in Nat
  PROVE  /\ LeftAfter(t, M, n)[0] = n
         /\ \A i \in 0..Len(ByPriority) : LeftAfter(t, M, n)[i] \in Nat
         /\ \A i \in 0..Len(ByPriority) : i < Len(ByPriority) =>
              LeftAfter(t, M, n)[i + 1] = Left1(t, M, ByPriority[i + 1], LeftAfter(t, M, n)[i])
<1> DEFINE m == Len(ByPriority)
           f == CHOOSE e : Lefts(e, t, M, n, m)
<1>0. m \in Nat /\ \A i \in 1..m : ByPriority[i] \in Res
  BY ReservationConstants
<1>1. LeftAfter(t, M, n) = f
  BY DEF LeftAfter, Lefts
<1>2. Lefts(f, t, M, n, m)
  BY <1>0, LeftsExist
<1> HIDE DEF f, m
<1>3. f[0] = n /\ \A i \in 0..m : i < m => f[i + 1] = Left1(t, M, ByPriority[i + 1], f[i])
  BY <1>0, <1>2, LeftsStep
<1> DEFINE G == {i \in 0..m : f[i] \in Nat}
<1>4. 0 \in G
  BY <1>0, <1>3
<1>5. ASSUME NEW i \in 0..m, i \in G, i < m PROVE i + 1 \in G
  <2>1. i + 1 \in 1..m /\ f[i] \in Nat
    BY <1>0, <1>5
  <2>2. ResSeen(t, ByPriority[i + 1]).qty \in Nat
    BY <1>0, <2>1
  <2>3. Left1(t, M, ByPriority[i + 1], f[i]) \in Nat
    BY <2>1, <2>2, MaxZero DEF Left1
  <2> QED BY <1>0, <1>3, <1>5, <2>3
<1>6. 0..m \subseteq G
  <2> HIDE DEF G
  <2> QED BY <1>0, <1>4, <1>5, CountInduction
<1> QED BY <1>1, <1>3, <1>6 DEF m

\* y is x after some or all of it is taken.
Reduced(x, y) ==
  /\ IsReservation(y)
  /\ y.batch = x.batch /\ y.qty <= x.qty
  /\ y.status = "active" => x.status = "active"
  /\ x.status # "none" => y.status # "none"

\* A reservation gives what is taken off what was left, and nothing else.
LEMMA ConsumeFacts ==
  ASSUME NEW t, NEW M, NEW n \in Nat, \A r \in Res : IsReservation(ResSeen(t, r)),
         NEW i \in 1..Len(ByPriority)
  PROVE  LET x == ResSeen(t, ByPriority[i])
             y == Consume(t, M, n)[i]
             left == LeftAfter(t, M, n)
         IN  /\ Reduced(x, y)
             /\ ByPriority[i] \notin M => y = x
             /\ left[i] \in Nat /\ left[i - 1] \in Nat
             /\ \A b : IF ByPriority[i] \in M /\ x.status = "active" /\ x.batch = b
                         THEN Claim(x, b) - Claim(y, b) = left[i - 1] - left[i]
                         ELSE Claim(y, b) <= Claim(x, b)
             /\ ByPriority[i] \notin M => left[i] = left[i - 1]
<1> DEFINE r == ByPriority[i]
           x == ResSeen(t, r)
           y == Consume(t, M, n)[i]
           left == LeftAfter(t, M, n)
           a == left[i - 1]
<1>1. /\ Len(ByPriority) \in Nat /\ DOMAIN ByPriority = 1..Len(ByPriority) /\ r \in Res
      /\ i - 1 \in 0..Len(ByPriority) /\ i - 1 < Len(ByPriority) /\ (i - 1) + 1 = i
      /\ i \in 0..Len(ByPriority)
  <2>1. ByPriority \in Seq(Res)
    BY ReservationConstants
  <2> QED BY <2>1
<1>2. IsReservation(x) /\ \A q \in Res : ResSeen(t, q).qty \in Nat
  BY <1>1 DEF IsReservation
<1>3. a \in Nat /\ left[i] \in Nat /\ left[(i - 1) + 1] = Left1(t, M, ByPriority[(i - 1) + 1], a)
  BY <1>1, <1>2, LeftFacts
<1>4. left[i] = IF r \in M THEN Max({0, a - x.qty}) ELSE a
  BY <1>1, <1>3 DEF Left1
<1>5. y = IF r \notin M \/ a = 0 THEN x
          ELSE IF x.qty <= a THEN [x EXCEPT !.status = "consumed"]
          ELSE [x EXCEPT !.qty = @ - a]
  BY <1>1 DEF Consume
<1> HIDE DEF r, x, y, left
<1>6. /\ x.qty \in Nat /\ DOMAIN x = {"status", "qty", "batch", "po"}
      /\ x = [status |-> x.status, qty |-> x.qty, batch |-> x.batch, po |-> x.po]
  BY <1>2 DEF IsReservation
<1>7. Max({0, a - x.qty}) = IF a - x.qty >= 0 THEN a - x.qty ELSE 0
  <2>1. a - x.qty \in Int
    BY <1>3, <1>6
  <2> HIDE DEF a
  <2> QED BY <2>1, MaxZero
<1>8. CASE r \notin M \/ a = 0
  <2>1. y = x /\ Reduced(x, y)
    BY <1>2, <1>5, <1>6, <1>8 DEF Reduced
  <2>2. left[i] = a
    BY <1>3, <1>4, <1>6, <1>7, <1>8
  <2>3. \A b : Claim(x, b) \in Nat /\ (r \in M => Claim(x, b) - Claim(y, b) = left[i - 1] - left[i])
    BY <1>3, <1>6, <2>1, <2>2 DEF Claim
  <2> QED BY <1>3, <1>8, <2>1, <2>2, <2>3 DEF r, x, y, left
<1>9. CASE r \in M /\ a # 0 /\ x.qty <= a
  <2>1. y = [status |-> "consumed", qty |-> x.qty, batch |-> x.batch, po |-> x.po]
    BY <1>5, <1>6, <1>9
  <2>2. IsReservation(y)
    BY <1>2, <2>1 DEF IsReservation
  <2>3. left[i] = a - x.qty
    BY <1>3, <1>4, <1>6, <1>7, <1>9
  <2> QED BY <1>3, <1>6, <1>9, <2>1, <2>2, <2>3 DEF Reduced, Claim, r, x, y, left
<1>10. CASE r \in M /\ a # 0 /\ ~(x.qty <= a)
  <2>1. y = [status |-> x.status, qty |-> x.qty - a, batch |-> x.batch, po |-> x.po]
    BY <1>5, <1>6, <1>10
  <2>2. x.qty - a \in Nat /\ x.qty - a > 0 /\ x.qty - a <= x.qty
    BY <1>3, <1>6, <1>10
  <2>3. IsReservation(y)
    BY <1>2, <2>1, <2>2 DEF IsReservation
  <2>4. left[i] = 0
    BY <1>3, <1>4, <1>6, <1>7, <1>10
  <2> QED BY <1>3, <1>6, <1>10, <2>1, <2>2, <2>3, <2>4 DEF Reduced, Claim, r, x, y, left
<1> QED BY <1>8, <1>9, <1>10

LEMMA ClaimNat == ASSUME NEW x, IsReservation(x), NEW b PROVE Claim(x, b) \in Nat
BY DEF IsReservation, Claim

\* Together they give no more than is taken.
LEMMA ConsumeTakes ==
  ASSUME NEW t, NEW n \in Nat, \A r \in Res : IsReservation(ResSeen(t, r)), NEW b,
         NEW M \in SUBSET Res,
         \A r \in M : ResSeen(t, r).status = "active" /\ ResSeen(t, r).batch = b,
         NEW d, \A i \in 1..Len(ByPriority) :
           d[ByPriority[i]] = Claim(ResSeen(t, ByPriority[i]), b) - Claim(Consume(t, M, n)[i], b)
  PROVE  /\ \A r \in Res : d[r] \in Int
         /\ SumOver(d, Res) <= n
<1> DEFINE m == Len(ByPriority)
           left == LeftAfter(t, M, n)
           Upto(i) == {ByPriority[j] : j \in 1..i}
           G == {i \in 0..m : IsFiniteSet(Upto(i)) /\ SumOver(d, Upto(i)) = n - left[i]}
<1>1. /\ m \in Nat /\ DOMAIN ByPriority = 1..m /\ \A i \in 1..m : ByPriority[i] \in Res
      /\ \A i, j \in 1..m : ByPriority[i] = ByPriority[j] => i = j
      /\ \A r \in Res : \E i \in 1..m : ByPriority[i] = r
  <2>1. ByPriority \in Seq(Res)
    BY ReservationConstants
  <2>2. m \in Nat /\ DOMAIN ByPriority = 1..m /\ \A i \in 1..m : ByPriority[i] \in Res
    BY <2>1
  <2> HIDE DEF m
  <2> QED BY <2>2, ReservationConstants
<1>2. left[0] = n /\ \A i \in 0..m : left[i] \in Nat
  <2>1. \A r \in Res : ResSeen(t, r).qty \in Nat
    BY DEF IsReservation
  <2> QED BY <2>1, LeftFacts
<1>3. \A i \in 1..m : d[ByPriority[i]] = left[i - 1] - left[i]
  <2> SUFFICES ASSUME NEW i \in 1..m PROVE d[ByPriority[i]] = left[i - 1] - left[i]
    OBVIOUS
  <2>1. CASE ByPriority[i] \in M
    <3>1. ResSeen(t, ByPriority[i]).status = "active" /\ ResSeen(t, ByPriority[i]).batch = b
      BY <2>1
    <3>2. \A c : IF /\ ByPriority[i] \in M /\ ResSeen(t, ByPriority[i]).status = "active"
                    /\ ResSeen(t, ByPriority[i]).batch = c
                   THEN Claim(ResSeen(t, ByPriority[i]), c) - Claim(Consume(t, M, n)[i], c)
                          = left[i - 1] - left[i]
                   ELSE Claim(Consume(t, M, n)[i], c) <= Claim(ResSeen(t, ByPriority[i]), c)
      BY ConsumeFacts
    <3> QED BY <2>1, <3>1, <3>2
  <2>2. CASE ByPriority[i] \notin M
    <3>1. Consume(t, M, n)[i] = ResSeen(t, ByPriority[i]) /\ left[i] = left[i - 1] /\ left[i] \in Nat
      BY <2>2, ConsumeFacts
    <3>2. Claim(ResSeen(t, ByPriority[i]), b) \in Nat
      BY <1>1, ClaimNat
    <3> QED BY <3>1, <3>2
  <2> QED BY <2>1, <2>2
<1> HIDE DEF m, left
<1>4. \A r \in Res : d[r] \in Int
  <2> SUFFICES ASSUME NEW i \in 1..m PROVE d[ByPriority[i]] \in Int
    BY <1>1
  <2>1. i \in 0..m /\ i - 1 \in 0..m
    BY <1>1
  <2> QED BY <1>2, <1>3, <2>1
<1>5. 0 \in G
  <2>1. Upto(0) = {}
    OBVIOUS
  <2>2. SumOver(d, {}) = 0 /\ IsFiniteSet({})
    BY SumEmpty, FS_EmptySet
  <2>3. SumOver(d, {}) = n - left[0] /\ 0 \in 0..m
    BY <1>1, <1>2, <2>2
  <2> HIDE DEF Upto
  <2> QED BY <2>1, <2>2, <2>3
<1>6. ASSUME NEW i \in 0..m, i \in G, i < m PROVE i + 1 \in G
  <2> DEFINE r == ByPriority[i + 1]
  <2>1. i + 1 \in 1..m /\ (i + 1) - 1 = i /\ i + 1 \in 0..m
    BY <1>1, <1>6
  <2>2. Upto(i + 1) = Upto(i) \cup {r} /\ r \notin Upto(i)
    <3>1. 1..(i + 1) = (1..i) \cup {i + 1} /\ \A j \in 1..i : j # i + 1 /\ j \in 1..m
      BY <1>1, <1>6
    <3> QED BY <1>1, <2>1, <3>1
  <2>3. \A q \in Upto(i) \cup {r} : d[q] \in Int
    <3>1. \A j \in 1..i : j \in 1..m
      BY <1>1, <1>6
    <3> QED BY <1>1, <1>4, <2>1, <3>1
  <2>4. IsFiniteSet(Upto(i)) /\ SumOver(d, Upto(i)) = n - left[i]
    BY <1>6
  <2> HIDE DEF Upto
  <2>5. SumOver(d, Upto(i) \cup {r}) = d[r] + SumOver(d, Upto(i)) /\ IsFiniteSet(Upto(i) \cup {r})
    BY <2>2, <2>3, <2>4, SumAdd, FS_AddElement
  <2>6. d[r] = left[i] - left[i + 1] /\ left[i] \in Nat /\ left[i + 1] \in Nat
    BY <1>2, <1>3, <1>6, <2>1
  <2>7. SumOver(d, Upto(i + 1)) = n - left[i + 1]
    <3>1. SumOver(d, Upto(i + 1)) = d[r] + SumOver(d, Upto(i))
      BY <2>2, <2>5
    <3>2. d[r] + (n - left[i]) = n - left[i + 1]
      BY <2>6
    <3> QED BY <2>4, <3>1, <3>2
  <2> QED BY <2>1, <2>2, <2>5, <2>7
<1>7. 0..m \subseteq G
  <2> HIDE DEF G
  <2> QED BY <1>1, <1>5, <1>6, CountInduction
<1>8. Upto(m) = Res
  BY <1>1
<1>9. SumOver(d, Res) = n - left[m] /\ left[m] \in Nat
  <2>1. m \in G
    BY <1>1, <1>7
  <2> QED BY <1>1, <1>2, <1>8, <2>1
<1> QED BY <1>4, <1>9

----------------------------------------------------------------------------
(* Each step keeps the types and the places. *)

\* Nothing of request u changes.
Aside(u) ==
  /\ at'[u] = at[u] /\ req'[u] = req[u] /\ pos'[u] = pos[u]
  /\ batch'[u] = batch[u] /\ held'[u] = held[u] /\ newIssued'[u] = newIssued[u]
  /\ resDirty'[u] = resDirty[u] /\ resVal'[u] = resVal[u]
  /\ phase'[u] = phase[u] /\ todo'[u] = todo[u] /\ pend'[u] = pend[u]

Steps(t) == Start(t) \/ ReqProgress(t) \/ CrashRequest(t)

\* What the engine's part of a step leaves alone.
LEMMA EngineAside ==
  ASSUME StockTypeOK, NEW t \in Tx, NEW u \in Tx \ {t},
         \/ Begin(t) \/ Find(t) \/ Write(t) \/ Commit(t) \/ Rollback(t)
         \/ (\E s : CallWith(t, s)) \/ UNCHANGED stockVars
  PROVE  phase'[u] = phase[u] /\ todo'[u] = todo[u] /\ pend'[u] = pend[u]
<1>1. CASE Begin(t) \/ Find(t) \/ Write(t)
  BY <1>1 DEF Begin, Find, Write, StockTypeOK
<1>2. CASE Commit(t) \/ Rollback(t)
  BY <1>2 DEF Commit, Rollback, StockTypeOK
<1>3. CASE (\E s : CallWith(t, s)) \/ UNCHANGED stockVars
  BY <1>3 DEF CallWith, stockVars, StockTypeOK
<1> QED BY <1>1, <1>2, <1>3

\* A step of one request leaves the others alone.
LEMMA OthersAside ==
  ASSUME StockTypeOK, ReqTypeOK, NEW t \in Tx, Steps(t), NEW u \in Tx \ {t}
  PROVE  Aside(u)
<1>1. CASE Start(t)
  BY <1>1, EngineAside DEF Start, Aside, ReqTypeOK
<1>2. CASE OpenRequest(t)
  BY <1>2, EngineAside DEF OpenRequest, Aside, ReqTypeOK
<1>3. CASE EngineCall(t)
  BY <1>3, EngineAside DEF EngineCall, resVars, Aside
<1>4. CASE IssueReserved(t) \/ IssueAvailable(t)
  <2>1. \E s : CallWith(t, s)
    BY <1>4 DEF IssueReserved, IssueAvailable
  <2> QED BY <1>4, <2>1, EngineAside DEF IssueReserved, IssueAvailable, Aside, ReqTypeOK
<1>5. CASE EndLine(t)
  <2>1. PICK d, v, n : /\ resDirty' = [resDirty EXCEPT ![t] = d]
                       /\ resVal' = [resVal EXCEPT ![t] = v]
                       /\ newIssued' = [newIssued EXCEPT ![t] = n]
    BY <1>5 DEF EndLine
  <2>2. /\ pos' = [pos EXCEPT ![t] = @ + 1] /\ at' = [at EXCEPT ![t] = "line"]
        /\ UNCHANGED <<stockVars, req, batch, held>>
    BY <1>5 DEF EndLine
  <2> QED BY <2>1, <2>2, EngineAside DEF Aside, ReqTypeOK
<1>6. CASE SettleReservation(t)
  BY <1>6, EngineAside DEF SettleReservation, Aside, ReqTypeOK
<1>7. CASE CommitRequest(t)
  BY <1>7, EngineAside DEF CommitRequest, Forget, Aside, ReqTypeOK
<1>8. CASE IssueRefused(t) \/ CallFails(t) \/ CrashRequest(t)
  <2>1. Rollback(t) /\ Failed(t)
    BY <1>8 DEF IssueRefused, CallFails, CrashRequest, Refuse, UniqueViolation, BreakDeadlock,
         Abort
  <2> QED BY <2>1, EngineAside DEF Failed, Forget, Aside, ReqTypeOK
<1> QED BY <1>1, <1>2, <1>3, <1>4, <1>5, <1>6, <1>7, <1>8 DEF Steps, ReqProgress

LEMMA StageAside ==
  ASSUME NEW u \in Tx, Aside(u), Stage(u)
  PROVE  Stage(u)'
BY DEF Aside, Stage, Settles, Lines, InFlight

\* So it is enough to see to the request that makes the step.
LEMMA ShapeKept ==
  ASSUME StockTypeOK, ShapeInv, NEW t \in Tx, Steps(t), ReqTypeOK', Stage(t)'
  PROVE  ShapeInv'
BY OthersAside, StageAside DEF ShapeInv

LEMMA ShapeInit == ResInit => ShapeInv
<1> SUFFICES ASSUME ResInit PROVE ShapeInv
  OBVIOUS
<1> USE DEF ResInit
<1>1. IsReservation(NoReservation)
  BY DEF IsReservation, NoReservation
<1>2. ReqTypeOK
  BY <1>1, ReservationConstants DEF ReqTypeOK, Places
<1>3. \A t \in Tx : Stage(t)
  BY DEF Stage, StockInit, InFlight, AtWork, Settles
<1> QED BY <1>2, <1>3 DEF ShapeInv

LEMMA StartShape ==
  ASSUME StockTypeOK, ShapeInv, NEW t \in Tx, Start(t)
  PROVE  ReqTypeOK' /\ Stage(t)'
<1> USE DEF ShapeInv
<1>0. PICK c \in Call0[t] : \E b \in Admits(c) :
        /\ req' = [req EXCEPT ![t] = c]
        /\ batch' = [batch EXCEPT ![t] = b]
        /\ held' = [held EXCEPT ![t] = IF c.op = "release" THEN res[c.res].qty ELSE 0]
  BY DEF Start
<1>1. PICK b \in Admits(c) :
        /\ req' = [req EXCEPT ![t] = c]
        /\ batch' = [batch EXCEPT ![t] = b]
        /\ held' = [held EXCEPT ![t] = IF c.op = "release" THEN res[c.res].qty ELSE 0]
  BY <1>0
<1>2. /\ at[t] = "idle" /\ at' = [at EXCEPT ![t] = "checked"]
      /\ UNCHANGED <<stockVars, resTables, pos, resVal, resDirty, newIssued>>
  BY DEF Start
<1>3. IsCall(c)
  BY CallConstants
<1>4. /\ c.op \in {"reserve", "release"} => b \in Batch
      /\ b \in Batch \cup {NoBatch}
      /\ c.op = "release" => res[c.res].qty \in Nat
  <2>1. CASE c.op = "reserve"
    BY <1>1, <1>3, <2>1 DEF Admits, IsCall, FirstPick
  <2>2. CASE c.op = "release"
    BY <1>1, <1>3, <2>2 DEF Admits, IsCall, ReqTypeOK, IsReservation
  <2>3. CASE c.op \in {"issue", "ship"}
    BY <1>1, <1>3, <2>3 DEF Admits
  <2> QED BY <1>3, <2>1, <2>2, <2>3 DEF IsCall
<1>5. ReqTypeOK'
  <2>1. /\ DOMAIN req' = Tx /\ batch' \in [Tx -> Batch \cup {NoBatch}]
        /\ held' \in [Tx -> Nat] /\ at' \in [Tx -> Places]
    BY <1>1, <1>2, <1>4 DEF ReqTypeOK, Places
  <2> QED BY <1>2, <2>1 DEF ReqTypeOK, resTables
<1>6. /\ req'[t] = c /\ batch'[t] = b /\ at'[t] = "checked" /\ pos' = pos /\ resDirty' = resDirty
      /\ phase' = phase /\ todo' = todo
  BY <1>1, <1>2 DEF ReqTypeOK, stockVars
<1>7. Stage(t)'
  BY <1>2, <1>4, <1>6 DEF Stage, Settles, InFlight, AtWork, Lines
<1> QED BY <1>5, <1>7

LEMMA OpenShape ==
  ASSUME StockTypeOK, ShapeInv, NEW t \in Tx, OpenRequest(t)
  PROVE  ReqTypeOK' /\ Stage(t)'
<1> USE DEF ShapeInv
<1>1. /\ at[t] = "checked" /\ Begin(t) /\ todo'[t] = FirstCalls(t)
      /\ at' = [at EXCEPT ![t] = IF req[t].op = "issue" THEN "line" ELSE "calls"]
      /\ UNCHANGED <<resTables, req, batch, held, pos, resVal, resDirty, newIssued>>
  BY DEF OpenRequest
<1>2. ReqTypeOK'
  BY <1>1 DEF ReqTypeOK, resTables, Places
<1>3. phase'[t] = "find" /\ at'[t] = IF req[t].op = "issue" THEN "line" ELSE "calls"
  BY <1>1 DEF Begin, StockTypeOK, ReqTypeOK
<1>4. req[t].op = "issue" => todo'[t] = <<>> /\ Len(Lines(t)) \in Nat
  <2>1. req[t] \in Call0[t]
    BY <1>1 DEF Stage
  <2>2. IsCall(req[t])
    BY <2>1, CallConstants
  <2> QED BY <1>1, <2>2 DEF FirstCalls, IsCall, Lines
<1>5. Stage(t)'
  <2>1. Stage(t) /\ req' = req /\ pos' = pos /\ resDirty' = resDirty /\ batch' = batch
    BY <1>1
  <2>2. pos[t] = 0 /\ resDirty[t] = {}
    BY <1>1, <2>1 DEF Stage, AtWork
  <2> QED BY <1>1, <1>3, <1>4, <2>1, <2>2 DEF Stage, Settles, InFlight, AtWork, Lines
<1> QED BY <1>2, <1>5

LEMMA EngineShape ==
  ASSUME StockTypeOK, ShapeInv, NEW t \in Tx, EngineCall(t)
  PROVE  ReqTypeOK' /\ Stage(t)'
<1> USE DEF ShapeInv
<1>1. (Find(t) \/ Write(t)) /\ UNCHANGED resVars
  BY DEF EngineCall
<1>2. ReqTypeOK'
  BY <1>1 DEF ReqTypeOK, resVars
<1>3. InFlight(t) /\ InFlight(t)' /\ (phase[t] # "find" \/ todo[t] # <<>>)
  BY <1>1 DEF Find, Write, InFlight, StockTypeOK
<1>4. /\ at' = at /\ req' = req /\ pos' = pos /\ resDirty' = resDirty /\ batch' = batch
  BY <1>1 DEF resVars
<1>5. at[t] \notin {"idle", "checked", "line", "settled"}
  BY <1>3 DEF Stage, InFlight
<1>6. Stage(t)'
  BY <1>3, <1>4, <1>5 DEF Stage, Settles, AtWork, Lines
<1> QED BY <1>2, <1>6

LEMMA IssueShape ==
  ASSUME StockTypeOK, ShapeInv, NEW t \in Tx, IssueReserved(t) \/ IssueAvailable(t)
  PROVE  ReqTypeOK' /\ Stage(t)'
<1> USE DEF ShapeInv
<1>1. PICK a \in {"reserved", "available"} : at' = [at EXCEPT ![t] = a]
  BY DEF IssueReserved, IssueAvailable
<1>2. /\ AtLine(t) /\ phase' = phase
      /\ UNCHANGED <<resTables, req, batch, held, pos, resVal, resDirty, newIssued>>
  BY DEF IssueReserved, IssueAvailable, CallWith
<1>3. ReqTypeOK'
  BY <1>1, <1>2 DEF ReqTypeOK, resTables, Places
<1>4. at'[t] = a /\ at[t] = "line" /\ phase[t] = "find" /\ pos[t] < Len(Lines(t))
  BY <1>1, <1>2 DEF AtLine, ReqTypeOK
<1>5. Stage(t)'
  BY <1>2, <1>4 DEF Stage, Settles, InFlight, AtWork, Lines
<1> QED BY <1>3, <1>5

\* The line an issue is at.
LEMMA LineFacts ==
  ASSUME ShapeInv, NEW t \in Tx, at[t] \in AtWork
  PROVE  /\ Lines(t) \in Seq([batch : Batch, qty : Nat]) /\ pos[t] \in Nat
         /\ pos[t] < Len(Lines(t)) =>
              /\ pos[t] + 1 \in DOMAIN Lines(t)
              /\ Lines(t)[pos[t] + 1].batch \in Batch /\ Lines(t)[pos[t] + 1].qty \in Nat
         /\ Lines(t) # <<>>
         /\ req[t].request \in Request \cup {NoRequest}
<1>1. req[t] \in Call0[t] /\ req[t].op = "issue" /\ pos[t] \in Nat
  BY DEF ShapeInv, Stage, ReqTypeOK, AtWork
<1>2. IsCall(req[t])
  BY <1>1, CallConstants
<1>3. /\ Lines(t) \in Seq([batch : Batch, qty : Nat]) /\ Lines(t) # <<>>
      /\ req[t].request \in Request \cup {NoRequest}
  BY <1>1, <1>2 DEF IsCall, Lines
<1>4. ASSUME pos[t] < Len(Lines(t))
      PROVE  pos[t] + 1 \in DOMAIN Lines(t) /\ Lines(t)[pos[t] + 1] \in [batch : Batch, qty : Nat]
  <2> DEFINE X == [batch : Batch, qty : Nat]
             ls == Lines(t)
  <2>1. ls \in Seq(X) /\ pos[t] \in Nat /\ pos[t] < Len(ls)
    BY <1>1, <1>3, <1>4
  <2> HIDE DEF X, ls
  <2>2. pos[t] + 1 \in DOMAIN ls /\ ls[pos[t] + 1] \in X
    BY <2>1
  <2> QED BY <2>2 DEF X, ls
<1> QED BY <1>1, <1>3, <1>4

LEMMA SeenIsReservation ==
  ASSUME ReqTypeOK, NEW t \in Tx, NEW r \in Res
  PROVE  IsReservation(ResSeen(t, r))
BY DEF ReqTypeOK, ResSeen

\* What EndLine makes of a reservation: what Consume does, of those that match.
LEMMA EndLineFacts ==
  ASSUME ShapeInv, NEW t \in Tx, EndLine(t)
  PROVE  LET l == Lines(t)[pos[t] + 1]
             M == IF at[t] = "reserved" THEN Matching(t, l.batch) ELSE {}
         IN  \E C \in SUBSET M :
               /\ \A r \in C : ResFree(t, r) /\ ResSeen(t, r).status = "active"
               /\ resDirty' = [resDirty EXCEPT ![t] = @ \cup C]
               /\ resVal'[t] \in [Res -> {resVal'[t][r] : r \in Res}]
               /\ \A r \in Res \ C : resVal'[t][r] = resVal[t][r]
               /\ \A i \in 1..Len(ByPriority) :
                    /\ ByPriority[i] \in C =>
                         resVal'[t][ByPriority[i]] = Consume(t, M, l.qty)[i]
                    /\ ByPriority[i] \in M \ C =>
                         Consume(t, M, l.qty)[i] = ResSeen(t, ByPriority[i])
<1> DEFINE l == Lines(t)[pos[t] + 1]
           M == IF at[t] = "reserved" THEN Matching(t, l.batch) ELSE {}
           after == Consume(t, M, l.qty)
           C == {r \in M : \E i \in DOMAIN ByPriority :
                             ByPriority[i] = r /\ after[i] # ResSeen(t, r)}
<1>1. /\ \A r \in C : ResFree(t, r)
      /\ resDirty' = [resDirty EXCEPT ![t] = @ \cup C]
      /\ resVal' = [resVal EXCEPT ![t] = [r \in Res |->
           IF r \in C THEN after[CHOOSE i \in DOMAIN ByPriority : ByPriority[i] = r]
                      ELSE @[r]]]
  BY DEF EndLine
<1>2. /\ DOMAIN ByPriority = 1..Len(ByPriority)
      /\ \A i, j \in DOMAIN ByPriority : ByPriority[i] = ByPriority[j] => i = j
      /\ \A i \in DOMAIN ByPriority : ByPriority[i] \in Res
  BY ReservationConstants
<1>3. \A r \in M : r \in Res /\ ResSeen(t, r).status = "active"
  BY DEF Matching
<1> HIDE DEF M, after
<1>4. resVal'[t] = [r \in Res |->
        IF r \in C THEN after[CHOOSE i \in DOMAIN ByPriority : ByPriority[i] = r]
                   ELSE resVal[t][r]]
  BY <1>1 DEF ShapeInv, ReqTypeOK
<1>5. ASSUME NEW i \in 1..Len(ByPriority)
      PROVE  /\ ByPriority[i] \in C => resVal'[t][ByPriority[i]] = after[i]
             /\ ByPriority[i] \in M \ C => after[i] = ResSeen(t, ByPriority[i])
  <2>1. (CHOOSE j \in DOMAIN ByPriority : ByPriority[j] = ByPriority[i]) = i
    BY <1>2
  <2> QED BY <1>2, <1>4, <2>1
<1>6. /\ \A r \in Res \ C : resVal'[t][r] = resVal[t][r]
      /\ resVal'[t] \in [Res -> {resVal'[t][r] : r \in Res}]
  BY <1>4
<1>7. C \in SUBSET M
  OBVIOUS
<1> HIDE DEF C
<1>8. \E D \in SUBSET M :
        /\ \A r \in D : ResFree(t, r) /\ ResSeen(t, r).status = "active"
        /\ resDirty' = [resDirty EXCEPT ![t] = @ \cup D]
        /\ resVal'[t] \in [Res -> {resVal'[t][r] : r \in Res}]
        /\ \A r \in Res \ D : resVal'[t][r] = resVal[t][r]
        /\ \A i \in 1..Len(ByPriority) :
             /\ ByPriority[i] \in D => resVal'[t][ByPriority[i]] = after[i]
             /\ ByPriority[i] \in M \ D => after[i] = ResSeen(t, ByPriority[i])
  <2> WITNESS C \in SUBSET M
  <2> QED BY <1>1, <1>3, <1>5, <1>6, <1>7
<1> QED BY <1>8 DEF M, after

LEMMA EndLineShape ==
  ASSUME StockTypeOK, ShapeInv, NEW t \in Tx, EndLine(t)
  PROVE  ReqTypeOK' /\ Stage(t)'
<1> USE DEF ShapeInv
<1> DEFINE l == Lines(t)[pos[t] + 1]
           M == IF at[t] = "reserved" THEN Matching(t, l.batch) ELSE {}
<1>1. /\ at[t] \in {"reserved", "available"} /\ phase[t] = "find" /\ todo[t] = <<>>
      /\ pos' = [pos EXCEPT ![t] = @ + 1] /\ at' = [at EXCEPT ![t] = "line"]
      /\ newIssued' = [newIssued EXCEPT ![t] =
           IF req[t].request = NoRequest THEN 0 ELSE IssuedSeen(t) + l.qty]
      /\ UNCHANGED <<stockVars, resTables, req, batch, held>>
  BY DEF EndLine
<1>2. /\ pos[t] < Len(Lines(t)) /\ l.qty \in Nat /\ pos[t] \in Nat /\ Len(Lines(t)) \in Nat
      /\ req[t].request \in Request \cup {NoRequest}
  <2>1. at[t] \in AtWork /\ pos[t] < Len(Lines(t))
    BY <1>1 DEF AtWork, Stage
  <2> QED BY <2>1, LineFacts
<1>3. PICK C \in SUBSET M :
        /\ \A r \in C : ResFree(t, r) /\ ResSeen(t, r).status = "active"
        /\ resDirty' = [resDirty EXCEPT ![t] = @ \cup C]
        /\ resVal'[t] \in [Res -> {resVal'[t][r] : r \in Res}]
        /\ \A r \in Res \ C : resVal'[t][r] = resVal[t][r]
        /\ \A i \in 1..Len(ByPriority) :
             /\ ByPriority[i] \in C => resVal'[t][ByPriority[i]] = Consume(t, M, l.qty)[i]
             /\ ByPriority[i] \in M \ C => Consume(t, M, l.qty)[i] = ResSeen(t, ByPriority[i])
  BY EndLineFacts
<1>4. M \subseteq Res
  BY DEF Matching
<1> HIDE DEF M, l
<1>5. \A r \in Res : IsReservation(resVal'[t][r])
  <2> SUFFICES ASSUME NEW r \in Res, r \in C PROVE IsReservation(resVal'[t][r])
    BY <1>3 DEF ReqTypeOK
  <2>1. PICK i \in 1..Len(ByPriority) : ByPriority[i] = r
    <3>1. ByPriority \in Seq(Res) /\ \E i \in DOMAIN ByPriority : ByPriority[i] = r
      BY ReservationConstants
    <3> QED BY <3>1
  <2>2. IsReservation(Consume(t, M, l.qty)[i])
    BY <1>2, SeenIsReservation, ConsumeFacts DEF Reduced, l
  <2> QED BY <1>3, <2>1, <2>2
<1>6. /\ newIssued' \in [Tx -> Nat] /\ pos' \in [Tx -> Nat] /\ at' \in [Tx -> Places]
      /\ resDirty' \in [Tx -> SUBSET Res]
  <2>1. IF req[t].request = NoRequest THEN TRUE ELSE IssuedSeen(t) + l.qty \in Nat
    BY <1>2 DEF IssuedSeen, ReqTypeOK, l
  <2> QED BY <1>1, <1>2, <1>3, <1>4, <2>1 DEF ReqTypeOK, Places, l
<1>7. ReqTypeOK'
  <2>1. DOMAIN resVal' = Tx /\ \A u \in Tx \ {t} : resVal'[u] = resVal[u]
    BY DEF EndLine, ReqTypeOK
  <2>2. \A u \in Tx : DOMAIN resVal'[u] = Res /\ \A r \in Res : IsReservation(resVal'[u][r])
    BY <1>3, <1>5, <2>1 DEF ReqTypeOK
  <2>3. /\ DOMAIN req' = Tx /\ batch' \in [Tx -> Batch \cup {NoBatch}] /\ held' \in [Tx -> Nat]
        /\ \A r \in Res : IsReservation(res'[r])
        /\ issued' \in [Request -> Nat] /\ shipped' \subseteq Order
    BY <1>1 DEF ReqTypeOK, resTables
  <2> QED BY <1>6, <2>1, <2>2, <2>3 DEF ReqTypeOK
<1>8. /\ at'[t] = "line" /\ pos'[t] = pos[t] + 1 /\ req' = req /\ phase' = phase /\ todo' = todo
  BY <1>1 DEF ReqTypeOK, stockVars
<1>9. Stage(t)'
  BY <1>1, <1>2, <1>8 DEF Stage, Settles, InFlight, AtWork, Lines
<1> QED BY <1>7, <1>9

LEMMA SettleShape ==
  ASSUME StockTypeOK, ShapeInv, NEW t \in Tx, SettleReservation(t)
  PROVE  ReqTypeOK' /\ Stage(t)'
<1> USE DEF ShapeInv
<1> DEFINE r == req[t].res
           x == IF req[t].op = "release" THEN [res[r] EXCEPT !.status = "released"]
                ELSE [status |-> "active", qty |-> req[t].qty, batch |-> batch[t], po |-> req[t].po]
<1>1. /\ at[t] = "calls" /\ phase[t] = "find" /\ todo[t] = <<>> /\ Settles(t)
      /\ resDirty' = [resDirty EXCEPT ![t] = {r}]
      /\ resVal' = [resVal EXCEPT ![t][r] = x]
      /\ at' = [at EXCEPT ![t] = "settled"]
      /\ UNCHANGED <<stockVars, resTables, req, batch, held, pos, newIssued>>
  BY DEF SettleReservation, Settles
<1>2. IsCall(req[t]) /\ batch[t] \in Batch
  <2>1. req[t] \in Call0[t]
    BY <1>1 DEF Stage
  <2> QED BY <1>1, <2>1, CallConstants DEF Stage
<1>3. r \in Res /\ (req[t].op = "reserve" => req[t].qty \in Nat \ {0})
  BY <1>1, <1>2 DEF IsCall, Settles
<1>4. IsReservation(x)
  <2>1. CASE req[t].op = "release"
    <3>1. IsReservation(res[r])
      BY <1>3 DEF ReqTypeOK
    <3>2. res[r] = [status |-> res[r].status, qty |-> res[r].qty, batch |-> res[r].batch,
                    po |-> res[r].po]
      BY <3>1 DEF IsReservation
    <3>3. x = [status |-> "released", qty |-> res[r].qty, batch |-> res[r].batch, po |-> res[r].po]
      BY <2>1, <3>2
    <3> QED BY <3>1, <3>3 DEF IsReservation
  <2>2. CASE req[t].op = "reserve"
    BY <1>2, <1>3, <2>2 DEF IsReservation
  <2> QED BY <1>1, <2>1, <2>2 DEF Settles
<1> HIDE DEF x, r
<1>5. ReqTypeOK'
  <2>1. /\ DOMAIN resVal' = Tx
        /\ \A u \in Tx : DOMAIN resVal'[u] = Res /\ \A q \in Res : IsReservation(resVal'[u][q])
    <3> SUFFICES ASSUME NEW u \in Tx
                 PROVE  DOMAIN resVal'[u] = Res /\ \A q \in Res : IsReservation(resVal'[u][q])
      BY <1>1 DEF ReqTypeOK
    <3>1. resVal'[u] = IF u = t THEN [resVal[u] EXCEPT ![r] = x] ELSE resVal[u]
      BY <1>1 DEF ReqTypeOK
    <3> QED BY <1>4, <3>1 DEF ReqTypeOK
  <2>2. resDirty' \in [Tx -> SUBSET Res] /\ at' \in [Tx -> Places]
    BY <1>1, <1>3 DEF ReqTypeOK, Places
  <2> QED BY <1>1, <2>1, <2>2 DEF ReqTypeOK, resTables
<1>6. at'[t] = "settled" /\ req' = req /\ phase' = phase /\ todo' = todo /\ pos' = pos /\ batch' = batch
  BY <1>1 DEF ReqTypeOK, stockVars
<1>7. Stage(t)'
  BY <1>1, <1>2, <1>6 DEF Stage, Settles, InFlight, AtWork, Lines
<1> QED BY <1>5, <1>7

\* A request that ends forgets what it kept.
LEMMA ForgetFacts ==
  ASSUME ReqTypeOK, NEW t \in Tx, Forget(t)
  PROVE  /\ batch' \in [Tx -> Batch \cup {NoBatch}]
         /\ held' \in [Tx -> Nat] /\ pos' \in [Tx -> Nat] /\ newIssued' \in [Tx -> Nat]
         /\ resDirty' \in [Tx -> SUBSET Res]
         /\ DOMAIN resVal' = Tx
         /\ \A u \in Tx : DOMAIN resVal'[u] = Res /\ \A r \in Res : IsReservation(resVal'[u][r])
         /\ pos'[t] = 0 /\ resDirty'[t] = {}
<1>1. IsReservation(NoReservation)
  BY DEF IsReservation, NoReservation
<1>2. /\ batch' \in [Tx -> Batch \cup {NoBatch}]
      /\ held' \in [Tx -> Nat] /\ pos' \in [Tx -> Nat] /\ newIssued' \in [Tx -> Nat]
      /\ resDirty' \in [Tx -> SUBSET Res]
      /\ pos'[t] = 0 /\ resDirty'[t] = {}
  BY DEF ReqTypeOK, Forget
<1>3. /\ DOMAIN resVal' = Tx
      /\ \A u \in Tx : resVal'[u] = IF u = t THEN [r \in Res |-> NoReservation] ELSE resVal[u]
  BY DEF ReqTypeOK, Forget
<1> QED BY <1>1, <1>2, <1>3 DEF ReqTypeOK

LEMMA CommitShape ==
  ASSUME StockTypeOK, ShapeInv, NEW t \in Tx, CommitRequest(t)
  PROVE  ReqTypeOK' /\ Stage(t)'
<1> USE DEF ShapeInv
<1>1. /\ Commit(t) /\ Forget(t) /\ req' = req /\ Ready(t)
      /\ res' = [r \in Res |-> ResSeen(t, r)]
      /\ issued' = [m \in Request |->
                      IF req[t].op = "issue" /\ req[t].request = m
                        THEN newIssued[t] ELSE issued[m]]
      /\ shipped' = IF req[t].op = "ship" THEN shipped \cup {req[t].order} ELSE shipped
      /\ at' = [at EXCEPT ![t] = "done"]
  BY DEF CommitRequest
<1>2. at[t] # "idle" /\ req[t] \in Call0[t]
  BY <1>1 DEF Ready, Stage
<1>3. ReqTypeOK'
  <2>1. \A r \in Res : IsReservation(res'[r])
    BY <1>1, SeenIsReservation
  <2>2. shipped' \subseteq Order /\ issued' \in [Request -> Nat] /\ at' \in [Tx -> Places]
    <3>1. IsCall(req[t])
      BY <1>2, CallConstants
    <3> QED BY <1>1, <3>1 DEF IsCall, ReqTypeOK, Places
  <2>3. DOMAIN req' = Tx
    BY <1>1 DEF ReqTypeOK
  <2> QED BY <1>1, <2>1, <2>2, <2>3, ForgetFacts DEF ReqTypeOK
<1>4. phase'[t] = "committed" /\ at'[t] = "done" /\ pos'[t] = 0 /\ resDirty'[t] = {}
  BY <1>1, ForgetFacts DEF Commit, StockTypeOK, ReqTypeOK
<1>5. Stage(t)'
  BY <1>1, <1>2, <1>4 DEF Stage, Settles, InFlight, AtWork
<1> QED BY <1>3, <1>5

\* Every other end is a rollback.
LEMMA FailureFacts ==
  ASSUME NEW t \in Tx, IssueRefused(t) \/ CallFails(t) \/ CrashRequest(t)
  PROVE  /\ Rollback(t) /\ at' = [at EXCEPT ![t] = "failed"] /\ Forget(t)
         /\ UNCHANGED <<resTables, req>> /\ (InFlight(t) \/ Deadlocked(t))
BY DEF IssueRefused, AtLine, CallFails, CrashRequest, Refuse, UniqueViolation, BreakDeadlock,
   Abort, Failed, InFlight

LEMMA FailureShape ==
  ASSUME StockTypeOK, ShapeInv, NEW t \in Tx, IssueRefused(t) \/ CallFails(t) \/ CrashRequest(t)
  PROVE  ReqTypeOK' /\ Stage(t)'
<1> USE DEF ShapeInv
<1>1. /\ Rollback(t) /\ at' = [at EXCEPT ![t] = "failed"] /\ Forget(t)
      /\ UNCHANGED <<resTables, req>> /\ InFlight(t)
  BY FailureFacts DEF Deadlocked, Blockers, InFlight
<1>2. ReqTypeOK'
  <2>1. /\ DOMAIN req' = Tx /\ at' \in [Tx -> Places]
        /\ issued' \in [Request -> Nat] /\ shipped' \subseteq Order
        /\ \A r \in Res : IsReservation(res'[r])
    BY <1>1 DEF ReqTypeOK, Places, resTables
  <2>2. /\ batch' \in [Tx -> Batch \cup {NoBatch}]
        /\ held' \in [Tx -> Nat] /\ pos' \in [Tx -> Nat] /\ newIssued' \in [Tx -> Nat]
        /\ resDirty' \in [Tx -> SUBSET Res]
        /\ DOMAIN resVal' = Tx
        /\ \A u \in Tx : DOMAIN resVal'[u] = Res /\ \A r \in Res : IsReservation(resVal'[u][r])
    BY <1>1, ForgetFacts
  <2> QED BY <2>1, <2>2 DEF ReqTypeOK
<1>3. phase'[t] = "aborted" /\ at'[t] = "failed" /\ pos'[t] = 0 /\ resDirty'[t] = {} /\ req' = req
  BY <1>1, ForgetFacts DEF Rollback, StockTypeOK, ReqTypeOK
<1>4. req[t] \in Call0[t]
  BY <1>1 DEF Stage, InFlight
<1>5. Stage(t)'
  BY <1>3, <1>4 DEF Stage, Settles, InFlight, AtWork
<1> QED BY <1>2, <1>5

LEMMA ShapeStep == StockTypeOK /\ ShapeInv /\ [ResNext]_allVars => ShapeInv'
<1> SUFFICES ASSUME StockTypeOK, ShapeInv, [ResNext]_allVars PROVE ShapeInv'
  OBVIOUS
<1>1. CASE UNCHANGED allVars
  BY <1>1 DEF allVars, ShapeInv, ReqTypeOK, Stage, Settles, InFlight, AtWork, Lines
<1>2. ASSUME NEW t \in Tx, Steps(t) PROVE ShapeInv'
  <2>1. ReqTypeOK' /\ Stage(t)'
    BY <1>2, StartShape, OpenShape, EngineShape, IssueShape, EndLineShape, SettleShape,
       CommitShape, FailureShape DEF Steps, ReqProgress
  <2> QED BY <1>2, <2>1, ShapeKept
<1> QED BY <1>1, <1>2 DEF ResNext, Steps

----------------------------------------------------------------------------
(* A request works on stock as the engine does. *)

\* The engine call of an issue line is one a transaction may make.
LEMMA LineCalls ==
  ASSUME ShapeInv, NEW t \in Tx, AtLine(t)
  PROVE  LET l == Lines(t)[pos[t] + 1]
         IN  {<<Deduct(Reserved[l.batch], l.qty)>>, <<Deduct(Avail[l.batch], l.qty)>>}
               \subseteq Further[t]
<1>1. req[t] \in Call0[t] /\ req[t].op = "issue" /\ pos[t] + 1 \in DOMAIN Lines(t)
  BY LineFacts DEF AtLine, ShapeInv, Stage, AtWork
<1>2. \A i \in DOMAIN req[t].lines :
        {<<Deduct(Avail[req[t].lines[i].batch], req[t].lines[i].qty)>>,
         <<Deduct(Reserved[req[t].lines[i].batch], req[t].lines[i].qty)>>} \subseteq Further[t]
  BY <1>1, CallConstants, Zenon
<1>3. {<<Deduct(Avail[req[t].lines[pos[t] + 1].batch], req[t].lines[pos[t] + 1].qty)>>,
       <<Deduct(Reserved[req[t].lines[pos[t] + 1].batch], req[t].lines[pos[t] + 1].qty)>>}
        \subseteq Further[t]
  BY <1>1, <1>2, Zenon DEF Lines
<1> QED BY <1>3, Zenon DEF Lines

\* A request's step is a step of the engine, or leaves its state alone.
LEMMA RequestStepIsStockStep ==
  ASSUME ShapeInv, [ResNext]_allVars
  PROVE  [StockNext]_stockVars
<1>1. CASE UNCHANGED allVars
  BY <1>1 DEF allVars, stockVars
<1>2. ASSUME NEW t \in Tx, Start(t) \/ EndLine(t) \/ SettleReservation(t)
      PROVE  UNCHANGED stockVars
  BY <1>2 DEF Start, EndLine, SettleReservation
<1>3. ASSUME NEW t \in Tx, IssueReserved(t) \/ IssueAvailable(t)
      PROVE  Call(t)
  BY <1>3, LineCalls DEF IssueReserved, IssueAvailable, AtLine, Call
<1>4. ASSUME NEW t \in Tx,
             \/ OpenRequest(t) \/ EngineCall(t) \/ IssueRefused(t)
             \/ CommitRequest(t) \/ CallFails(t) \/ CrashRequest(t)
      PROVE  Begin(t) \/ Progress(t) \/ Abort(t)
  BY <1>4 DEF OpenRequest, EngineCall, IssueRefused, AtLine, CommitRequest, CallFails,
       CrashRequest, Progress, Abort, InFlight
<1> QED BY <1>1, <1>2, <1>3, <1>4 DEF ResNext, ReqProgress, StockNext

\* The engine's invariants and the shape of the requests.
BaseInv == StockInv /\ ScriptInv /\ AllOrNothing /\ ShapeInv

LEMMA BaseInit == ResInit => BaseInv
BY InvInit, ScriptInit, ShapeInit DEF ResInit, BaseInv

LEMMA BaseStep == BaseInv /\ [ResNext]_allVars => BaseInv'
<1> SUFFICES ASSUME BaseInv, [ResNext]_allVars PROVE BaseInv'
  OBVIOUS
<1>1. [StockNext]_stockVars
  BY RequestStepIsStockStep DEF BaseInv
<1>2. StockInv' /\ ScriptInv' /\ AllOrNothing'
  BY <1>1, InvStep, ScriptStep DEF BaseInv
<1>3. ShapeInv'
  BY ShapeStep DEF BaseInv, StockInv
<1> QED BY <1>2, <1>3 DEF BaseInv

\* Reservations, releases, issues and dispatches change stock only as the
\* stock engine does: ResSpec implements StockSpec.
THEOREM RequestsUseEngine == ResSpec => StockSpec
<1>1. ResInit => StockInit
  BY DEF ResInit
<1>2. BaseInv /\ [ResNext]_allVars => [StockNext]_stockVars
  BY RequestStepIsStockStep DEF BaseInv
<1> QED BY <1>1, <1>2, BaseInit, BaseStep, PTL DEF ResSpec, StockSpec

\* However reservations, releases, issues and dispatches interleave, none of
\* them commits a negative quantity or ledger balance (stock.engine.ts:140).
THEOREM RequestsNeverNegative == ResSpec => []NonNegative
BY RequestsUseEngine, NeverNegative, PTL

\* Every variable keeps its type, and an active reservation is always of some
\* units of a batch, however issues reduce it (reservation.engine.ts:255-271).
THEOREM ReservationsTypeCorrect == ResSpec => []ResTypeOK
<1>1. BaseInv => ResTypeOK
  BY DEF BaseInv, StockInv, ShapeInv, ReqTypeOK, ResTypeOK
<1> QED BY <1>1, BaseInit, BaseStep, PTL DEF ResSpec

----------------------------------------------------------------------------
(* What a material request's line says was issued.  Issues are between     *)
(* their header and their commit one at a time (IssuesTakeTurns), so that  *)
(* what the one underway has added (Adding) is not overtaken by another.   *)

\* What an issue takes for m is the sum of its lines.
LEMMA TakenIs ==
  ASSUME NEW c, IsCall(c), c.op = "issue", NEW m
  PROVE  /\ Taken(c, m) = IF c.request = m THEN SumOver(Quantities(c.lines), 1..Len(c.lines)) ELSE 0
         /\ \A i \in 1..Len(c.lines) : Quantities(c.lines)[i] \in Nat
         /\ Len(c.lines) \in Nat \ {0}
<1> DEFINE X == [batch : Batch, qty : Nat]
           ls == c.lines
<1>1. ls \in Seq(X) /\ ls # <<>>
  BY DEF IsCall
<1> HIDE DEF X, ls
<1>2. DOMAIN ls = 1..Len(ls) /\ Len(ls) \in Nat \ {0} /\ \A i \in 1..Len(ls) : ls[i] \in X
  BY <1>1
<1>3. \A i \in 1..Len(ls) : Quantities(ls)[i] \in Nat
  BY <1>2 DEF Quantities, X
<1> QED BY <1>2, <1>3 DEF Taken, Quantities, ls

LEMMA TakenInt ==
  ASSUME ShapeInv, NEW u \in Tx, at[u] # "idle", NEW m
  PROVE  Taken(req[u], m) \in Int
<1>1. IsCall(req[u])
  BY CallConstants DEF ShapeInv, Stage
<1>2. CASE req[u].op # "issue"
  BY <1>2 DEF Taken
<1>3. CASE req[u].op = "issue"
  <2> DEFINE n == Len(req[u].lines)
             q == Quantities(req[u].lines)
  <2>1. n \in Nat /\ \A i \in 1..n : q[i] \in Nat
    BY <1>1, <1>3, TakenIs
  <2>2. Taken(req[u], m) = IF req[u].request = m THEN SumOver(q, 1..n) ELSE 0
    BY <1>1, <1>3, TakenIs
  <2> HIDE DEF n, q
  <2>3. IsFiniteSet(1..n)
    BY <2>1, FS_Interval
  <2>4. SumOver(q, 1..n) \in Int
    BY <2>1, <2>3, SumInt
  <2> QED BY <2>2, <2>4
<1> QED BY <1>2, <1>3

\* No request becomes posted, and no posted one changes.
LEMMA IssuedKept ==
  ASSUME IssuedAddsUp, issued' = issued,
         \A u \in Tx : (at'[u] = "done" <=> at[u] = "done") /\ (at[u] = "done" => req'[u] = req[u])
  PROVE  IssuedAddsUp'
<1> SUFFICES ASSUME NEW m \in Request
             PROVE  issued'[m] = SumOver([u \in Tx |-> IF at'[u] = "done" THEN Taken(req'[u], m)
                                                       ELSE 0], Tx)
  BY DEF IssuedAddsUp, Taken
<1>1. [u \in Tx |-> IF at'[u] = "done" THEN Taken(req'[u], m) ELSE 0]
        = [u \in Tx |-> IF at[u] = "done" THEN Taken(req[u], m) ELSE 0]
  OBVIOUS
<1> QED BY <1>1 DEF IssuedAddsUp

LEMMA IssueKept ==
  ASSUME StockTypeOK, ShapeInv, IssueInv, NEW t \in Tx, Steps(t), issued' = issued,
         Issuing(t)' => Issuing(t) \/ (\A u \in Tx \ {t} : ~Issuing(u)),
         Adding(t)', at[t] # "done", at'[t] # "done"
  PROVE  IssueInv'
<1>1. \A u \in Tx \ {t} : Aside(u)
  BY OthersAside DEF ShapeInv
<1>2. \A u \in Tx \ {t} : (Issuing(u)' <=> Issuing(u)) /\ Adding(u)'
  BY <1>1 DEF IssueInv, Aside, Adding, Issuing, InFlight, Lines
<1>3. IssuesTakeTurns'
  BY <1>2 DEF IssueInv, IssuesTakeTurns
<1>4. IssuedAddsUp'
  BY <1>1, IssuedKept DEF IssueInv, Aside
<1> QED BY <1>2, <1>3, <1>4 DEF IssueInv

\* One more line is added.
LEMMA EndLineAdds ==
  ASSUME StockTypeOK, ShapeInv, IssueInv, NEW t \in Tx, EndLine(t)
  PROVE  IssueInv'
<1> DEFINE l == Lines(t)[pos[t] + 1]
           q == Quantities(Lines(t))
           n == pos[t]
           m == req[t].request
<1>1. /\ at[t] \in {"reserved", "available"}
      /\ pos' = [pos EXCEPT ![t] = @ + 1] /\ at' = [at EXCEPT ![t] = "line"]
      /\ newIssued' = [newIssued EXCEPT ![t] = IF m = NoRequest THEN 0 ELSE IssuedSeen(t) + l.qty]
      /\ UNCHANGED <<stockVars, resTables, req, batch, held>>
  BY DEF EndLine
<1>2. /\ pos'[t] = n + 1 /\ at'[t] = "line" /\ at[t] # "done" /\ Lines(t)' = Lines(t)
      /\ (m # NoRequest => newIssued'[t] = IssuedSeen(t) + l.qty)
      /\ issued' = issued /\ req' = req /\ phase' = phase
  BY <1>1 DEF ShapeInv, ReqTypeOK, resTables, stockVars, Lines
<1>3. Issuing(t)
  BY <1>1 DEF ShapeInv, Stage, AtWork, Issuing
<1>4. req[t].op = "issue" /\ IsCall(req[t]) /\ n \in Nat /\ n < Len(Lines(t))
  BY <1>1, CallConstants DEF ShapeInv, Stage, AtWork, ReqTypeOK
<1>5. Len(Lines(t)) \in Nat /\ \A i \in 1..Len(Lines(t)) : q[i] \in Nat
  BY <1>4, TakenIs DEF Lines
<1>6. q[n + 1] = l.qty
  BY <1>1, LineFacts, <1>4 DEF AtWork, Quantities
<1> HIDE DEF l, q
<1>7. /\ IsFiniteSet(1..n) /\ 1..(n + 1) = (1..n) \cup {n + 1} /\ n + 1 \notin 1..n
      /\ \A i \in (1..n) \cup {n + 1} : q[i] \in Int
  <2>0. n \in Nat
    BY <1>4
  <2>1. IsFiniteSet(1..n)
    <3> HIDE DEF n
    <3> QED BY <2>0, FS_Interval
  <2>2. \A i \in 1..(n + 1) : i \in 1..Len(Lines(t))
    BY <1>4, <1>5
  <2>3. 1..(n + 1) = (1..n) \cup {n + 1} /\ n + 1 \notin 1..n
    BY <1>4
  <2> QED BY <1>5, <2>1, <2>2, <2>3
<1>8. SumOver(q, 1..(n + 1)) = q[n + 1] + SumOver(q, 1..n) /\ SumOver(q, 1..n) \in Int
  BY <1>7, SumAdd, SumInt
<1>9. m \in Request => IssuedSeen(t) = issued[m] + SumOver(q, 1..n) /\ issued[m] \in Nat
  <2> SUFFICES ASSUME m \in Request
               PROVE  IssuedSeen(t) = issued[m] + SumOver(q, 1..n) /\ issued[m] \in Nat
    OBVIOUS
  <2>1. issued[m] \in Nat
    BY DEF ShapeInv, ReqTypeOK
  <2>2. CASE n = 0
    <3>1. 1..n = {}
      BY <2>2
    <3>2. SumOver(q, 1..n) = 0
      BY <3>1, SumEmpty
    <3> QED BY <2>1, <2>2, <3>2 DEF IssuedSeen
  <2>3. CASE n # 0
    <3>1. n > 0
      BY <1>4, <2>3
    <3> QED BY <1>3, <2>1, <3>1 DEF IssueInv, Adding, IssuedSeen, q
  <2> QED BY <2>2, <2>3
<1>10. Adding(t)'
  <2> SUFFICES ASSUME m \in Request
               PROVE  newIssued'[t] = issued[m] + SumOver(q, 1..(n + 1))
    BY <1>2 DEF Adding, q
  <2>1. m # NoRequest
    BY ReservationConstants
  <2>2. q[n + 1] \in Int
    BY <1>7
  <2> HIDE DEF n, m
  <2> QED BY <1>2, <1>6, <1>8, <1>9, <2>1, <2>2
<1> QED BY <1>2, <1>3, <1>10, IssueKept DEF Steps, ReqProgress

\* A posted issue is counted, and no other has counted on what was issued.
LEMMA CommitAdds ==
  ASSUME StockTypeOK, ShapeInv, IssueInv, NEW t \in Tx, CommitRequest(t)
  PROVE  IssueInv'
<1> DEFINE F(m) == [u \in Tx |-> IF at[u] = "done" THEN Taken(req[u], m) ELSE 0]
           Fn(m) == [u \in Tx |-> IF at'[u] = "done" THEN Taken(req[u], m) ELSE 0]
<1>1. /\ Commit(t) /\ Forget(t) /\ req' = req /\ Ready(t) /\ at' = [at EXCEPT ![t] = "done"]
      /\ issued' = [m \in Request |->
                      IF req[t].op = "issue" /\ req[t].request = m
                        THEN newIssued[t] ELSE issued[m]]
  BY DEF CommitRequest
<1>2. at'[t] = "done" /\ at[t] \notin {"idle", "done"} /\ \A u \in Tx \ {t} : at'[u] = at[u]
  BY <1>1 DEF Ready, ShapeInv, ReqTypeOK
<1>3. ~Issuing(t)' /\ (req[t].op = "issue" => Issuing(t))
  BY <1>1 DEF Issuing, InFlight, Commit, StockTypeOK
<1>4. \A u \in Tx \ {t} : Aside(u)
  BY OthersAside DEF Steps, ReqProgress, ShapeInv
<1>5. \A u \in Tx \ {t} : Issuing(u)' <=> Issuing(u)
  BY <1>4 DEF Aside, Issuing, InFlight
<1>6. IssuesTakeTurns'
  BY <1>3, <1>5 DEF IssueInv, IssuesTakeTurns
<1>7. \A u \in Tx : Adding(u)'
  <2>1. ASSUME NEW u \in Tx \ {t}, Issuing(u), req[u].request \in Request
        PROVE  issued'[req[u].request] = issued[req[u].request]
    <3>1. req[t].op # "issue"
      BY <1>3, <2>1 DEF IssueInv, IssuesTakeTurns
    <3> QED BY <1>1, <2>1, <3>1
  <2> QED BY <1>3, <1>4, <1>5, <2>1 DEF IssueInv, Adding, Aside, Lines
<1>8. ASSUME NEW m \in Request PROVE issued'[m] = issued[m] + Taken(req[t], m)
  <2>1. issued[m] \in Nat
    BY DEF ShapeInv, ReqTypeOK
  <2>2. CASE req[t].op = "issue" /\ req[t].request = m
    <3>1. /\ IsCall(req[t]) /\ at[t] = "line" /\ pos[t] = Len(Lines(t))
      BY <1>1, <1>2, <2>2, CallConstants DEF Ready, ShapeInv, Stage, Settles
    <3>2. pos[t] > 0 /\ Taken(req[t], m) = SumOver(Quantities(Lines(t)), 1..pos[t])
      BY <2>2, <3>1, TakenIs DEF Lines
    <3>3. newIssued[t] = issued[m] + SumOver(Quantities(Lines(t)), 1..pos[t])
      BY <1>3, <2>2, <3>2 DEF IssueInv, Adding
    <3> QED BY <1>1, <2>2, <3>2, <3>3
  <2>3. CASE ~(req[t].op = "issue" /\ req[t].request = m)
    BY <1>1, <2>1, <2>3 DEF Taken
  <2> QED BY <2>2, <2>3
<1>9. ASSUME NEW m \in Request PROVE SumOver(Fn(m), Tx) = SumOver(F(m), Tx) + Taken(req[t], m)
  <2> DEFINE f == F(m)
             g == Fn(m)
  <2>1. \A u \in Tx : at[u] # "idle" => Taken(req[u], m) \in Int
    BY TakenInt
  <2>2. \A u \in Tx : f[u] \in Int /\ g[u] \in Int
    BY <1>2, <2>1
  <2>3. f[t] = 0 /\ g[t] = Taken(req[t], m) /\ \A u \in Tx \ {t} : f[u] = g[u]
    BY <1>2
  <2> HIDE DEF f, g
  <2>4. SumOver(g, Tx) = SumOver(f, Tx) - f[t] + g[t] /\ SumOver(f, Tx) \in Int
    <3>1. IsFiniteSet(Tx)
      BY ReservationConstants
    <3>2. SumOver(f, Tx) \in Int
      BY <2>2, <3>1, SumInt
    <3>3. SumOver(g, Tx) = SumOver(f, Tx) - f[t] + g[t]
      BY <2>2, <2>3, <3>1, SumChange
    <3> QED BY <3>2, <3>3
  <2>5. SumOver(g, Tx) = SumOver(f, Tx) + Taken(req[t], m)
    BY <2>2, <2>3, <2>4
  <2> QED BY <2>5 DEF f, g
<1>10. IssuedAddsUp'
  <2> SUFFICES ASSUME NEW m \in Request PROVE issued'[m] = SumOver(Fn(m), Tx)
    BY <1>1 DEF IssuedAddsUp
  <2>1. issued[m] = SumOver(F(m), Tx)
    BY DEF IssueInv, IssuedAddsUp
  <2> HIDE DEF F, Fn
  <2> QED BY <1>8, <1>9, <2>1
<1> QED BY <1>6, <1>7, <1>10 DEF IssueInv

LEMMA IssueInit == ResInit => IssueInv
<1> SUFFICES ASSUME ResInit PROVE IssueInv
  OBVIOUS
<1>1. \A t \in Tx : at[t] = "idle" /\ ~Issuing(t)
  BY DEF ResInit, StockInit, Issuing, InFlight
<1>2. \A m \in Request :
        SumOver([t \in Tx |-> IF at[t] = "done" THEN Taken(req[t], m) ELSE 0], Tx) = 0
  BY <1>1, SumZero, ReservationConstants
<1> QED BY <1>1, <1>2 DEF IssueInv, IssuesTakeTurns, Adding, IssuedAddsUp, ResInit

LEMMA IssueStep == BaseInv /\ IssueInv /\ [ResNext]_allVars => IssueInv'
<1> SUFFICES ASSUME BaseInv, IssueInv, [ResNext]_allVars PROVE IssueInv'
  OBVIOUS
<1>0. StockTypeOK /\ ShapeInv
  BY DEF BaseInv, StockInv
<1>1. CASE UNCHANGED allVars
  BY <1>1 DEF allVars, IssueInv, IssuesTakeTurns, Issuing, InFlight, Adding, Lines, IssuedAddsUp,
     Taken
<1>2. ASSUME NEW t \in Tx, Start(t) PROVE IssueInv'
  <2>1. /\ at[t] = "idle" /\ at' = [at EXCEPT ![t] = "checked"] /\ phase' = phase
        /\ issued' = issued
    BY <1>2 DEF Start, stockVars, resTables
  <2>2. at[t] # "done" /\ at'[t] # "done" /\ ~Issuing(t)'
    BY <1>0, <2>1 DEF ShapeInv, Stage, ReqTypeOK, Issuing, InFlight
  <2> QED BY <1>0, <1>2, <2>1, <2>2, IssueKept DEF Adding, Steps
<1>3. ASSUME NEW t \in Tx, OpenRequest(t) PROVE IssueInv'
  <2>1. /\ at[t] = "checked" /\ at' = [at EXCEPT ![t] = IF req[t].op = "issue" THEN "line" ELSE "calls"]
        /\ NumberFree(t) /\ issued' = issued /\ pos' = pos /\ req' = req
    BY <1>3 DEF OpenRequest, resTables
  <2>2. at[t] # "done" /\ at'[t] # "done" /\ pos'[t] = 0
    BY <1>0, <2>1 DEF ShapeInv, Stage, ReqTypeOK, AtWork
  <2>3. Issuing(t)' => \A u \in Tx \ {t} : ~Issuing(u)
    BY <2>1 DEF NumberFree, Issuing
  <2>4. Adding(t)'
    BY <2>2 DEF Adding
  <2> QED BY <1>0, <1>3, <2>1, <2>2, <2>3, <2>4, IssueKept DEF Steps, ReqProgress
<1>4. ASSUME NEW t \in Tx,
             EngineCall(t) \/ IssueReserved(t) \/ IssueAvailable(t) \/ SettleReservation(t)
      PROVE  IssueInv'
  <2>1. /\ issued' = issued /\ pos' = pos /\ req' = req /\ newIssued' = newIssued
        /\ InFlight(t) /\ at'[t] # "done"
    <3>1. CASE EngineCall(t)
      <4>1. at' = at /\ InFlight(t)
        BY <3>1 DEF EngineCall, resVars, Find, Write, InFlight
      <4>2. at[t] # "done"
        BY <1>0, <4>1 DEF ShapeInv, Stage, AtWork
      <4> QED BY <3>1, <4>1, <4>2 DEF EngineCall, resVars
    <3>2. CASE IssueReserved(t) \/ IssueAvailable(t)
      BY <1>0, <3>2 DEF IssueReserved, IssueAvailable, resTables, AtLine, InFlight, ShapeInv, ReqTypeOK
    <3>3. CASE SettleReservation(t)
      BY <1>0, <3>3 DEF SettleReservation, resTables, InFlight, ShapeInv, ReqTypeOK
    <3> QED BY <1>4, <3>1, <3>2, <3>3
  <2>2. at[t] # "done"
    BY <1>0, <2>1 DEF ShapeInv, Stage, AtWork
  <2>3. Issuing(t)' => Issuing(t)
    BY <2>1 DEF Issuing
  <2>4. Adding(t)'
    BY <2>1, <2>3 DEF IssueInv, Adding, Lines
  <2> QED BY <1>0, <1>4, <2>1, <2>2, <2>3, <2>4, IssueKept DEF Steps, ReqProgress
<1>5. ASSUME NEW t \in Tx, IssueRefused(t) \/ CallFails(t) \/ CrashRequest(t) PROVE IssueInv'
  <2>1. /\ Rollback(t) /\ at' = [at EXCEPT ![t] = "failed"] /\ issued' = issued
        /\ InFlight(t)
    BY <1>5, FailureFacts DEF Deadlocked, Blockers, InFlight, resTables
  <2>2. at[t] # "done" /\ at'[t] # "done" /\ ~Issuing(t)'
    BY <1>0, <2>1 DEF ShapeInv, Stage, AtWork, ReqTypeOK, Issuing, InFlight, Rollback, StockTypeOK
  <2> QED BY <1>0, <1>5, <2>1, <2>2, IssueKept DEF Adding, Steps, ReqProgress
<1>6. ASSUME NEW t \in Tx, EndLine(t) \/ CommitRequest(t) PROVE IssueInv'
  BY <1>0, <1>6, EndLineAdds, CommitAdds
<1> QED BY <1>1, <1>2, <1>3, <1>4, <1>5, <1>6 DEF ResNext, ReqProgress

\* However issues, crashes and refusals interleave, the issued quantity of a
\* material request's line is what the posted issues took for it
\* (issue.service.ts:328-341).
THEOREM IssuesAddUp == ResSpec => []IssuedAddsUp
<1>1. BaseInv /\ IssueInv => IssuedAddsUp
  BY DEF IssueInv
<1> QED BY <1>1, BaseInit, BaseStep, IssueInit, IssueStep, PTL DEF ResSpec

----------------------------------------------------------------------------
(* What is reserved is claimed.  For each open transaction, what it has    *)
(* booked on a batch's reserved stock and is about to book is no more than *)
(* what it has changed of the claims, up to what its calls owe (Balanced). *)

LEMMA BalanceTypes ==
  ASSUME StockTypeOK, ShapeInv, NEW t \in Tx, NEW b
  PROVE  /\ \A r \in Res : Claim(ResSeen(t, r), b) \in Nat /\ Claim(res[r], b) \in Nat
         /\ \A r \in Res : Changes(t, b)[r] \in Int
         /\ Change(t, b) \in Int
         /\ Booked(pend[t], Reserved[b]) \in Int
         /\ Due(todo[t], Reserved[b]) \in Int
<1>1. \A r \in Res : Claim(ResSeen(t, r), b) \in Nat /\ Claim(res[r], b) \in Nat
  BY SeenIsReservation, ClaimNat DEF ShapeInv, ReqTypeOK
<1>2. \A r \in Res : Changes(t, b)[r] \in Int
  BY <1>1 DEF Changes
<1>3. Change(t, b) \in Int
  <2>1. IsFiniteSet(Res)
    BY ReservationConstants
  <2> QED BY <1>2, <2>1, SumInt DEF Change
<1>4. Booked(pend[t], Reserved[b]) \in Int
  <2>1. pend[t] \in Seq(Entry)
    BY DEF StockTypeOK
  <2> QED BY <2>1, BookedInt
<1>5. Due(todo[t], Reserved[b]) \in Int
  <2>1. todo[t] \in Seq(Op)
    BY DEF StockTypeOK
  <2>2. todo[t] = <<>> \/ todo[t] # <<>>
    OBVIOUS
  <2> QED BY <2>1, <2>2, DueEmpty, DueTail
<1> QED BY <1>1, <1>2, <1>3, <1>4, <1>5

\* A transaction that has written no reservation has changed no claim.
LEMMA NothingChanged ==
  ASSUME StockTypeOK, ShapeInv, NEW t \in Tx, resDirty[t] = {}, NEW b
  PROVE  Change(t, b) = 0 /\ \A r \in Res : Changes(t, b)[r] = 0
<1>1. ASSUME NEW r \in Res PROVE Changes(t, b)[r] = 0
  <2>1. ResSeen(t, r) = res[r]
    BY DEF ResSeen
  <2>2. Claim(res[r], b) \in Nat
    BY BalanceTypes
  <2>3. Changes(t, b)[r] = Claim(ResSeen(t, r), b) - Claim(res[r], b)
    BY DEF Changes
  <2> QED BY <2>1, <2>2, <2>3
<1> QED BY <1>1, SumZero, ReservationConstants DEF Change

\* What a request that does not commit keeps of the claims.
LEMMA ClaimKept ==
  ASSUME StockTypeOK, ShapeInv, ClaimInv, NEW t \in Tx, Steps(t),
         res' = res, ledger' = ledger, at[t] # "done",
         \A r \in resDirty'[t] : r \in resDirty[t] \/ ResFree(t, r),
         Wears(t)', HeldEnough(t)', Balanced(t)'
  PROVE  ClaimInv'
<1>1. \A u \in Tx \ {t} : Aside(u)
  BY OthersAside DEF ShapeInv
<1>2. ResLocks'
  BY <1>1 DEF ClaimInv, ResLocks, ResFree, Aside
<1>3. Unborn'
  BY <1>1 DEF ClaimInv, Unborn, Aside
<1>4. ASSUME NEW u \in Tx \ {t} PROVE Wears(u)' /\ HeldEnough(u)' /\ Balanced(u)'
  <2>1. Aside(u) /\ Wears(u) /\ HeldEnough(u) /\ Balanced(u)
    BY <1>1 DEF ClaimInv
  <2>2. Wears(u)' /\ HeldEnough(u)'
    BY <2>1 DEF Aside, Wears, HeldEnough
  <2>3. \A b : Change(u, b)' = Change(u, b) /\ Owed(u, b)' = Owed(u, b)
    BY <2>1 DEF Aside, Change, Changes, ResSeen, Owed, Lines
  <2>4. (InFlight(u)' <=> InFlight(u)) /\ pend'[u] = pend[u] /\ todo'[u] = todo[u]
    BY <2>1 DEF Aside, InFlight
  <2>5. Balanced(u)'
    BY <2>1, <2>3, <2>4 DEF Balanced, Booked, EntriesFor, Due, DueFor
  <2> QED BY <2>2, <2>5
<1>5. ReservedIsClaimed'
  BY DEF ClaimInv, ReservedIsClaimed, OnHandByLedger, Booked, EntriesFor, Claimed
<1> QED BY <1>2, <1>3, <1>4, <1>5 DEF ClaimInv

LEMMA ClaimInit == ResInit => ClaimInv
<1> SUFFICES ASSUME ResInit PROVE ClaimInv
  OBVIOUS
<1>1. /\ res = Reservation0 /\ ledger = <<>>
      /\ \A t \in Tx : at[t] = "idle" /\ phase[t] = "idle" /\ resDirty[t] = {}
  BY DEF ResInit, StockInit
<1>2. ResLocks /\ Unborn
  BY <1>1, CallConstants DEF ResLocks, Unborn
<1>3. \A t \in Tx : Wears(t) /\ HeldEnough(t) /\ Balanced(t)
  BY <1>1 DEF Wears, HeldEnough, Balanced, InFlight
<1>4. ReservedIsClaimed
  <2> SUFFICES ASSUME NEW b \in Batch PROVE OnHandByLedger(Reserved[b]) <= Claimed(b)
    BY DEF ReservedIsClaimed
  <2> DEFINE S == {r \in OpeningRow : KeyOf[r] = Reserved[b]}
  <2>1. IsFiniteSet(S) /\ \A r \in S : Opening[r] \in Int
    BY FS_Subset, ReservationConstants, StockConstants
  <2> HIDE DEF S
  <2>2. SumOver(Opening, S) \in Int
    BY <2>1, SumInt
  <2>3. OnHandByLedger(Reserved[b]) = SumOver(Opening, S) + 0
    BY <1>1, BookedEmpty DEF OnHandByLedger, S
  <2>4. SumOver(Opening, S) <= Claimed(b)
    BY <1>1, OpeningIsClaimed DEF Claimed, S
  <2> QED BY <2>2, <2>3, <2>4
<1> QED BY <1>2, <1>3, <1>4 DEF ClaimInv

\* A release has read a quantity that covers what its reservation claims.
LEMMA StartClaims ==
  ASSUME StockTypeOK, ShapeInv, ClaimInv, NEW t \in Tx, Start(t)
  PROVE  ClaimInv'
<1>1. /\ at[t] = "idle" /\ at' = [at EXCEPT ![t] = "checked"] /\ res' = res /\ ledger' = ledger
      /\ phase' = phase /\ resDirty' = resDirty
  BY DEF Start, stockVars, resTables
<1>2. phase[t] = "idle" /\ resDirty[t] = {}
  BY <1>1 DEF ShapeInv, Stage, AtWork
<1>3. HeldEnough(t)'
  <2>1. PICK c \in Call0[t] : \E b \in Admits(c) :
          /\ req' = [req EXCEPT ![t] = c]
          /\ batch' = [batch EXCEPT ![t] = b]
          /\ held' = [held EXCEPT ![t] = IF c.op = "release" THEN res[c.res].qty ELSE 0]
    BY DEF Start
  <2>2. PICK b \in Admits(c) :
          /\ req' = [req EXCEPT ![t] = c]
          /\ batch' = [batch EXCEPT ![t] = b]
          /\ held' = [held EXCEPT ![t] = IF c.op = "release" THEN res[c.res].qty ELSE 0]
    BY <2>1
  <2>3. /\ req'[t] = c /\ batch'[t] = b
        /\ held'[t] = IF c.op = "release" THEN res[c.res].qty ELSE 0
    BY <2>2 DEF ShapeInv, ReqTypeOK
  <2> SUFFICES ASSUME c.op = "release"
               PROVE  /\ res[c.res].status # "none" /\ res[c.res].batch = b
                      /\ res[c.res].qty <= res[c.res].qty
    BY <1>1, <2>3 DEF HeldEnough
  <2>4. c.res \in Res
    BY CallConstants DEF IsCall
  <2>5. res[c.res].qty \in Nat
    BY <2>4 DEF ShapeInv, ReqTypeOK, IsReservation
  <2>6. Admits(c) = {x \in {res[c.res].batch} : /\ res[c.res].status = "active"
                                     /\ RowsWith(Reserved[x], res[c.res].qty) # {}}
    BY DEF Admits
  <2>7. b = res[c.res].batch /\ res[c.res].status = "active"
    BY <2>2, <2>6
  <2> QED BY <2>5, <2>7
<1> QED BY <1>1, <1>2, <1>3, ClaimKept DEF Wears, Balanced, InFlight, Steps

LEMMA FailureClaims ==
  ASSUME StockTypeOK, ShapeInv, ClaimInv, NEW t \in Tx,
         IssueRefused(t) \/ CallFails(t) \/ CrashRequest(t)
  PROVE  ClaimInv'
<1>1. /\ Rollback(t) /\ at' = [at EXCEPT ![t] = "failed"] /\ Forget(t)
      /\ res' = res /\ InFlight(t)
  BY FailureFacts DEF Deadlocked, Blockers, InFlight, resTables
<1>2. /\ at[t] # "done" /\ at'[t] = "failed" /\ resDirty'[t] = {} /\ ~InFlight(t)'
      /\ ledger' = ledger
  BY <1>1, ForgetFacts DEF ShapeInv, Stage, AtWork, ReqTypeOK, InFlight, Rollback, StockTypeOK,
     tableVars
<1> QED BY <1>1, <1>2, ClaimKept DEF Wears, HeldEnough, Balanced, Steps, ReqProgress

\* The requests' first calls leave what they owe to be settled.
LEMMA FirstCallsOwe ==
  ASSUME StockTypeOK, ShapeInv, NEW t \in Tx, at[t] = "checked", NEW b \in Batch
  PROVE  LET owed == CASE req[t].op = "reserve" /\ batch[t] = b -> -req[t].qty
                       [] req[t].op = "release" /\ batch[t] = b -> held[t]
                       [] OTHER -> 0
         IN  Due(FirstCalls(t), Reserved[b]) + owed = 0
<1> DEFINE a == batch[t]
<1>1. IsCall(req[t]) /\ (Settles(t) => a \in Batch) /\ held[t] \in Nat
  BY CallConstants DEF ShapeInv, Stage, ReqTypeOK
<1>2. /\ \A c \in Batch : Avail[c] \in Key /\ Reserved[c] \in Key
      /\ \A c, d \in Batch : Avail[c] # Reserved[d] /\ (c # d => Reserved[c] # Reserved[d])
  BY ReservationConstants
<1> DEFINE j == Avail[a]
           k == Reserved[a]
           l == Reserved[b]
<1>0. Settles(t) => j \in Key /\ k \in Key /\ j # k /\ l # j /\ (l = k <=> a = b)
  BY <1>1, <1>2
<1> HIDE DEF j, k, l
<1>3. CASE req[t].op = "reserve"
  <2>1. FirstCalls(t) = Move(j, k, req[t].qty)
    BY <1>3 DEF FirstCalls, j, k
  <2>2. a \in Batch /\ req[t].qty \in Int
    BY <1>1, <1>3 DEF Settles, IsCall
  <2>3. Settles(t)
    BY <1>3 DEF Settles
  <2> DEFINE q == req[t].qty
  <2> HIDE DEF a, q
  <2>4. /\ Due(Move(j, k, q), j) = -q /\ Due(Move(j, k, q), k) = q
        /\ \A x : x \notin {j, k} => Due(Move(j, k, q), x) = 0
    <3>1. j \in Key /\ k \in Key /\ j # k /\ q \in Int
      BY <1>0, <2>2, <2>3 DEF q
    <3> QED BY <3>1, DueMove
  <2>5. Due(FirstCalls(t), l) = IF a = b THEN req[t].qty ELSE 0
    BY <1>0, <2>1, <2>3, <2>4 DEF q
  <2> QED BY <1>3, <2>2, <2>5 DEF a, l
<1>4. CASE req[t].op = "release"
  <2>1. FirstCalls(t) = Move(k, j, held[t])
    BY <1>4 DEF FirstCalls, j, k
  <2>2. a \in Batch /\ held[t] \in Int
    BY <1>1, <1>4 DEF Settles
  <2>3. Settles(t)
    BY <1>4 DEF Settles
  <2> DEFINE q == held[t]
  <2> HIDE DEF a, q
  <2>4. /\ Due(Move(k, j, q), k) = -q /\ Due(Move(k, j, q), j) = q
        /\ \A x : x \notin {k, j} => Due(Move(k, j, q), x) = 0
    <3>1. j \in Key /\ k \in Key /\ j # k /\ q \in Int
      BY <1>0, <2>2, <2>3 DEF q
    <3> QED BY <3>1, DueMove
  <2>5. Due(FirstCalls(t), l) = IF a = b THEN -held[t] ELSE 0
    BY <1>0, <2>1, <2>3, <2>4 DEF q
  <2> QED BY <1>4, <2>2, <2>5 DEF a, l
<1>5. CASE req[t].op = "ship"
  <2> DEFINE X == [batch : Batch, qty : Nat]
             ls == Lines(t)
  <2>1. ls \in Seq(X)
    BY <1>1, <1>5 DEF IsCall, Lines
  <2> HIDE DEF X, ls
  <2>2. DOMAIN ls = 1..Len(ls) /\ Len(ls) \in Nat /\ \A i \in DOMAIN ls : ls[i] \in X
    BY <2>1
  <2>3. FirstCalls(t) = [i \in DOMAIN ls |-> Deduct(Avail[ls[i].batch], ls[i].qty)]
    BY <1>5 DEF FirstCalls, ls
  <2>4. \A i \in DOMAIN ls : /\ Deduct(Avail[ls[i].batch], ls[i].qty) \in Op
                             /\ Deduct(Avail[ls[i].batch], ls[i].qty).key # Reserved[b]
    BY <1>2, <2>2 DEF X, Op, Deduct
  <2>5. FirstCalls(t) \in Seq(Op) /\ \A i \in DOMAIN FirstCalls(t) : FirstCalls(t)[i].key # Reserved[b]
    BY <2>2, <2>3, <2>4
  <2>6. Due(FirstCalls(t), Reserved[b]) = 0
    BY <2>5, DueElsewhere
  <2> QED BY <1>5, <2>6
<1>6. CASE req[t].op = "issue"
  <2>1. FirstCalls(t) = <<>>
    BY <1>6 DEF FirstCalls
  <2> QED BY <1>6, <2>1, DueEmpty
<1> QED BY <1>1, <1>3, <1>4, <1>5, <1>6 DEF IsCall

LEMMA OpenClaims ==
  ASSUME StockTypeOK, ScriptInv, ShapeInv, ClaimInv, NEW t \in Tx, OpenRequest(t), ShapeInv'
  PROVE  ClaimInv'
<1>1. /\ at[t] = "checked" /\ Begin(t) /\ todo'[t] = FirstCalls(t)
      /\ at' = [at EXCEPT ![t] = IF req[t].op = "issue" THEN "line" ELSE "calls"]
      /\ UNCHANGED <<resTables, req, batch, held, pos, resVal, resDirty, newIssued>>
  BY DEF OpenRequest
<1>2. /\ phase[t] = "idle" /\ resDirty[t] = {} /\ pend' = pend /\ ledger' = ledger
      /\ res' = res /\ at'[t] = IF req[t].op = "issue" THEN "line" ELSE "calls"
  <2>1. phase[t] = "idle" /\ resDirty[t] = {}
    BY <1>1 DEF ShapeInv, Stage, AtWork
  <2>2. pend' = pend /\ ledger' = ledger /\ res' = res
    BY <1>1 DEF Begin, resTables
  <2> QED BY <1>1, <2>1, <2>2 DEF ShapeInv, ReqTypeOK
<1>3. pend'[t] = <<>>
  BY <1>2 DEF ScriptInv, InFlight
<1>4. Wears(t)' /\ HeldEnough(t)'
  BY <1>1, <1>2 DEF Wears, HeldEnough, ClaimInv
<1>5. Balanced(t)'
  <2> SUFFICES ASSUME NEW b \in Batch
               PROVE  Booked(pend'[t], Reserved[b]) + Due(todo'[t], Reserved[b]) + Owed(t, b)'
                        <= Change(t, b)'
    BY DEF Balanced, Booked, EntriesFor, Due, DueFor
  <2>1. Booked(pend'[t], Reserved[b]) = 0
    BY <1>3, BookedEmpty
  <2>2. Owed(t, b)' = CASE req[t].op = "reserve" /\ batch[t] = b -> -req[t].qty
                        [] req[t].op = "release" /\ batch[t] = b -> held[t]
                        [] OTHER -> 0
    BY <1>1, <1>2 DEF Owed
  <2>3. Due(todo'[t], Reserved[b]) + Owed(t, b)' = 0
    BY <1>1, <2>2, FirstCallsOwe
  <2>4. Change(t, b)' = Change(t, b) /\ Change(t, b) = 0
    BY <1>1, <1>2, NothingChanged DEF Change, Changes, ResSeen
  <2>5. Due(todo'[t], Reserved[b]) \in Int /\ Owed(t, b)' \in Int
    <3>1. Due(FirstCalls(t), Reserved[b]) \in Int
      <4>1. todo' \in [Tx -> Seq(Op)]
        BY <1>1, StockConstants DEF Begin, StockTypeOK
      <4>2. todo'[t] \in Seq(Op) /\ (todo'[t] = <<>> \/ todo'[t] # <<>>)
        BY <4>1
      <4> QED BY <1>1, <4>2, DueEmpty, DueTail
    <3>2. req[t].op = "reserve" => req[t].qty \in Nat
      BY <1>1, CallConstants DEF ShapeInv, Stage, IsCall
    <3>3. held[t] \in Nat
      BY DEF ShapeInv, ReqTypeOK
    <3> QED BY <1>1, <2>2, <3>1, <3>2, <3>3
  <2> QED BY <2>1, <2>3, <2>4, <2>5
<1> QED BY <1>1, <1>2, <1>4, <1>5, ClaimKept DEF Steps, ReqProgress

\* What is booked is no longer due.
LEMMA EngineClaims ==
  ASSUME StockTypeOK, PendingCall, ScriptInv, ShapeInv, ClaimInv, NEW t \in Tx, EngineCall(t)
  PROVE  ClaimInv'
<1>1. (Find(t) \/ Write(t)) /\ UNCHANGED resVars
  BY DEF EngineCall
<1>2. ledger' = ledger /\ res' = res /\ at' = at /\ resDirty' = resDirty /\ InFlight(t)
  BY <1>1 DEF Find, Write, tableVars, resVars, InFlight
<1>3. at[t] # "done"
  BY <1>2 DEF ShapeInv, Stage, AtWork
<1>4. Wears(t)' /\ HeldEnough(t)'
  BY <1>1 DEF resVars, Wears, HeldEnough, ClaimInv
<1>5. \A b : Change(t, b)' = Change(t, b) /\ Owed(t, b)' = Owed(t, b)
  BY <1>1 DEF resVars, Change, Changes, ResSeen, Owed, Lines
<1>6. ASSUME NEW b \in Batch
      PROVE  Booked(pend'[t], Reserved[b]) + Due(todo'[t], Reserved[b])
               = Booked(pend[t], Reserved[b]) + Due(todo[t], Reserved[b])
  <2>1. CASE Find(t)
    BY <2>1 DEF Find
  <2>2. CASE Write(t)
    <3> DEFINE op == Head(todo[t])
               q == read[t] + Signed(op)
               k == Reserved[b]
    <3>1. /\ phase[t] = "write" /\ todo[t] # <<>> /\ todo[t] \in Seq(Op) /\ pend[t] \in Seq(Entry)
          /\ todo'[t] = Tail(todo[t])
      BY <2>2 DEF Write, PendingCall, StockTypeOK
    <3>2. PICK r \in Target(t) : pend' = [pend EXCEPT ![t] = Append(@, LedgerEntry(t, r, op, q))]
      BY <2>2 DEF Write
    <3>3. KeyOf[r] = op.key /\ r \in Row
      BY <3>1, <3>2 DEF Target, ScriptInv, StockTypeOK
    <3>4. Signed(op) \in Int /\ op \in Op
      BY <3>1, OpFacts
    <3> DEFINE e == LedgerEntry(t, r, op, q)
    <3>5. e \in Entry /\ e.qty = Signed(op) /\ e.row = r
      <4>1. q \in Int
        BY <3>4 DEF StockTypeOK
      <4> HIDE DEF q
      <4> QED BY <3>3, <3>4, <4>1 DEF LedgerEntry, Entry
    <3>6. pend'[t] = Append(pend[t], e)
      BY <3>2 DEF StockTypeOK
    <3> HIDE DEF e, op, k
    <3>7. /\ Booked(pend[t], k) \in Int
          /\ Booked(pend'[t], k) = Booked(pend[t], k) + (IF KeyOf[e.row] = k THEN e.qty ELSE 0)
      BY <3>1, <3>5, <3>6, BookedAppend
    <3>8. /\ Due(todo'[t], k) \in Int
          /\ Due(todo[t], k) = (IF op.key = k THEN Signed(op) ELSE 0) + Due(todo'[t], k)
      BY <3>1, DueTail DEF op
    <3>9. Booked(pend'[t], k) + Due(todo'[t], k) = Booked(pend[t], k) + Due(todo[t], k)
      BY <3>3, <3>4, <3>5, <3>7, <3>8
    <3> QED BY <3>9 DEF k
  <2> QED BY <1>1, <2>1, <2>2
<1>7. Balanced(t)'
  <2> SUFFICES ASSUME NEW b \in Batch
               PROVE  Booked(pend'[t], Reserved[b]) + Due(todo'[t], Reserved[b]) + Owed(t, b)'
                        <= Change(t, b)'
    BY DEF Balanced, Booked, EntriesFor, Due, DueFor
  <2>1. Booked(pend[t], Reserved[b]) + Due(todo[t], Reserved[b]) + Owed(t, b) <= Change(t, b)
    BY <1>2 DEF ClaimInv, Balanced
  <2> QED BY <1>5, <1>6, <2>1
<1> QED BY <1>2, <1>3, <1>4, <1>7, ClaimKept DEF Steps, ReqProgress

\* A line that takes reserved stock owes what it takes until its end.
LEMMA LineClaims ==
  ASSUME StockTypeOK, ShapeInv, ClaimInv, NEW t \in Tx, IssueReserved(t) \/ IssueAvailable(t)
  PROVE  ClaimInv'
<1> DEFINE l == Lines(t)[pos[t] + 1]
<1>1. PICK a \in {"reserved", "available"} :
        /\ at' = [at EXCEPT ![t] = a]
        /\ a = "reserved" => CallWith(t, <<Deduct(Reserved[l.batch], l.qty)>>)
        /\ a = "available" => CallWith(t, <<Deduct(Avail[l.batch], l.qty)>>)
  BY DEF IssueReserved, IssueAvailable
<1>2. /\ AtLine(t) /\ UNCHANGED <<resTables, req, batch, held, pos, resVal, resDirty, newIssued>>
      /\ ledger' = ledger /\ phase' = phase /\ pend' = pend
  BY DEF IssueReserved, IssueAvailable, CallWith
<1>3. at'[t] = a /\ at[t] = "line" /\ todo[t] = <<>> /\ InFlight(t) /\ res' = res
  BY <1>1, <1>2 DEF AtLine, InFlight, resTables, ShapeInv, ReqTypeOK
<1>4. l.batch \in Batch /\ l.qty \in Nat
  BY <1>2, <1>3, LineFacts DEF AtLine, AtWork
<1> HIDE DEF l
<1>5. todo'[t] = <<Deduct(IF a = "reserved" THEN Reserved[l.batch] ELSE Avail[l.batch], l.qty)>>
  BY <1>1 DEF CallWith, StockTypeOK
<1>6. Wears(t)' /\ HeldEnough(t)'
  BY <1>2, <1>3 DEF Wears, HeldEnough, ClaimInv, resTables
<1>7. Balanced(t)'
  <2> SUFFICES ASSUME NEW b \in Batch
               PROVE  Booked(pend'[t], Reserved[b]) + Due(todo'[t], Reserved[b]) + Owed(t, b)'
                        <= Change(t, b)'
    BY DEF Balanced, Booked, EntriesFor, Due, DueFor
  <2>1. Booked(pend[t], Reserved[b]) + Due(todo[t], Reserved[b]) + Owed(t, b) <= Change(t, b)
    BY <1>3 DEF ClaimInv, Balanced
  <2>2. Due(todo[t], Reserved[b]) = 0 /\ Owed(t, b) = 0
    BY <1>3, DueEmpty DEF Owed
  <2>3. Change(t, b)' = Change(t, b)
    BY <1>2, <1>3 DEF Change, Changes, ResSeen
  <2>4. Owed(t, b)' = IF a = "reserved" /\ l.batch = b THEN l.qty ELSE 0
    BY <1>2, <1>3 DEF Owed, Lines, l
  <2>5. Due(todo'[t], Reserved[b]) = IF a = "reserved" /\ l.batch = b THEN -l.qty ELSE 0
    <3> DEFINE k == IF a = "reserved" THEN Reserved[l.batch] ELSE Avail[l.batch]
               op == Deduct(k, l.qty)
    <3>1. k \in Key /\ (k = Reserved[b] <=> a = "reserved" /\ l.batch = b)
      BY <1>4, ReservationConstants
    <3> HIDE DEF k
    <3>2. op \in Op /\ op.key = k /\ Signed(op) = -l.qty
      BY <1>4, <3>1 DEF Op, Deduct, Signed
    <3>3. todo'[t] = <<op>>
      BY <1>5 DEF k
    <3> HIDE DEF op
    <3>4. Due(<<op>>, Reserved[b]) = IF op.key = Reserved[b] THEN Signed(op) ELSE 0
      BY <3>2, DueOne
    <3> QED BY <3>1, <3>2, <3>3, <3>4
  <2>6. Booked(pend[t], Reserved[b]) \in Int /\ Change(t, b) \in Int
    BY BalanceTypes
  <2> QED BY <1>2, <1>4, <2>1, <2>2, <2>3, <2>4, <2>5, <2>6
<1> QED BY <1>2, <1>3, <1>6, <1>7, ClaimKept DEF Steps, ReqProgress

\* The reservations as the issue sees them are, after the line, those consumed.
LEMMA EndLineSeen ==
  ASSUME ShapeInv, NEW t \in Tx, EndLine(t), NEW i \in 1..Len(ByPriority)
  PROVE  LET l == Lines(t)[pos[t] + 1]
             M == IF at[t] = "reserved" THEN Matching(t, l.batch) ELSE {}
         IN  ResSeen(t, ByPriority[i])' = Consume(t, M, l.qty)[i]
<1> DEFINE l == Lines(t)[pos[t] + 1]
           M == IF at[t] = "reserved" THEN Matching(t, l.batch) ELSE {}
           r == ByPriority[i]
<1>1. PICK C \in SUBSET M :
        /\ \A q \in C : ResFree(t, q) /\ ResSeen(t, q).status = "active"
        /\ resDirty' = [resDirty EXCEPT ![t] = @ \cup C]
        /\ resVal'[t] \in [Res -> {resVal'[t][q] : q \in Res}]
        /\ \A q \in Res \ C : resVal'[t][q] = resVal[t][q]
        /\ \A j \in 1..Len(ByPriority) :
             /\ ByPriority[j] \in C => resVal'[t][ByPriority[j]] = Consume(t, M, l.qty)[j]
             /\ ByPriority[j] \in M \ C => Consume(t, M, l.qty)[j] = ResSeen(t, ByPriority[j])
  BY EndLineFacts
<1>2. /\ res' = res /\ at[t] \in AtWork /\ at[t] \in {"reserved", "available"}
  BY DEF EndLine, resTables, AtWork
<1>3. l.qty \in Nat /\ r \in Res /\ i \in DOMAIN ByPriority
  <2>1. pos[t] < Len(Lines(t))
    BY <1>2 DEF ShapeInv, Stage
  <2>2. ByPriority \in Seq(Res)
    BY ReservationConstants
  <2> QED BY <1>2, <2>1, <2>2, LineFacts
<1>4. \A q \in Res : IsReservation(ResSeen(t, q))
  BY SeenIsReservation DEF ShapeInv
<1> HIDE DEF M, l
<1>5. r \notin M => Consume(t, M, l.qty)[i] = ResSeen(t, r)
  BY <1>3, <1>4, ConsumeFacts
<1>6. resDirty'[t] = resDirty[t] \cup C
  BY <1>1 DEF ShapeInv, ReqTypeOK
<1>7. CASE r \in C
  BY <1>1, <1>6, <1>7 DEF ResSeen, l, M
<1>8. CASE r \notin C
  <2>1. resVal'[t][r] = resVal[t][r] /\ (r \in resDirty'[t] <=> r \in resDirty[t])
    BY <1>1, <1>3, <1>6, <1>8
  <2>2. ResSeen(t, r)' = ResSeen(t, r)
    BY <1>2, <2>1 DEF ResSeen
  <2>3. Consume(t, M, l.qty)[i] = ResSeen(t, r)
    BY <1>1, <1>5, <1>8
  <2> QED BY <2>2, <2>3 DEF l, M
<1> QED BY <1>7, <1>8

\* A reservation reduced or consumed is a later one of what was committed.
LEMMA ReducedLater ==
  ASSUME NEW x, NEW y, NEW z, IsReservation(x), IsReservation(y), Reduced(y, z),
         y.status = "active", x = y \/ Later(x, y)
  PROVE  Later(x, z)
BY DEF IsReservation, Reduced, Later

\* What a line deducted, it takes off the claims or more: at most what it owes.
LEMMA EndLineTakes ==
  ASSUME StockTypeOK, ShapeInv, ShapeInv', StockTypeOK', NEW t \in Tx, EndLine(t), NEW b \in Batch
  PROVE  Change(t, b) - Owed(t, b) <= Change(t, b)'
<1> DEFINE l == Lines(t)[pos[t] + 1]
           M == IF at[t] = "reserved" THEN Matching(t, l.batch) ELSE {}
           d == [r \in Res |-> Changes(t, b)[r] - Changes(t, b)'[r]]
<1>0. res' = res /\ at[t] \in {"reserved", "available"} /\ at[t] \in AtWork
  BY DEF EndLine, resTables, AtWork
<1>1. /\ \A r \in Res : Changes(t, b)[r] \in Int /\ Claim(ResSeen(t, r), b) \in Nat
                        /\ Claim(res[r], b) \in Nat
      /\ Change(t, b) \in Int
  BY BalanceTypes
<1>2. /\ \A r \in Res : Changes(t, b)'[r] \in Int /\ Claim(ResSeen(t, r), b)' \in Nat
      /\ Change(t, b)' \in Int
  <2>1. \A r \in Res : IsReservation(ResSeen(t, r)') /\ IsReservation(res'[r])
    BY DEF ShapeInv, ReqTypeOK, ResSeen
  <2>2. \A r \in Res : Claim(ResSeen(t, r)', b) \in Nat /\ Claim(res'[r], b) \in Nat
    BY <2>1, ClaimNat
  <2>3. \A r \in Res : Changes(t, b)'[r] \in Int /\ Claim(ResSeen(t, r), b)' \in Nat
    BY <2>2 DEF Changes, Claim
  <2>4. Change(t, b)' \in Int
    <3>1. IsFiniteSet(Res)
      BY ReservationConstants
    <3> QED BY <2>3, <3>1, SumInt DEF Change
  <2> QED BY <2>3, <2>4
<1>3. \A r \in Res : d[r] = Claim(ResSeen(t, r), b) - Claim(ResSeen(t, r)', b)
  BY <1>0, <1>1, <1>2 DEF Changes, Claim
<1>4. l.batch \in Batch /\ l.qty \in Nat
  <2>1. pos[t] < Len(Lines(t))
    BY <1>0 DEF ShapeInv, Stage
  <2> QED BY <1>0, <2>1, LineFacts
<1>5. \A r \in Res : IsReservation(ResSeen(t, r))
  BY SeenIsReservation DEF ShapeInv
<1>6. M \in SUBSET Res /\ \A r \in M : ResSeen(t, r).status = "active" /\ ResSeen(t, r).batch = l.batch
  BY DEF Matching
<1>7. \A i \in 1..Len(ByPriority) : ResSeen(t, ByPriority[i])' = Consume(t, M, l.qty)[i]
  BY EndLineSeen
<1>8. /\ \A i \in 1..Len(ByPriority) : ByPriority[i] \in Res
      /\ \A r \in Res : \E i \in 1..Len(ByPriority) : ByPriority[i] = r
  <2>1. ByPriority \in Seq(Res)
    BY ReservationConstants
  <2>2. \A r \in Res : \E i \in DOMAIN ByPriority : ByPriority[i] = r
    BY ReservationConstants
  <2>3. DOMAIN ByPriority = 1..Len(ByPriority) /\ \A i \in 1..Len(ByPriority) : ByPriority[i] \in Res
    BY <2>1
  <2> QED BY <2>2, <2>3
<1>9. \A r \in Res : d[r] \in Int
  BY <1>1, <1>2
<1> DEFINE n == l.qty
<1>10. SumOver(d, Res) <= (IF at[t] = "reserved" /\ l.batch = b THEN n ELSE 0) /\ SumOver(d, Res) \in Int
  <2>1. \A i \in 1..Len(ByPriority) :
          d[ByPriority[i]] = Claim(ResSeen(t, ByPriority[i]), b) - Claim(Consume(t, M, n)[i], b)
    BY <1>3, <1>7, <1>8
  <2> HIDE DEF d, M, l, n
  <2>2. CASE at[t] = "reserved" /\ l.batch = b
    <3>1. n \in Nat /\ \A r \in M : ResSeen(t, r).status = "active" /\ ResSeen(t, r).batch = b
      BY <1>4, <1>6, <2>2 DEF n
    <3>2. SumOver(d, Res) <= n
      BY <1>5, <1>6, <2>1, <3>1, ConsumeTakes
    <3>3. SumOver(d, Res) \in Int
      BY <1>9, SumInt, ReservationConstants
    <3> QED BY <2>2, <3>2, <3>3
  <2>3. CASE ~(at[t] = "reserved" /\ l.batch = b)
    <3>1. ASSUME NEW i \in 1..Len(ByPriority) PROVE d[ByPriority[i]] = 0
      <4> DEFINE x == ResSeen(t, ByPriority[i])
                 y == Consume(t, M, n)[i]
      <4>1. Reduced(x, y) /\ (ByPriority[i] \notin M => y = x)
        BY <1>4, <1>5, ConsumeFacts DEF n
      <4>2. ByPriority[i] \in M => x.batch # b
        BY <1>6, <2>3 DEF M
      <4>3. Claim(x, b) = Claim(y, b) /\ Claim(x, b) \in Nat
        BY <1>1, <1>8, <4>1, <4>2 DEF Reduced, Claim
      <4> QED BY <2>1, <4>3
    <3>2. \A r \in Res : d[r] = 0
      BY <1>8, <3>1
    <3>3. SumOver(d, Res) = 0
      BY <3>2, SumZero, ReservationConstants
    <3> QED BY <2>3, <3>3
  <2> QED BY <2>2, <2>3
<1>11. Owed(t, b) = IF at[t] = "reserved" /\ l.batch = b THEN n ELSE 0
  BY <1>0 DEF Owed
<1>12. Change(t, b) = SumOver(d, Res) + Change(t, b)'
  <2> DEFINE f == Changes(t, b)
             g == Changes(t, b)'
  <2>1. \A r \in Res : d[r] \in Int /\ g[r] \in Int /\ f[r] = d[r] + g[r]
    BY <1>1, <1>2
  <2>2. Change(t, b) = SumOver(f, Res) /\ Change(t, b)' = SumOver(g, Res)
    BY DEF Change
  <2> HIDE DEF d, f, g
  <2>3. SumOver(f, Res) = SumOver(d, Res) + SumOver(g, Res)
    BY <2>1, SumPlus, ReservationConstants
  <2> QED BY <2>2, <2>3
<1>13. n \in Nat
  BY <1>4
<1> HIDE DEF d, n, l, M
<1> QED BY <1>1, <1>2, <1>10, <1>11, <1>12, <1>13

LEMMA EndLineClaims ==
  ASSUME StockTypeOK, ShapeInv, ClaimInv, ShapeInv', StockTypeOK', NEW t \in Tx, EndLine(t)
  PROVE  ClaimInv'
<1> DEFINE l == Lines(t)[pos[t] + 1]
           M == IF at[t] = "reserved" THEN Matching(t, l.batch) ELSE {}
<1>1. PICK C \in SUBSET M :
        /\ \A r \in C : ResFree(t, r) /\ ResSeen(t, r).status = "active"
        /\ resDirty' = [resDirty EXCEPT ![t] = @ \cup C]
        /\ resVal'[t] \in [Res -> {resVal'[t][r] : r \in Res}]
        /\ \A r \in Res \ C : resVal'[t][r] = resVal[t][r]
        /\ \A i \in 1..Len(ByPriority) :
             /\ ByPriority[i] \in C => resVal'[t][ByPriority[i]] = Consume(t, M, l.qty)[i]
             /\ ByPriority[i] \in M \ C => Consume(t, M, l.qty)[i] = ResSeen(t, ByPriority[i])
  BY EndLineFacts
<1>2. /\ res' = res /\ ledger' = ledger /\ pend' = pend /\ todo' = todo /\ phase' = phase
      /\ req' = req /\ todo[t] = <<>> /\ phase[t] = "find"
      /\ at[t] \in {"reserved", "available"} /\ at' = [at EXCEPT ![t] = "line"]
  BY DEF EndLine, stockVars, resTables
<1>3. /\ at[t] \in AtWork /\ at[t] # "done" /\ at'[t] = "line" /\ req[t].op = "issue"
      /\ resDirty'[t] = resDirty[t] \cup C /\ InFlight(t) /\ pos[t] < Len(Lines(t))
  BY <1>1, <1>2 DEF AtWork, ShapeInv, Stage, ReqTypeOK, InFlight
<1>4. \A r \in resDirty'[t] : r \in resDirty[t] \/ ResFree(t, r)
  BY <1>1, <1>3
<1>5. C \subseteq Res /\ resDirty[t] \subseteq Res /\ l.qty \in Nat
  <2>1. C \subseteq Res
    BY DEF Matching
  <2> QED BY <1>3, <2>1, LineFacts DEF ShapeInv, ReqTypeOK
<1> HIDE DEF M, l
<1>6. ASSUME NEW r \in resDirty'[t] PROVE Later(res[r], resVal'[t][r])
  <2>1. r \in resDirty[t] => Later(res[r], resVal[t][r])
    BY <1>3 DEF ClaimInv, Wears
  <2>2. CASE r \in C
    <3>1. PICK i \in 1..Len(ByPriority) : ByPriority[i] = r
      <4>1. ByPriority \in Seq(Res) /\ \E i \in DOMAIN ByPriority : ByPriority[i] = r
        BY <1>5, <2>2, ReservationConstants
      <4> QED BY <4>1
    <3>2. /\ IsReservation(ResSeen(t, r)) /\ IsReservation(res[r])
          /\ \A q \in Res : IsReservation(ResSeen(t, q))
      BY <1>5, <2>2, SeenIsReservation DEF ShapeInv, ReqTypeOK
    <3>3. Reduced(ResSeen(t, r), Consume(t, M, l.qty)[i])
      BY <1>5, <3>1, <3>2, ConsumeFacts
    <3>4. res[r] = ResSeen(t, r) \/ Later(res[r], ResSeen(t, r))
      BY <2>1 DEF ResSeen
    <3>5. ResSeen(t, r).status = "active" /\ resVal'[t][r] = Consume(t, M, l.qty)[i]
      BY <1>1, <2>2, <3>1
    <3>6. Later(res[r], Consume(t, M, l.qty)[i])
      BY <3>2, <3>3, <3>4, <3>5, ReducedLater
    <3> QED BY <3>5, <3>6
  <2>3. CASE r \notin C
    BY <1>1, <1>3, <1>5, <2>1, <2>3
  <2> QED BY <2>2, <2>3
<1>7. Wears(t)' /\ HeldEnough(t)'
  BY <1>2, <1>3, <1>6 DEF Wears, HeldEnough
<1>8. Balanced(t)'
  <2> SUFFICES ASSUME NEW b \in Batch
               PROVE  Booked(pend[t], Reserved[b]) + Due(todo[t], Reserved[b]) + Owed(t, b)'
                        <= Change(t, b)'
    BY <1>2 DEF Balanced, Booked, EntriesFor, Due, DueFor
  <2>1. Booked(pend[t], Reserved[b]) + Due(todo[t], Reserved[b]) + Owed(t, b) <= Change(t, b)
    BY <1>3 DEF ClaimInv, Balanced
  <2>2. Owed(t, b)' = 0
    BY <1>3 DEF Owed
  <2>3. Change(t, b) - Owed(t, b) <= Change(t, b)'
    BY EndLineTakes
  <2>4. /\ Booked(pend[t], Reserved[b]) \in Int /\ Due(todo[t], Reserved[b]) \in Int
        /\ Change(t, b) \in Int
    BY BalanceTypes
  <2>5. Change(t, b)' \in Int
    <3>1. \A r \in Res : IsReservation(ResSeen(t, r)') /\ IsReservation(res'[r])
      BY DEF ShapeInv, ReqTypeOK, ResSeen
    <3>2. \A r \in Res : Claim(ResSeen(t, r)', b) \in Nat /\ Claim(res'[r], b) \in Nat
      BY <3>1, ClaimNat
    <3>3. \A r \in Res : Changes(t, b)'[r] \in Int
      BY <3>2 DEF Changes, Claim
    <3> QED BY <3>3, ReservationConstants, SumInt DEF Change
  <2>6. Owed(t, b) \in Int
    BY <1>2, <1>5 DEF Owed, l
  <2> QED BY <2>1, <2>2, <2>3, <2>4, <2>5, <2>6
<1> QED BY <1>2, <1>3, <1>4, <1>7, <1>8, ClaimKept DEF Steps, ReqProgress

\* A reservation is written: its claim is what its calls owed.
LEMMA SettleClaims ==
  ASSUME StockTypeOK, ShapeInv, ClaimInv, NEW t \in Tx, SettleReservation(t)
  PROVE  ClaimInv'
<1> DEFINE r == req[t].res
           x == IF req[t].op = "release" THEN [res[r] EXCEPT !.status = "released"]
                ELSE [status |-> "active", qty |-> req[t].qty, batch |-> batch[t], po |-> req[t].po]
           Pays(b) == /\ Claim(x, b) - Claim(res[r], b) \in Int /\ Owed(t, b) \in Int
                      /\ Owed(t, b) >= -(Claim(x, b) - Claim(res[r], b))
<1>1. /\ at[t] = "calls" /\ Settles(t) /\ ResFree(t, r) /\ phase[t] = "find" /\ todo[t] = <<>>
      /\ resDirty' = [resDirty EXCEPT ![t] = {r}]
      /\ resVal' = [resVal EXCEPT ![t][r] = x]
      /\ at' = [at EXCEPT ![t] = "settled"]
      /\ UNCHANGED <<stockVars, resTables, req, batch, held, pos, newIssued>>
  BY DEF SettleReservation, Settles
<1>2. /\ IsCall(req[t]) /\ req[t] \in Call0[t] /\ resDirty[t] = {} /\ InFlight(t)
  BY <1>1, CallConstants DEF ShapeInv, Stage, AtWork, InFlight
<1>3. /\ res' = res /\ ledger' = ledger /\ pend' = pend /\ todo' = todo /\ req' = req
      /\ at'[t] = "settled" /\ resDirty'[t] = {r} /\ resVal'[t] = [resVal[t] EXCEPT ![r] = x]
  BY <1>1 DEF stockVars, resTables, ShapeInv, ReqTypeOK
<1>4. r \in Res /\ (req[t].op = "reserve" => req[t].qty \in Nat)
  BY <1>1, <1>2 DEF IsCall, Settles
<1>5. resVal'[t][r] = x
  BY <1>3, <1>4 DEF ShapeInv, ReqTypeOK
<1>6. IsReservation(res[r]) /\ held[t] \in Nat
  BY <1>4 DEF ShapeInv, ReqTypeOK
<1>7. ASSUME req[t].op = "reserve" PROVE Wears(t)' /\ \A b : Pays(b)
  <2>1. r \in NewRes(t)
    BY <1>2, <1>4, <1>7 DEF NewRes
  <2>2. res[r].status = "none"
    BY <1>1, <2>1 DEF ClaimInv, Unborn
  <2>3. \A b : Claim(res[r], b) = 0 /\ Claim(x, b) = IF batch[t] = b THEN req[t].qty ELSE 0
    BY <1>7, <2>2 DEF Claim
  <2>4. Wears(t)'
    BY <1>3, <1>7 DEF Wears
  <2>5. \A b : Owed(t, b) = (IF batch[t] = b THEN -req[t].qty ELSE 0)
    BY <1>1, <1>7 DEF Owed
  <2>6. ASSUME NEW b PROVE Pays(b)
    <3> DEFINE n == req[t].qty
               o == Owed(t, b)
               y == Claim(x, b)
               z == Claim(res[r], b)
    <3>1. n \in Nat /\ z = 0 /\ IF batch[t] = b THEN y = n /\ o = -n ELSE y = 0 /\ o = 0
      BY <1>4, <1>7, <2>3, <2>5
    <3> HIDE DEF n, o, y, z
    <3>2. y - z \in Int /\ o \in Int /\ o >= -(y - z)
      BY <3>1
    <3> QED BY <3>2 DEF o, y, z
  <2> QED BY <2>4, <2>6
<1>8. ASSUME req[t].op = "release" PROVE Wears(t)' /\ \A b : Pays(b)
  <2>1. /\ res[r].status # "none" /\ res[r].batch = batch[t]
        /\ res[r].status = "active" => res[r].qty <= held[t]
    BY <1>1, <1>8 DEF ClaimInv, HeldEnough
  <2>2. x.status = "released" /\ x.qty = res[r].qty /\ x.batch = res[r].batch
    <3>1. res[r] = [status |-> res[r].status, qty |-> res[r].qty, batch |-> res[r].batch,
                    po |-> res[r].po]
      BY <1>6 DEF IsReservation
    <3>2. x = [status |-> "released", qty |-> res[r].qty, batch |-> res[r].batch, po |-> res[r].po]
      BY <1>8, <3>1
    <3> QED BY <3>2
  <2>3. res[r].qty \in Nat
    BY <1>6 DEF IsReservation
  <2>4. Wears(t)'
    <3>1. Later(res[r], x)
      BY <2>1, <2>2, <2>3 DEF Later
    <3> QED BY <1>3, <1>5, <1>8, <3>1 DEF Wears
  <2>5. \A b : Claim(x, b) = 0 /\ Claim(res[r], b) \in Nat
               /\ Claim(res[r], b) <= (IF batch[t] = b THEN held[t] ELSE 0)
    BY <1>6, <2>1, <2>2, <2>3 DEF Claim
  <2>6. \A b : Owed(t, b) = (IF batch[t] = b THEN held[t] ELSE 0)
    BY <1>1, <1>8 DEF Owed
  <2>7. ASSUME NEW b PROVE Pays(b)
    <3> DEFINE n == held[t]
               o == Owed(t, b)
               y == Claim(x, b)
               z == Claim(res[r], b)
    <3>1. /\ n \in Nat /\ z \in Nat /\ y = 0
          /\ IF batch[t] = b THEN o = n /\ z <= n ELSE o = 0 /\ z <= 0
      BY <1>6, <2>5, <2>6
    <3> HIDE DEF n, o, y, z
    <3>2. y - z \in Int /\ o \in Int /\ o >= -(y - z)
      BY <3>1
    <3> QED BY <3>2 DEF o, y, z
  <2> QED BY <2>4, <2>7
<1> HIDE DEF r, x, Pays
<1>9. Wears(t)' /\ \A b : Pays(b)
  BY <1>1, <1>7, <1>8 DEF Settles
<1>10. HeldEnough(t)'
  BY <1>3 DEF HeldEnough
<1>11. Balanced(t)'
  <2> SUFFICES ASSUME NEW b \in Batch
               PROVE  Booked(pend[t], Reserved[b]) + Due(todo[t], Reserved[b]) + Owed(t, b)'
                        <= Change(t, b)'
    BY <1>3 DEF Balanced, Booked, EntriesFor, Due, DueFor
  <2>1. Booked(pend[t], Reserved[b]) + Due(todo[t], Reserved[b]) + Owed(t, b) <= Change(t, b)
    BY <1>2 DEF ClaimInv, Balanced
  <2>2. Owed(t, b)' = 0
    BY <1>3 DEF Owed
  <2> DEFINE f == Changes(t, b)
             g == Changes(t, b)'
             z == Claim(x, b) - Claim(res[r], b)
  <2>3. Change(t, b) = 0 /\ \A q \in Res : f[q] = 0
    BY <1>2, NothingChanged
  <2>4. g[r] = z
    BY <1>3, <1>4, <1>5 DEF Changes, ResSeen, Claim
  <2>5. \A q \in Res \ {r} : g[q] = 0
    <3> SUFFICES ASSUME NEW q \in Res \ {r} PROVE g[q] = 0
      OBVIOUS
    <3>1. ResSeen(t, q)' = res[q]
      BY <1>3 DEF ResSeen
    <3>2. Claim(res[q], b) \in Nat
      BY BalanceTypes
    <3>3. g[q] = Claim(ResSeen(t, q)', b) - Claim(res[q], b)
      BY <1>3 DEF Changes, Claim
    <3> QED BY <3>1, <3>2, <3>3
  <2>6. z \in Int /\ Owed(t, b) \in Int /\ Owed(t, b) >= -z
    BY <1>9 DEF Pays
  <2>7. Change(t, b) = SumOver(f, Res) /\ Change(t, b)' = SumOver(g, Res)
    BY DEF Change
  <2> HIDE DEF f, g, z
  <2>8. SumOver(g, Res) = SumOver(f, Res) - f[r] + g[r]
    <3>1. IsFiniteSet(Res)
      BY ReservationConstants
    <3>2. \A q \in Res : f[q] \in Int /\ g[q] \in Int
      BY <2>3, <2>4, <2>5, <2>6
    <3>3. \A q \in Res \ {r} : f[q] = g[q]
      BY <2>3, <2>5
    <3> QED BY <1>4, <3>1, <3>2, <3>3, SumChange
  <2>9. Change(t, b)' = z
    BY <1>4, <2>3, <2>4, <2>6, <2>7, <2>8
  <2>10. Booked(pend[t], Reserved[b]) \in Int /\ Due(todo[t], Reserved[b]) \in Int
    BY BalanceTypes
  <2> QED BY <2>1, <2>2, <2>3, <2>6, <2>9, <2>10
<1>12. /\ at[t] # "done" /\ \A q \in resDirty'[t] : q \in resDirty[t] \/ ResFree(t, q)
  BY <1>1, <1>3
<1> QED BY <1>3, <1>9, <1>10, <1>11, <1>12, ClaimKept DEF Steps, ReqProgress

\* What t commits of a reservation that is not its own to make: a later row.
LEMMA Committed ==
  ASSUME ShapeInv, ClaimInv, NEW t \in Tx, at[t] \notin {"idle", "done"}, NEW r \in Res
  PROVE  \/ ResSeen(t, r) = res[r]
         \/ Later(res[r], ResSeen(t, r))
         \/ r \in NewRes(t) /\ res[r].status = "none"
<1>1. CASE r \notin resDirty[t]
  BY <1>1 DEF ResSeen
<1>2. CASE r \in resDirty[t] /\ req[t].op # "reserve"
  BY <1>2 DEF ClaimInv, Wears, ResSeen
<1>3. CASE r \in resDirty[t] /\ req[t].op = "reserve"
  <2>1. r = req[t].res /\ req[t] \in Call0[t]
    BY <1>3 DEF ClaimInv, Wears, ShapeInv, Stage
  <2>2. r \in NewRes(t)
    BY <1>3, <2>1 DEF NewRes
  <2> QED BY <2>2 DEF ClaimInv, Unborn
<1> QED BY <1>1, <1>2, <1>3

\* A transaction that commits leaves what the others count on.
LEMMA OthersClaims ==
  ASSUME StockTypeOK, ShapeInv, ClaimInv, NEW t \in Tx, at[t] \notin {"idle", "done"},
         res' = [r \in Res |-> ResSeen(t, r)], NEW u \in Tx \ {t}, Aside(u)
  PROVE  Wears(u)' /\ HeldEnough(u)' /\ Balanced(u)'
<1>1. /\ Wears(u) /\ HeldEnough(u) /\ Balanced(u)
      /\ \A r \in resDirty[u] : r \in Res /\ r \notin resDirty[t]
  BY DEF ClaimInv, ResLocks, ShapeInv, ReqTypeOK
<1>2. \A r \in resDirty[u] : res'[r] = res[r]
  BY <1>1 DEF ResSeen
<1>3. Wears(u)'
  BY <1>1, <1>2 DEF Wears, Aside
<1>4. HeldEnough(u)'
  <2> SUFFICES ASSUME at[u] \in {"checked", "calls"}, req[u].op = "release"
               PROVE  /\ res'[req[u].res].status # "none" /\ res'[req[u].res].batch = batch[u]
                      /\ res'[req[u].res].status = "active" => res'[req[u].res].qty <= held[u]
    BY DEF HeldEnough, Aside
  <2> DEFINE r == req[u].res
             x == res[r]
             y == res'[r]
  <2>1. r \in Res /\ held[u] \in Nat
    BY CallConstants DEF ShapeInv, Stage, ReqTypeOK, IsCall
  <2>2. /\ x.status # "none" /\ x.batch = batch[u]
        /\ x.status = "active" => x.qty <= held[u]
    BY <1>1 DEF HeldEnough
  <2>3. y = x \/ Later(x, y)
    BY <2>1, <2>2, Committed
  <2>4. x.qty \in Nat /\ y.qty \in Nat
    BY <2>1, SeenIsReservation DEF ShapeInv, ReqTypeOK, IsReservation
  <2> QED BY <2>1, <2>2, <2>3, <2>4 DEF Later
<1>5. ASSUME NEW b PROVE Change(u, b)' = Change(u, b)
  <2> DEFINE f == Changes(u, b)
             g == Changes(u, b)'
  <2>1. ASSUME NEW r \in Res PROVE f[r] \in Int /\ f[r] = g[r]
    <3>1. f[r] = Claim(ResSeen(u, r), b) - Claim(res[r], b) /\ f[r] \in Int
      BY BalanceTypes DEF Changes
    <3>2. g[r] = Claim(ResSeen(u, r)', b) - Claim(res'[r], b)
      BY DEF Changes, Claim
    <3>3. CASE r \in resDirty[u]
      BY <1>2, <3>1, <3>2, <3>3 DEF ResSeen, Aside
    <3>4. CASE r \notin resDirty[u]
      <4>1. ResSeen(u, r) = res[r] /\ ResSeen(u, r)' = res'[r]
        BY <3>4 DEF ResSeen, Aside
      <4>2. Claim(res[r], b) \in Nat /\ Claim(res'[r], b) \in Nat
        BY BalanceTypes
      <4> QED BY <3>1, <3>2, <4>1, <4>2
    <3> QED BY <3>3, <3>4
  <2>2. Change(u, b) = SumOver(f, Res) /\ Change(u, b)' = SumOver(g, Res)
    BY DEF Change
  <2> HIDE DEF f, g
  <2> QED BY <2>1, <2>2, SumEqual, ReservationConstants
<1>6. \A b : Owed(u, b)' = Owed(u, b)
  BY DEF Aside, Owed, Lines
<1>7. (InFlight(u)' <=> InFlight(u)) /\ pend'[u] = pend[u] /\ todo'[u] = todo[u]
  BY DEF Aside, InFlight
<1>8. Balanced(u)'
  BY <1>1, <1>5, <1>6, <1>7 DEF Balanced, Booked, EntriesFor, Due, DueFor
<1> QED BY <1>3, <1>4, <1>8

\* A commit brings claims that cover the reserved stock it brings.
LEMMA CommitClaims ==
  ASSUME StockTypeOK, ShapeInv, ClaimInv, NEW t \in Tx, CommitRequest(t)
  PROVE  ClaimInv'
<1>1. /\ Commit(t) /\ Forget(t) /\ req' = req /\ Ready(t) /\ at' = [at EXCEPT ![t] = "done"]
      /\ res' = [r \in Res |-> ResSeen(t, r)]
  BY DEF CommitRequest
<1>2. /\ at'[t] = "done" /\ at[t] \notin {"idle", "done"} /\ resDirty'[t] = {} /\ ~InFlight(t)'
      /\ InFlight(t) /\ todo[t] = <<>> /\ ledger' = ledger \o pend[t]
  BY <1>1, ForgetFacts DEF Ready, ShapeInv, ReqTypeOK, Commit, StockTypeOK, InFlight
<1>3. \A u \in Tx \ {t} : Aside(u)
  BY OthersAside DEF Steps, ReqProgress, ShapeInv
<1>4. ResLocks'
  BY <1>2, <1>3 DEF ClaimInv, ResLocks, Aside
<1>5. Unborn'
  <2> SUFFICES ASSUME NEW u \in Tx, at'[u] # "done", NEW r \in NewRes(u)
               PROVE  res'[r].status = "none"
    BY DEF Unborn
  <2>1. u # t /\ at[u] # "done" /\ r \in Res
    BY <1>2, <1>3 DEF Aside, NewRes
  <2>2. res[r].status = "none" /\ r \notin NewRes(t)
    BY <2>1, CallConstants DEF ClaimInv, Unborn
  <2>3. ResSeen(t, r) = res[r] \/ Later(res[r], ResSeen(t, r))
    BY <1>2, <2>1, <2>2, Committed
  <2> QED BY <1>1, <2>1, <2>2, <2>3 DEF Later
<1>6. \A u \in Tx : Wears(u)' /\ HeldEnough(u)' /\ Balanced(u)'
  <2>1. \A u \in Tx \ {t} : Wears(u)' /\ HeldEnough(u)' /\ Balanced(u)'
    BY <1>1, <1>2, <1>3, OthersClaims
  <2>2. Wears(t)' /\ HeldEnough(t)' /\ Balanced(t)'
    BY <1>2 DEF Wears, HeldEnough, Balanced
  <2> QED BY <2>1, <2>2
<1>7. ReservedIsClaimed'
  <2> SUFFICES ASSUME NEW b \in Batch PROVE OnHandByLedger(Reserved[b])' <= Claimed(b)'
    BY DEF ReservedIsClaimed
  <2> DEFINE k == Reserved[b]
             before == SumOver(Opening, {r \in OpeningRow : KeyOf[r] = k})
  <2>1. OnHandByLedger(k) = before + Booked(ledger, k)
    BY DEF OnHandByLedger
  <2>2. OnHandByLedger(k)' = before + Booked(ledger \o pend[t], k)
    BY <1>2 DEF OnHandByLedger, Booked, EntriesFor
  <2>3. before \in Int
    <3> DEFINE S == {r \in OpeningRow : KeyOf[r] = k}
    <3>1. IsFiniteSet(S) /\ \A r \in S : Opening[r] \in Int
      BY FS_Subset, ReservationConstants, StockConstants
    <3> HIDE DEF S
    <3>2. SumOver(Opening, S) \in Int
      BY <3>1, SumInt
    <3> QED BY <3>2 DEF S
  <2>4. /\ Booked(ledger, k) \in Int /\ Booked(pend[t], k) \in Int
        /\ Booked(ledger \o pend[t], k) = Booked(ledger, k) + Booked(pend[t], k)
    <3>1. ledger \in Seq(Entry) /\ pend[t] \in Seq(Entry)
      BY DEF StockTypeOK
    <3> QED BY <3>1, BookedConcat
  <2>5. Booked(pend[t], k) <= Change(t, b)
    <3>1. Booked(pend[t], k) + Due(todo[t], k) + Owed(t, b) <= Change(t, b)
      BY <1>2 DEF ClaimInv, Balanced
    <3>2. Due(todo[t], k) = 0
      BY <1>2, DueEmpty
    <3>3. Owed(t, b) = 0
      BY <1>1, <1>2 DEF Owed, Ready
    <3>4. Change(t, b) \in Int
      BY BalanceTypes
    <3> QED BY <2>4, <3>1, <3>2, <3>3, <3>4
  <2> DEFINE f == [r \in Res |-> Claim(res[r], b)]
             g == Changes(t, b)
             h == [r \in Res |-> Claim(res'[r], b)]
  <2>6. \A r \in Res : f[r] \in Int /\ g[r] \in Int /\ h[r] = f[r] + g[r]
    <3> SUFFICES ASSUME NEW r \in Res
                 PROVE  f[r] \in Int /\ g[r] \in Int /\ h[r] = f[r] + g[r]
      OBVIOUS
    <3> DEFINE x == Claim(res[r], b)
               y == Claim(ResSeen(t, r), b)
    <3>1. x \in Nat /\ y \in Nat
      BY BalanceTypes
    <3>2. f[r] = x /\ g[r] = y - x /\ h[r] = y
      BY <1>1 DEF Changes
    <3> HIDE DEF x, y, f, g, h
    <3> QED BY <3>1, <3>2
  <2>7. Claimed(b) = SumOver(f, Res) /\ Change(t, b) = SumOver(g, Res) /\ Claimed(b)' = SumOver(h, Res)
    BY DEF Claimed, Change, Claim
  <2> HIDE DEF f, g, h
  <2>8. /\ SumOver(h, Res) = SumOver(f, Res) + SumOver(g, Res)
        /\ SumOver(f, Res) \in Int /\ SumOver(g, Res) \in Int
    <3>1. IsFiniteSet(Res)
      BY ReservationConstants
    <3>2. SumOver(h, Res) = SumOver(f, Res) + SumOver(g, Res)
      BY <2>6, <3>1, SumPlus
    <3>3. SumOver(f, Res) \in Int /\ SumOver(g, Res) \in Int
      BY <2>6, <3>1, SumInt
    <3> QED BY <3>2, <3>3
  <2>9. OnHandByLedger(k) <= Claimed(b)
    BY DEF ClaimInv, ReservedIsClaimed
  <2> HIDE DEF k, before
  <2>10. OnHandByLedger(k)' <= Claimed(b)'
    BY <2>1, <2>2, <2>3, <2>4, <2>5, <2>7, <2>8, <2>9
  <2> QED BY <2>10 DEF k
<1> QED BY <1>4, <1>5, <1>6, <1>7 DEF ClaimInv

LEMMA ClaimStep == BaseInv /\ ClaimInv /\ [ResNext]_allVars => ClaimInv'
<1> SUFFICES ASSUME BaseInv, ClaimInv, [ResNext]_allVars PROVE ClaimInv'
  OBVIOUS
<1>0. /\ StockTypeOK /\ PendingCall /\ ScriptInv /\ ShapeInv
      /\ StockTypeOK' /\ ShapeInv'
  BY BaseStep DEF BaseInv, StockInv
<1>1. CASE UNCHANGED allVars
  BY <1>1 DEF allVars, ClaimInv, ResLocks, Unborn, Wears, HeldEnough, Balanced, InFlight, Booked,
     EntriesFor, Due, DueFor, Owed, Lines, Change, Changes, ResSeen, ReservedIsClaimed, Claimed,
     OnHandByLedger
<1>2. ASSUME NEW t \in Tx, Steps(t) PROVE ClaimInv'
  BY <1>0, <1>2, StartClaims, OpenClaims, EngineClaims, LineClaims, EndLineClaims, SettleClaims,
     CommitClaims, FailureClaims DEF Steps, ReqProgress
<1> QED BY <1>1, <1>2 DEF ResNext, Steps

\* By the ledger, no stock stays reserved that no active reservation claims,
\* however reservations, releases and issues interleave, fail and crash
\* (reservation.engine.ts:147-175, 242-271).
THEOREM ReservedStockIsClaimed == ResSpec => []ReservedIsClaimed
<1>1. BaseInv /\ ClaimInv => ReservedIsClaimed
  BY DEF ClaimInv
<1> QED BY <1>1, BaseInit, BaseStep, ClaimInit, ClaimStep, PTL DEF ResSpec
=============================================================================
