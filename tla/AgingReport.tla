---------------------------- MODULE AgingReport ----------------------------
(***************************************************************************)
(* The report on the age of the stock.  Time is counted in parts of a day. *)
(***************************************************************************)
EXTENDS Production

CONSTANTS
  DayLength,  \* of the clock
  ListLimit   \* slice(0, 50) of each list

\* The settings give bands and limits in whole days.
InDays(blob) ==
  /\ "agingBands" \in DOMAIN blob => blob.agingBands \in Seq(Int)
  /\ \A k \in {"deadStockDays", "slowStockDays"} \cap DOMAIN blob : blob[k] \in Int

ASSUME AgingConstants ==
  /\ DayLength \in Nat \ {0}
  /\ ListLimit \in Nat
  /\ \A mix \in Mix0 : InDays(mix.settings)

VARIABLE report  \* what each call was answered

Counted == {row \in DOMAIN stock :
  stock[row] > 0 /\ row[3] \in {"available", "quality_hold", "reserved"}}

AgeDays(row) == (Clock - batches[row[1]].received) \div DayLength
DaysToExpiry(row) == (batches[row[1]].expiry - Clock) \div DayLength

\* The first band that the age does not exceed, or the one after the last.
BandOf(bands, row) ==
  LET fits == {i \in DOMAIN bands : AgeDays(row) <= bands[i]}
  IN  IF fits = {} THEN Len(bands) + 1 ELSE Min(fits)

\* The bounds of a band; the last has none above.
Lower(bands, i) == IF i = 1 THEN 0 ELSE bands[i - 1] + 1

Buckets(bands, rows) ==
  [i \in 1..(Len(bands) + 1) |->
     [from |-> Lower(bands, i),
      qty  |-> MapThenSumSet(LAMBDA row : stock[row], {x \in rows : BandOf(bands, x) = i})]]

Dead(policy, row) == AgeDays(row) >= policy.deadStockDays
Slow(policy, row) == ~Dead(policy, row) /\ AgeDays(row) >= policy.slowStockDays
HasExpiry(row) == batches[row[1]].expiry # Never
Expired(row) == HasExpiry(row) /\ DaysToExpiry(row) < 0
NearExpiry(policy, row) ==
  HasExpiry(row) /\ ~Expired(row) /\ DaysToExpiry(row) <= policy.nearExpiryDays

\* A list of rows is cut at ListLimit.  The query has no order, so any of them
\* may be left out; that the lists of one report are cut in one order is
\* abstracted.
Listed(rows) == kSubset(AtMost(ListLimit, Cardinality(rows)), rows)

Analyze(r) ==
  /\ At(r, "aging")
  /\ LET policy == ResolveStorePolicy(settings) IN
       \E dead       \in Listed({x \in Counted : Dead(policy, x)}),
          slow       \in Listed({x \in Counted : Slow(policy, x)}),
          expired    \in Listed({x \in Counted : Expired(x)}),
          nearExpiry \in Listed({x \in Counted : NearExpiry(policy, x)}) :
         report' = [report EXCEPT ![r] =
           [buckets    |-> Buckets(policy.agingBands, Counted),
            policy     |-> policy,
            dead       |-> dead,
            slow       |-> slow,
            expired    |-> expired,
            nearExpiry |-> nearExpiry]]
  /\ Done(r) /\ Quiet
  /\ UNCHANGED prodVars
=============================================================================
