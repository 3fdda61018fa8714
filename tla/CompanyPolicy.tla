---------------------------- MODULE CompanyPolicy ----------------------------
(***************************************************************************)
(* The settings of a company: what the stored object may hold, how a write *)
(* merges into it, and the policy that readers resolve from it.            *)
(*                                                                         *)
(* The stored object is a partial function on keys, those of its workflow  *)
(* and billing parts included.                                             *)
(***************************************************************************)
EXTENDS Integers, Sequences, FiniteSets, SequencesExt, Maps, TLC

DefaultWorkflow ==
  [grnRequiresPurchaseOrder     |-> TRUE,
   qcMode                       |-> "material",
   issueRequiresProductionOrder |-> FALSE,
   accountsHandoffEnabled       |-> TRUE,
   overReceivePolicy            |-> "permission"]

DefaultBilling ==
  [aiEnabled         |-> FALSE,
   monthlyAiTokenCap |-> 100000,
   emailEnabled      |-> FALSE,
   monthlyEmailCap   |-> 200,
   reportsPdfEnabled |-> TRUE]

DefaultStore ==
  [agingBands     |-> <<30, 60, 90, 180, 365>>,
   nearExpiryDays |-> 30,
   deadStockDays  |-> 180,
   slowStockDays  |-> 90,
   fefoEnabled    |-> FALSE]

WorkflowKey == DOMAIN DefaultWorkflow
BillingKey == DOMAIN DefaultBilling
StoreKey == DOMAIN DefaultStore \cup {"defaultWarehouseId", "defaultQcRequired"}
SettingsKey == WorkflowKey \cup BillingKey \cup StoreKey
                 \cup {"layoutDensity", "industryTemplate"}

Empty == <<>>

\* A value of the blob, or the default.
Resolved(blob, defaults) ==
  [k \in DOMAIN defaults |-> IF k \in DOMAIN blob THEN blob[k] ELSE defaults[k]]

ResolveBilling(blob) == Resolved(blob, DefaultBilling)

\* A part that a patch touches is stored with its defaults made explicit.
Explicit(patch, defaults) ==
  IF DOMAIN patch \cap DOMAIN defaults = {} THEN Empty ELSE defaults

\* Variant: the part is rebuilt from the defaults, not from what was stored.
MergeFresh(blob, patch) ==
  Overlay(patch, Overlay(Explicit(patch, DefaultWorkflow), Overlay(Explicit(patch, DefaultBilling), blob)))

\* What a patch makes of the stored object.
Merge(blob, patch) ==
  Overlay(patch, Overlay(blob, Overlay(Explicit(patch, DefaultWorkflow), Explicit(patch, DefaultBilling))))

----------------------------------------------------------------------------
(* The policy that the store reads. *)

AtMost(a, b) == IF a <= b THEN a ELSE b
AtLeast(a, b) == IF a >= b THEN a ELSE b

\* Variant: the bands are kept in the order given.
BandsAsGiven(given) == SelectSeq(given, LAMBDA n : n > 0)

\* The k-th number of a set, in ascending order.
Ranked(S, k) == CHOOSE n \in S : Cardinality({x \in S : x < n}) = k - 1

\* Distinct, positive, ascending, at most eight.
Bands(given) ==
  LET positive == {n \in ToSet(given) : n > 0}
  IN  [k \in 1..AtMost(8, Cardinality(positive)) |-> Ranked(positive, k)]

\* Slow stock is never older than dead stock.
SlowDays(blob, dead) ==
  AtMost(dead,
         IF "slowStockDays" \in DOMAIN blob /\ blob["slowStockDays"] >= 0
           THEN blob["slowStockDays"]
           ELSE AtMost(DefaultStore.slowStockDays, AtLeast(1, dead \div 2)))

Days(blob, k) ==
  IF k \in DOMAIN blob /\ blob[k] >= 0 THEN blob[k] ELSE DefaultStore[k]

ResolveStorePolicy(blob) ==
  LET dead  == Days(blob, "deadStockDays")
      bands == IF "agingBands" \in DOMAIN blob THEN Bands(blob["agingBands"]) ELSE <<>>
  IN  [agingBands     |-> IF bands # <<>> THEN bands ELSE DefaultStore.agingBands,
       nearExpiryDays |-> Days(blob, "nearExpiryDays"),
       deadStockDays  |-> dead,
       slowStockDays  |-> SlowDays(blob, dead),
       fefoEnabled    |-> Resolved(blob, DefaultStore).fefoEnabled]
=============================================================================
