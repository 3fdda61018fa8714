----------------------------- MODULE StockLedger -----------------------------
(***************************************************************************)
(* What the stock engine promises its callers: stock is a number per key,  *)
(* a document changes it in one indivisible step that makes all of the     *)
(* document's calls in order, and only when every deduction finds enough.  *)
(***************************************************************************)
EXTENDS Integers, Sequences

CONSTANTS
  Tx,        \* documents
  Key,       \* stock keys
  Script,    \* Script[t]: the sequences of add and deduct calls t may make
  Stock0     \* opening stock of each key

VARIABLES
  stock,     \* quantity of each key
  posted     \* documents posted

\* Stock after the first n calls of s.
After(s, n) ==
  LET f[i \in 0..n] ==
        IF i = 0 THEN stock
        ELSE [f[i-1] EXCEPT ![s[i].key] =
                @ + (IF s[i].kind = "add" THEN s[i].qty ELSE -s[i].qty)]
  IN  f[n]

Covered(s) ==
  \A i \in DOMAIN s : s[i].kind = "deduct" => After(s, i-1)[s[i].key] >= s[i].qty

Init == stock = Stock0 /\ posted = {}

PostDocument(t) ==
  /\ t \notin posted
  /\ posted' = posted \cup {t}
  /\ \E s \in Script[t] : Covered(s) /\ stock' = After(s, Len(s))

Next == \E t \in Tx : PostDocument(t)

Spec == Init /\ [][Next]_<<stock, posted>>
=============================================================================
