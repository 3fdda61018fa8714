---------------------------- MODULE Transactions ----------------------------
(***************************************************************************)
(* The database transactions of the store, one per request.  Modules that  *)
(* describe different statements of the same transaction share this set.   *)
(***************************************************************************)

CONSTANT Tx   \* identities of transactions
=============================================================================
