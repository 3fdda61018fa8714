-------------------------------- MODULE Maps --------------------------------
(* Finite maps as functions: one laid over another, one entry set, and the *)
(* sum of the values at some of the keys.                                  *)
EXTENDS FiniteSetsExt

Overlay(f, g) == [x \in (DOMAIN f) \cup DOMAIN g |-> IF x \in DOMAIN f THEN f[x] ELSE g[x]]

SetAt(f, x, v) == [y \in (DOMAIN f) \cup {x} |-> IF y = x THEN v ELSE f[y]]

SumOver(f, S) == MapThenSumSet(LAMBDA x : f[x], S)
=============================================================================
