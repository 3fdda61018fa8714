--------------------------- MODULE MCAuthSessions ---------------------------
(* An instance of AuthSessions: one account, the tabs of one browser, two      *)
(* requests at a time.                                                       *)
EXTENDS AuthSessions, TLC

CONSTANTS r1, r2, d1, u1

\* Bounds: time starts with the first token, and in its last two moments one
\* request is underway.
FirstLogin == made = 0 => now = 1
Later == now >= MaxTime - 1 => Cardinality({r \in Req : ~Idle(r)}) <= 1

Symmetry == Permutations({r1, r2})
=============================================================================
