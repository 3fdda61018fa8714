------------------------ MODULE AuthSessions_proofs ------------------------
(***************************************************************************)
(* What a session keeps, why a refresh is refused and what a login leaves, *)
(* for every number of requests, devices, users and tokens, and every      *)
(* choice of the limits.                                                   *)
(*                                                                         *)
(* The invariant has six parts.  SessInv: the newest token of a session is *)
(* live, and what a request is to replace is older than what it created.   *)
(* Ordered: tokens expire in the order they were made, families have one   *)
(* user, and a row is gone only of a token out of date.  FailuresOk: the   *)
(* failures are typed.  Quiet: a family nobody disturbed has one unrevoked *)
(* token, or the two of its rotation underway.  Held: a device whose       *)
(* session nobody disturbed holds its newest token, or one being replaced. *)
(* Limited: a login that nothing overlaps has made room.                   *)
(***************************************************************************)
EXTENDS AuthSessions, Maps_proofs, SequenceTheorems

\* The clock and the tokens; one that is yet to be created is not revoked.
TokensTyped ==
  /\ now \in Nat /\ made \in 0..MaxToken
  /\ row \subseteq 1..made
  /\ family \in [Token -> Nat] /\ expires \in [Token -> Nat] /\ revokedAt \in [Token -> Nat]
  /\ \A t \in Token : t > made => revokedAt[t] = Never

Fields == {"at", "dev", "user", "old", "new", "excess", "alone"}

\* What a request handles exists, and what it is to replace is older than what it
\* has created, and of the same family.
RequestOk(q) ==
  q # NoRequest =>
    /\ DOMAIN q = Fields /\ q.at # "idle"
    /\ q.old \in 0..made /\ q.new \in 0..made /\ q.excess \subseteq 1..made
    /\ q.at \in {"tip", "replace", "revoke", "revokeOther"} => q.old # NoToken
    /\ q.at = "replace" => /\ q.old < q.new
                           /\ family[q.old] = family[q.new]

RequestsOk == DOMAIN req = Req /\ \A r \in Req : RequestOk(req[r])

JarsOk == jar \in [Device -> 0..made]

SessInv == TokensTyped /\ RequestsOk /\ JarsOk /\ NewestIsLive

----------------------------------------------------------------------------
(* What several steps need. *)

LEMMA LimitsTyped ==
  /\ MaxToken \in Nat /\ Life \in Nat /\ AccessLife \in Nat /\ Grace \in Nat /\ Retention \in Nat
  /\ FailWindow \in Nat /\ FailMax \in Nat
  /\ MaxTime \in Nat \ {0} /\ MaxActive \in Nat \ {0} /\ ScanMax \in Nat \ {0}
BY SessionConstants

LEMMA MadeTokens ==
  ASSUME TokensTyped
  PROVE  /\ 1..made \subseteq Token /\ row \subseteq Token
         /\ made \in Nat /\ now \in Nat /\ revokedAt \in [Token -> Nat]
<1>1. 1..made \subseteq Token /\ made \in Nat
  BY LimitsTyped DEF TokensTyped, Token
<1> QED BY <1>1 DEF TokensTyped

\* A request stays in order while tokens are only added.
LEMMA RequestsLast ==
  ASSUME TokensTyped, made' \in Nat, made <= made',
         \A t \in 1..made : family'[t] = family[t]
  PROVE  \A q : RequestOk(q) => RequestOk(q)'
BY LimitsTyped DEF TokensTyped, RequestOk, NoToken

\* The control operators.
LEMMA ArriveOk ==
  ASSUME SessInv, UNCHANGED <<made, family>>, NEW r \in Req, NEW STATE d, NEW STATE u,
         NEW STATE t, NEW p, Arrive(r, d, u, t, p), t \in 0..made,
         p \notin {"idle", "replace"}, p \in {"tip", "revoke", "revokeOther"} => t # NoToken
  PROVE  RequestsOk'
<1>1. \A q : RequestOk(q) => RequestOk(q)'
  BY RequestsLast DEF SessInv, TokensTyped
<1>2. DOMAIN req' = Req
  BY DEF Arrive
<1>3. ASSUME NEW q \in Req PROVE RequestOk(req[q])'
  <2>1. CASE q = r
    <3>1. req'[q] = [at |-> p, dev |-> d, user |-> u, old |-> t, new |-> NoToken,
                     excess |-> {}, alone |-> \A x \in Req \ {r} : Idle(x)]
      BY <2>1 DEF Arrive
    <3> QED BY <3>1 DEF RequestOk, Fields, NoToken, SessInv, TokensTyped
  <2>2. CASE q # r /\ Idle(q)
    BY <2>2 DEF Arrive, RequestOk
  <2>3. CASE q # r /\ ~Idle(q)
    <3>1. req'[q] = [req[q] EXCEPT !.alone = FALSE]
      BY <2>3 DEF Arrive
    <3>2. RequestOk(req[q]) /\ req[q] # NoRequest
      BY <2>3 DEF SessInv, RequestsOk, Idle, At, NoRequest
    <3> QED BY <3>1, <3>2 DEF RequestOk, Fields, SessInv, TokensTyped
  <2> QED BY <2>1, <2>2, <2>3
<1> QED BY <1>2, <1>3 DEF RequestsOk

LEMMA LeaveOk ==
  ASSUME RequestsOk, \A q : RequestOk(q) => RequestOk(q)', NEW r \in Req, Leave(r)
  PROVE  RequestsOk'
BY DEF RequestsOk, Leave, RequestOk

\* A request that is at a place is underway.
LEMMA Underway ==
  ASSUME RequestsOk, NEW r \in Req, NEW p, At(r, p), p # "idle"
  PROVE  RequestOk(req[r]) /\ req[r] # NoRequest /\ DOMAIN req[r] = Fields
<1>1. RequestOk(req[r]) /\ req[r].at # "idle"
  BY DEF RequestsOk, At
<1>2. req[r] # NoRequest
  BY <1>1 DEF NoRequest
<1> QED BY <1>1, <1>2 DEF RequestOk

\* A request goes on to a place where nothing more is asked of it.
LEMMA GoesOnOk ==
  ASSUME RequestsOk, UNCHANGED made, \A q : RequestOk(q) => RequestOk(q)',
         NEW r \in Req, RequestOk(req[r]), req[r] # NoRequest,
         DOMAIN req' = Req, \A q \in Req \ {r} : req'[q] = req[q],
         DOMAIN req'[r] = Fields, req'[r].old = req[r].old, req'[r].new = req[r].new,
         req'[r].excess \subseteq 1..made,
         req'[r].at \notin {"idle", "tip", "replace", "revoke", "revokeOther"}
  PROVE  RequestsOk'
<1>1. RequestOk(req[r])'
  BY DEF RequestOk
<1>2. ASSUME NEW q \in Req \ {r} PROVE RequestOk(req[q])'
  BY DEF RequestsOk
<1> QED BY <1>1, <1>2 DEF RequestsOk

\* Nothing happens to the tokens, and no session ends.
LEMMA TokensSame ==
  ASSUME SessInv, UNCHANGED <<now, tokenVars, ended>>
  PROVE  TokensTyped' /\ NewestIsLive' /\ \A q : RequestOk(q) => RequestOk(q)'
<1>1. TokensTyped'
  BY DEF SessInv, TokensTyped, tokenVars
<1>2. NewestIsLive'
  BY DEF SessInv, NewestIsLive, IsNewest, tokenVars
<1>3. \A q : RequestOk(q) => RequestOk(q)'
  BY RequestsLast DEF SessInv, TokensTyped, tokenVars
<1> QED BY <1>1, <1>2, <1>3

\* Tokens are revoked, or their rows deleted, but of those that are the newest of
\* a session that nobody has ended only rows of expired ones.
LEMMA SomeRevoked ==
  ASSUME SessInv, UNCHANGED <<now, made, family, expires>>, row' \subseteq row,
         revokedAt' \in [Token -> Nat], ended \subseteq ended',
         \A t \in Token : t > made => revokedAt'[t] = Never,
         \A t \in 1..made : IsNewest(t) /\ family[t] \notin ended' =>
            revokedAt'[t] = revokedAt[t] /\ (t \in row => t \in row' \/ expires[t] < now)
  PROVE  TokensTyped' /\ NewestIsLive' /\ \A q : RequestOk(q) => RequestOk(q)'
<1>1. TokensTyped'
  BY DEF SessInv, TokensTyped
<1>2. NewestIsLive'
  BY DEF SessInv, NewestIsLive, IsNewest
<1>3. \A q : RequestOk(q) => RequestOk(q)'
  BY RequestsLast DEF SessInv, TokensTyped
<1> QED BY <1>1, <1>2, <1>3

----------------------------------------------------------------------------
(* login *)

LEMMA BeginLoginKeeps ==
  ASSUME SessInv, NEW r \in Req, NEW d \in Device, NEW u \in User, BeginLogin(r, d, u)
  PROVE  SessInv'
<1>1. TokensTyped' /\ NewestIsLive' /\ JarsOk'
  BY TokensSame DEF BeginLogin, SessInv, JarsOk, tokenVars, clientVars
<1>2. RequestsOk'
  <2>1. CASE LockedOut(u)
    <3>1. UNCHANGED req
      BY <2>1 DEF BeginLogin
    <3> QED BY <3>1, TokensSame DEF BeginLogin, SessInv, RequestsOk
  <2>2. CASE ~LockedOut(u)
    <3>1. Arrive(r, d, u, NoToken, "password") /\ UNCHANGED <<made, family>>
      BY <2>2 DEF BeginLogin, tokenVars
    <3>2. NoToken \in 0..made
      BY DEF SessInv, TokensTyped, NoToken
    <3> QED BY <3>1, <3>2, ArriveOk
  <2> QED BY <2>1, <2>2
<1> QED BY <1>1, <1>2 DEF SessInv

LEMMA CheckPasswordKeeps ==
  ASSUME SessInv, NEW r \in Req, NEW right \in BOOLEAN, CheckPassword(r, right)
  PROVE  SessInv'
<1>1. /\ TokensTyped' /\ NewestIsLive' /\ JarsOk'
      /\ \A q : RequestOk(q) => RequestOk(q)'
  BY TokensSame DEF CheckPassword, SessInv, JarsOk, tokenVars, clientVars, ghostVars
<1>2. RequestsOk'
  <2>1. CASE Leave(r)
    BY <1>1, <2>1, LeaveOk DEF SessInv
  <2>2. CASE req' = [req EXCEPT ![r].at = "prune"]
    <3>1. RequestsOk /\ At(r, "password") /\ UNCHANGED made
      BY DEF CheckPassword, SessInv, tokenVars
    <3>2. RequestOk(req[r]) /\ req[r] # NoRequest /\ DOMAIN req[r] = Fields
      BY <3>1, Underway
    <3>3. /\ DOMAIN req'[r] = Fields /\ req'[r].at = "prune"
          /\ req'[r].old = req[r].old /\ req'[r].new = req[r].new
          /\ req'[r].excess = req[r].excess
      BY <2>2, <3>1, <3>2 DEF Fields, RequestsOk
    <3>4. req[r].excess \subseteq 1..made
      BY <3>2 DEF RequestOk
    <3>5. DOMAIN req' = Req /\ \A q \in Req \ {r} : req'[q] = req[q]
      BY <2>2, <3>1 DEF RequestsOk
    <3> QED BY <1>1, <3>1, <3>2, <3>3, <3>4, <3>5, GoesOnOk
  <2> QED BY <2>1, <2>2 DEF CheckPassword
<1> QED BY <1>1, <1>2 DEF SessInv

LEMMA PruneKeeps ==
  ASSUME SessInv, NEW r \in Req, Prune(r)
  PROVE  SessInv'
<1>1. /\ TokensTyped' /\ NewestIsLive' /\ \A q : RequestOk(q) => RequestOk(q)'
  <2>1. \A t \in 1..made : t \in row /\ t \notin row' =>
           expires[t] < now \/ revokedAt[t] # Never
    BY DEF Prune, Stale
  <2> QED BY <2>1, SomeRevoked DEF Prune, ghostVars, SessInv, TokensTyped, NewestIsLive
<1>2. JarsOk'
  BY DEF Prune, SessInv, JarsOk, clientVars
<1>3. RequestsOk'
  <2>1. RequestsOk /\ At(r, "prune") /\ UNCHANGED made /\ req' = [req EXCEPT ![r].at = "list"]
    BY DEF Prune, SessInv
  <2>2. RequestOk(req[r]) /\ req[r] # NoRequest /\ DOMAIN req[r] = Fields
    BY <2>1, Underway
  <2>3. /\ DOMAIN req'[r] = Fields /\ req'[r].at = "list"
        /\ req'[r].old = req[r].old /\ req'[r].new = req[r].new
        /\ req'[r].excess = req[r].excess
    BY <2>1, <2>2 DEF Fields, RequestsOk
  <2>4. req[r].excess \subseteq 1..made
    BY <2>2 DEF RequestOk
  <2>5. DOMAIN req' = Req /\ \A q \in Req \ {r} : req'[q] = req[q]
    BY <2>1 DEF RequestsOk
  <2> QED BY <1>1, <2>1, <2>2, <2>3, <2>4, <2>5, GoesOnOk
<1> QED BY <1>1, <1>2, <1>3 DEF SessInv

LEMMA FindExcessKeeps ==
  ASSUME SessInv, NEW r \in Req, FindExcess(r)
  PROVE  SessInv'
<1>1. /\ TokensTyped' /\ NewestIsLive' /\ \A q : RequestOk(q) => RequestOk(q)'
  <2>1. UNCHANGED <<now, tokenVars, ended>>
    BY DEF FindExcess
  <2> QED BY <2>1, TokensSame
<1>2. JarsOk'
  BY DEF FindExcess, SessInv, JarsOk, clientVars, tokenVars
<1>3. RequestsOk'
  <2>1. Overflow(req[r].user) \subseteq 1..made
    BY DEF Overflow, ActiveOf, SessInv, TokensTyped
  <2> DEFINE over == Overflow(req[r].user)
  <2>2. req' = [req EXCEPT ![r].excess = over,
                           ![r].at = IF over = {} THEN "issue" ELSE "excess"]
    BY DEF FindExcess
  <2> HIDE DEF over
  <2>3. RequestsOk /\ At(r, "list") /\ UNCHANGED made
    BY DEF FindExcess, SessInv, tokenVars
  <2>4. RequestOk(req[r]) /\ req[r] # NoRequest /\ DOMAIN req[r] = Fields
    BY <2>3, Underway
  <2>5. /\ DOMAIN req'[r] = Fields /\ req'[r].at \in {"issue", "excess"}
        /\ req'[r].old = req[r].old /\ req'[r].new = req[r].new
        /\ req'[r].excess = over
    BY <2>2, <2>3, <2>4 DEF Fields, RequestsOk
  <2>6. DOMAIN req' = Req /\ \A q \in Req \ {r} : req'[q] = req[q]
    BY <2>2, <2>3 DEF RequestsOk
  <2> QED BY <1>1, <2>1, <2>3, <2>4, <2>5, <2>6, GoesOnOk DEF over
<1> QED BY <1>1, <1>2, <1>3 DEF SessInv

LEMMA RevokeExcessKeeps ==
  ASSUME SessInv, NEW r \in Req, RevokeExcess(r)
  PROVE  SessInv'
<1>1. /\ TokensTyped' /\ NewestIsLive' /\ \A q : RequestOk(q) => RequestOk(q)'
  <2>1. /\ revokedAt' \in [Token -> Nat]
        /\ \A t \in Token : t > made => revokedAt'[t] = Never
    BY MadeTokens DEF RevokeExcess, SessInv, TokensTyped
  <2>2. \A t \in 1..made : family[t] \notin ended' => revokedAt'[t] = revokedAt[t]
    BY MadeTokens DEF RevokeExcess, Ends, SessInv
  <2> QED BY <2>1, <2>2, SomeRevoked DEF RevokeExcess, Ends
<1>2. JarsOk'
  BY DEF RevokeExcess, SessInv, JarsOk, clientVars
<1>3. RequestsOk'
  <2>1. RequestsOk /\ At(r, "excess") /\ UNCHANGED made
    BY DEF RevokeExcess, SessInv
  <2>2. RequestOk(req[r]) /\ req[r] # NoRequest /\ DOMAIN req[r] = Fields
    BY <2>1, Underway
  <2>3. req' = [req EXCEPT ![r].at = "issue", ![r].excess = {}]
    BY DEF RevokeExcess
  <2>4. /\ DOMAIN req'[r] = Fields /\ req'[r].at = "issue"
        /\ req'[r].old = req[r].old /\ req'[r].new = req[r].new
        /\ req'[r].excess = {}
    BY <2>1, <2>2, <2>3 DEF Fields, RequestsOk
  <2>5. DOMAIN req' = Req /\ \A q \in Req \ {r} : req'[q] = req[q]
    BY <2>1, <2>3 DEF RequestsOk
  <2> QED BY <1>1, <2>1, <2>2, <2>4, <2>5, GoesOnOk
<1> QED BY <1>1, <1>2, <1>3 DEF SessInv

\* The new token is the newest of its family, and the others of that family are
\* no longer.
LEMMA IssueKeeps ==
  ASSUME SessInv, NEW r \in Req, Issue(r)
  PROVE  SessInv'
<1> DEFINE t == made + 1
           q == req[r]
<1>1. /\ t \in Token /\ made' = t /\ made \in Nat /\ Token = 1..MaxToken
      /\ row' = row \cup {t} /\ UNCHANGED <<now, revokedAt, jar, ended>>
      /\ family' = [family EXCEPT ![t] = FamilyFor(r, t)]
      /\ expires' = [expires EXCEPT ![t] = now + Life]
      /\ req' = [req EXCEPT ![r].new = t,
                            ![r].at = IF q.old = NoToken THEN "respond" ELSE "replace"]
  BY LimitsTyped DEF Issue, SessInv, TokensTyped, Token, clientVars, ghostVars
<1>2. RequestOk(q) /\ q # NoRequest
  BY Underway DEF SessInv, Issue
<1>3. FamilyFor(r, t) \in Nat /\ (q.old # NoToken => FamilyFor(r, t) = family[q.old])
  <2>1. q.old \in 0..made
    BY <1>2 DEF RequestOk
  <2>2. q.old # NoToken => q.old \in Token
    BY <1>1, <2>1, MadeTokens DEF NoToken, SessInv
  <2>3. family \in [Token -> Nat]
    BY DEF SessInv, TokensTyped
  <2> QED BY <1>1, <2>2, <2>3 DEF FamilyFor
<1>4. TokensTyped'
  <2>1. now' \in Nat /\ made' \in 0..MaxToken /\ row' \subseteq 1..made'
    BY <1>1 DEF SessInv, TokensTyped
  <2>2. now + Life \in Nat
    BY LimitsTyped DEF SessInv, TokensTyped
  <2>3. /\ family' \in [Token -> Nat] /\ expires' \in [Token -> Nat]
        /\ revokedAt' \in [Token -> Nat]
    BY <1>1, <1>3, <2>2 DEF SessInv, TokensTyped
  <2>4. \A x \in Token : x > made' => revokedAt'[x] = Never
    BY <1>1 DEF SessInv, TokensTyped
  <2> QED BY <2>1, <2>3, <2>4 DEF TokensTyped
<1>5. \A s \in 1..made : family'[s] = family[s] /\ expires'[s] = expires[s]
  BY <1>1 DEF SessInv, TokensTyped
<1>6. \A x : RequestOk(x) => RequestOk(x)'
  BY <1>1, <1>5, RequestsLast DEF SessInv
<1>7. RequestsOk'
  <2>1. DOMAIN req' = Req
    BY <1>1 DEF SessInv, RequestsOk
  <2>2. ASSUME NEW x \in Req, x # r PROVE RequestOk(req[x])'
    BY <1>1, <1>6, <2>2 DEF SessInv, RequestsOk
  <2>3. /\ req'[r] = [q EXCEPT !.new = t, !.at = IF q.old = NoToken THEN "respond" ELSE "replace"]
        /\ DOMAIN q = Fields
    BY <1>1, <1>2 DEF SessInv, RequestsOk, RequestOk
  <2>4. /\ DOMAIN req'[r] = Fields /\ req'[r].new = t /\ req'[r].old = q.old
        /\ req'[r].excess = q.excess
        /\ req'[r].at = IF q.old = NoToken THEN "respond" ELSE "replace"
    BY <2>3 DEF Fields
  <2>5. q.old # NoToken => family'[q.old] = family'[t] /\ q.old < t
    BY <1>1, <1>2, <1>3, <1>5 DEF RequestOk, NoToken, SessInv, TokensTyped
  <2>6. RequestOk(req[r])'
    <3>1. req'[r].old \in 0..made' /\ req'[r].new \in 0..made' /\ req'[r].excess \subseteq 1..made'
      <4>1. q.old \in 0..made /\ q.excess \subseteq 1..made
        BY <1>2 DEF RequestOk
      <4>2. 0..made \subseteq 0..t /\ 1..made \subseteq 1..t /\ t \in 0..t
        BY <1>1
      <4> QED BY <1>1, <2>4, <4>1, <4>2
    <3>2. /\ req'[r].at \notin {"idle", "tip", "revoke", "revokeOther"}
          /\ req'[r].at = "replace" => /\ req'[r].old < req'[r].new
                                       /\ family'[req'[r].old] = family'[req'[r].new]
      BY <2>4, <2>5
    <3> QED BY <2>4, <3>1, <3>2 DEF RequestOk
  <2> QED BY <2>1, <2>2, <2>6 DEF RequestsOk
<1>8. JarsOk'
  BY <1>1 DEF SessInv, JarsOk
<1>9. NewestIsLive'
  <2>1. ASSUME NEW s \in 1..made, IsNewest(s)' PROVE IsNewest(s)
    BY <1>1, <1>5, <2>1 DEF IsNewest
  <2>2. revokedAt[t] = Never
    BY <1>1 DEF SessInv, TokensTyped
  <2> QED BY <1>1, <1>5, <2>1, <2>2 DEF SessInv, NewestIsLive
<1> QED BY <1>4, <1>7, <1>8, <1>9 DEF SessInv

----------------------------------------------------------------------------
(* refresh *)

LEMMA BeginRefreshKeeps ==
  ASSUME SessInv, NEW r \in Req, NEW d \in Device, BeginRefresh(r, d)
  PROVE  SessInv'
<1>1. TokensTyped' /\ NewestIsLive' /\ JarsOk'
  BY TokensSame DEF BeginRefresh, SessInv, JarsOk, tokenVars, clientVars
<1>2. jar[d] \in 0..made /\ jar[d] # NoToken
  BY DEF BeginRefresh, SessInv, JarsOk
<1>3. UNCHANGED <<made, family>>
  BY DEF BeginRefresh, tokenVars
<1>4. PICK p \in {"issue", "tip"} : Arrive(r, d, owner[jar[d]], jar[d], p)
  BY DEF BeginRefresh
<1>5. RequestsOk'
  BY <1>2, <1>3, <1>4, ArriveOk
<1> QED BY <1>1, <1>5 DEF SessInv

LEMMA FindTipKeeps ==
  ASSUME SessInv, NEW r \in Req, FindTip(r)
  PROVE  SessInv'
<1>1. /\ TokensTyped' /\ NewestIsLive' /\ JarsOk'
      /\ \A q : RequestOk(q) => RequestOk(q)'
  BY TokensSame DEF FindTip, SessInv, JarsOk, tokenVars, clientVars, ghostVars
<1>2. RequestsOk /\ At(r, "tip") /\ UNCHANGED made
  BY DEF FindTip, SessInv, tokenVars
<1>3. RequestOk(req[r]) /\ req[r] # NoRequest /\ DOMAIN req[r] = Fields
  BY <1>2, Underway
<1>4. CASE Leave(r)
  BY <1>1, <1>2, <1>4, LeaveOk DEF SessInv
<1>5. ASSUME NEW t \in TipFor(r), req' = [req EXCEPT ![r].old = t, ![r].at = "issue"]
      PROVE  SessInv'
  <2>1. t \in 1..made
    BY DEF TipFor, Tip, SessInv, TokensTyped
  <2>2. /\ DOMAIN req'[r] = Fields /\ req'[r].at = "issue"
        /\ req'[r].old = t /\ req'[r].new = req[r].new /\ req'[r].excess = req[r].excess
    BY <1>2, <1>3, <1>5 DEF Fields, RequestsOk
  <2>3. DOMAIN req' = Req /\ \A q \in Req \ {r} : req'[q] = req[q]
    BY <1>2, <1>5 DEF RequestsOk
  <2>4. RequestOk(req[r])'
    BY <1>2, <1>3, <2>1, <2>2 DEF RequestOk, SessInv, TokensTyped
  <2>5. RequestsOk'
    BY <1>1, <1>2, <2>3, <2>4 DEF RequestsOk
  <2> QED BY <1>1, <2>5 DEF SessInv
<1> QED BY <1>4, <1>5, <1>1 DEF FindTip, SessInv

\* Only a token that another has succeeded is revoked.
LEMMA ReplaceKeeps ==
  ASSUME SessInv, NEW r \in Req, Replace(r)
  PROVE  SessInv'
<1>1. RequestsOk /\ At(r, "replace") /\ UNCHANGED <<now, made, row, family, expires, ended, jar>>
  BY DEF Replace, SessInv, clientVars
<1>2. RequestOk(req[r]) /\ req[r] # NoRequest /\ DOMAIN req[r] = Fields
  BY <1>1, Underway
<1>3. /\ req[r].old \in 1..made /\ req[r].new \in 1..made
      /\ req[r].old < req[r].new /\ family[req[r].old] = family[req[r].new]
  BY <1>1, <1>2 DEF RequestOk, At, NoToken, SessInv, TokensTyped
<1>4. JarsOk'
  BY <1>1 DEF SessInv, JarsOk
<1>5. CASE req[r].old \in row
  <2>1. revokedAt' = [revokedAt EXCEPT ![req[r].old] = now]
    BY <1>5 DEF Replace, RevokesOld
  <2>2. req' = [req EXCEPT ![r].at = "respond"]
    BY <1>5 DEF Replace
  <2>3. ~IsNewest(req[r].old)
    BY <1>3 DEF IsNewest, SessInv, TokensTyped
  <2>4. /\ revokedAt' \in [Token -> Nat]
        /\ \A t \in Token : t > made => revokedAt'[t] = Never
    <3>1. made \in Nat /\ now \in Nat /\ revokedAt \in [Token -> Nat]
      BY LimitsTyped DEF SessInv, TokensTyped
    <3>2. revokedAt' \in [Token -> Nat]
      BY <2>1, <3>1
    <3>3. \A t \in Token \ {req[r].old} : revokedAt'[t] = revokedAt[t]
      BY <2>1, <3>1
    <3> QED BY <1>3, <3>1, <3>2, <3>3 DEF SessInv, TokensTyped
  <2>5. \A t \in 1..made : IsNewest(t) => revokedAt'[t] = revokedAt[t]
    BY <2>1, <2>3, LimitsTyped DEF SessInv, TokensTyped, Token
  <2>6. /\ TokensTyped' /\ NewestIsLive' /\ \A q : RequestOk(q) => RequestOk(q)'
    BY <1>1, <2>4, <2>5, SomeRevoked
  <2>7. /\ DOMAIN req'[r] = Fields /\ req'[r].at = "respond"
        /\ req'[r].old = req[r].old /\ req'[r].new = req[r].new
        /\ req'[r].excess = req[r].excess
    BY <1>1, <1>2, <2>2 DEF Fields, RequestsOk
  <2>8. req[r].excess \subseteq 1..made
    BY <1>2 DEF RequestOk
  <2>9. DOMAIN req' = Req /\ \A q \in Req \ {r} : req'[q] = req[q]
    BY <1>1, <2>2 DEF RequestsOk
  <2>10. RequestsOk'
    BY <1>1, <1>2, <2>6, <2>7, <2>8, <2>9, GoesOnOk
  <2> QED BY <1>4, <2>6, <2>10 DEF SessInv
<1>6. CASE req[r].old \notin row
  <2>1. Leave(r) /\ UNCHANGED <<now, tokenVars, ended>>
    BY <1>6 DEF Replace, tokenVars
  <2> QED BY <1>4, <2>1, TokensSame, LeaveOk DEF SessInv
<1> QED BY <1>5, <1>6

----------------------------------------------------------------------------
(* logout, logout-all, sessions/:id/revoke *)

LEMMA BeginLogoutKeeps ==
  ASSUME SessInv, NEW r \in Req, NEW d \in Device, BeginLogout(r, d)
  PROVE  SessInv'
<1>1. TokensTyped' /\ NewestIsLive' /\ JarsOk'
  BY TokensSame DEF BeginLogout, SessInv, JarsOk, tokenVars, clientVars
<1>2. jar[d] \in 0..made /\ jar[d] # NoToken
  BY DEF BeginLogout, SessInv, JarsOk
<1>3. UNCHANGED <<made, family>>
  BY DEF BeginLogout, tokenVars
<1>4. PICK p \in {"revoke", "cleared"} : Arrive(r, d, owner[jar[d]], jar[d], p)
  BY DEF BeginLogout
<1>5. RequestsOk'
  BY <1>2, <1>3, <1>4, ArriveOk
<1> QED BY <1>1, <1>5 DEF SessInv

LEMMA BeginRevokeKeeps ==
  ASSUME SessInv, NEW r \in Req, NEW d \in Device, NEW t \in Token, BeginRevoke(r, d, t)
  PROVE  SessInv'
<1>1. TokensTyped' /\ NewestIsLive' /\ JarsOk'
  BY TokensSame DEF BeginRevoke, SessInv, JarsOk, tokenVars, clientVars
<1>2. t \in 0..made /\ t # NoToken
  BY DEF BeginRevoke, Sessions, ActiveOf, SessInv, TokensTyped, NoToken
<1>3. UNCHANGED <<made, family>>
  BY DEF BeginRevoke, tokenVars
<1>4. Arrive(r, d, owner[t], t, "revokeOther")
  BY DEF BeginRevoke
<1>5. RequestsOk'
  BY <1>2, <1>3, <1>4, ArriveOk
<1> QED BY <1>1, <1>5 DEF SessInv

LEMMA RevokeOneKeeps ==
  ASSUME SessInv, NEW r \in Req, RevokeOne(r)
  PROVE  SessInv'
<1> DEFINE t == req[r].old
<1>1. /\ RequestsOk /\ req[r].at \in {"revoke", "revokeOther"}
      /\ UNCHANGED <<now, made, row, family, expires, jar>>
      /\ revokedAt' = [revokedAt EXCEPT ![t] = IF t \in row THEN now ELSE @]
      /\ ended' = ended \cup {family[t]}
      /\ req' = [req EXCEPT ![r].at = "cleared"] \/ Leave(r)
  BY DEF RevokeOne, SessInv, clientVars, Ends
<1>2. RequestOk(req[r]) /\ req[r] # NoRequest /\ DOMAIN req[r] = Fields
  BY <1>1, Underway DEF At
<1>3. t \in 1..made
  BY <1>1, <1>2 DEF RequestOk, NoToken, SessInv, TokensTyped
<1>4. /\ revokedAt' \in [Token -> Nat]
      /\ \A s \in Token : s > made => revokedAt'[s] = Never
  <2>1. made \in Nat /\ now \in Nat /\ revokedAt \in [Token -> Nat] /\ t \in Token
    BY <1>3, MadeTokens DEF SessInv
  <2>2. revokedAt' \in [Token -> Nat]
    BY <1>1, <2>1
  <2>3. \A s \in Token \ {t} : revokedAt'[s] = revokedAt[s]
    BY <1>1, <2>1
  <2> QED BY <1>3, <2>1, <2>2, <2>3 DEF SessInv, TokensTyped
<1>5. \A s \in 1..made : family[s] \notin ended' => revokedAt'[s] = revokedAt[s]
  BY <1>1, MadeTokens DEF SessInv
<1>6. /\ TokensTyped' /\ NewestIsLive' /\ \A q : RequestOk(q) => RequestOk(q)'
  BY <1>1, <1>4, <1>5, SomeRevoked
<1>7. JarsOk'
  BY <1>1 DEF SessInv, JarsOk
<1>8. CASE Leave(r)
  BY <1>1, <1>6, <1>7, <1>8, LeaveOk DEF SessInv
<1>9. CASE req' = [req EXCEPT ![r].at = "cleared"]
  <2>1. /\ DOMAIN req'[r] = Fields /\ req'[r].at = "cleared"
        /\ req'[r].old = req[r].old /\ req'[r].new = req[r].new
        /\ req'[r].excess = req[r].excess
    BY <1>1, <1>2, <1>9 DEF Fields, RequestsOk
  <2>2. req[r].excess \subseteq 1..made
    BY <1>2 DEF RequestOk
  <2>3. DOMAIN req' = Req /\ \A q \in Req \ {r} : req'[q] = req[q]
    BY <1>1, <1>9 DEF RequestsOk
  <2>4. RequestsOk'
    BY <1>1, <1>2, <1>6, <2>1, <2>2, <2>3, GoesOnOk
  <2> QED BY <1>6, <1>7, <2>4 DEF SessInv
<1> QED BY <1>1, <1>8, <1>9

LEMMA LogoutAllKeeps ==
  ASSUME SessInv, NEW r \in Req, NEW d \in Device, LogoutAll(r, d)
  PROVE  SessInv'
<1> DEFINE u == owner[jar[d]]
           mine == {t \in row : owner[t] = u /\ revokedAt[t] = Never}
<1>1. /\ UNCHANGED <<now, made, row, family, expires, jar>>
      /\ revokedAt' = [t \in Token |-> IF t \in mine THEN now ELSE revokedAt[t]]
      /\ ended' = ended \cup {family[t] : t \in mine}
      /\ req' = [req EXCEPT ![r] = [at |-> "cleared", dev |-> d, user |-> u, old |-> NoToken,
                                    new |-> NoToken, excess |-> {}, alone |-> FALSE]]
  BY DEF LogoutAll, clientVars, Ends
<1>2. mine \subseteq 1..made
  BY DEF SessInv, TokensTyped
<1> HIDE DEF mine, u
<1>3. /\ revokedAt' \in [Token -> Nat]
      /\ \A s \in Token : s > made => revokedAt'[s] = Never
  <2>1. made \in Nat /\ now \in Nat /\ revokedAt \in [Token -> Nat]
    BY MadeTokens DEF SessInv
  <2>2. revokedAt' \in [Token -> Nat]
    BY <1>1, <2>1
  <2>3. \A s \in Token : s > made => revokedAt[s] = Never
    BY DEF SessInv, TokensTyped
  <2>4. \A s \in Token : s > made => s \notin 1..made
    BY <2>1
  <2> QED BY <1>1, <1>2, <2>2, <2>3, <2>4
<1>4. \A s \in 1..made : family[s] \notin ended' => revokedAt'[s] = revokedAt[s]
  BY <1>1, MadeTokens DEF SessInv
<1>5. /\ TokensTyped' /\ NewestIsLive' /\ \A q : RequestOk(q) => RequestOk(q)'
  BY <1>1, <1>3, <1>4, SomeRevoked
<1>6. JarsOk'
  BY <1>1 DEF SessInv, JarsOk
<1>7. RequestsOk'
  <2>1. RequestOk(req[r])'
    BY <1>1 DEF SessInv, RequestsOk, RequestOk, Fields, NoToken, TokensTyped
  <2>2. DOMAIN req' = Req /\ \A q \in Req \ {r} : req'[q] = req[q]
    BY <1>1 DEF SessInv, RequestsOk
  <2> QED BY <1>5, <2>1, <2>2 DEF SessInv, RequestsOk
<1> QED BY <1>5, <1>6, <1>7 DEF SessInv

----------------------------------------------------------------------------
(* Responses, failures, time. *)

LEMMA RespondKeeps ==
  ASSUME SessInv, NEW r \in Req, Respond(r)
  PROVE  SessInv'
<1>1. /\ TokensTyped' /\ NewestIsLive' /\ \A q : RequestOk(q) => RequestOk(q)'
  BY TokensSame DEF Respond, tokenVars, ghostVars
<1>2. RequestsOk'
  BY <1>1, LeaveOk DEF Respond, SessInv
<1>3. req[r].new \in 0..made
  BY Underway DEF Respond, At, SessInv, RequestOk
<1>4. JarsOk'
  BY <1>3 DEF Respond, tokenVars, SessInv, JarsOk
<1> QED BY <1>1, <1>2, <1>4 DEF SessInv

LEMMA CutOffKeeps ==
  ASSUME SessInv, NEW r \in Req, CutOff(r)
  PROVE  SessInv'
<1>1. /\ TokensTyped' /\ NewestIsLive' /\ \A q : RequestOk(q) => RequestOk(q)'
  BY TokensSame DEF CutOff, tokenVars
<1>2. RequestsOk' /\ JarsOk'
  BY <1>1, LeaveOk DEF CutOff, SessInv, JarsOk, tokenVars, clientVars
<1> QED BY <1>1, <1>2 DEF SessInv

LEMMA SetStandingKeeps ==
  ASSUME SessInv, NEW u \in User, SetStanding(u)
  PROVE  SessInv'
BY TokensSame DEF SetStanding, SessInv, RequestsOk, JarsOk, tokenVars, clientVars, ghostVars

LEMMA TickKeeps ==
  ASSUME SessInv, Tick
  PROVE  SessInv'
<1>1. UNCHANGED <<made, row, family, expires, revokedAt, jar, req, ended>> /\ now' = now + 1
  BY DEF Tick, tokenVars, ghostVars
<1>2. TokensTyped'
  BY <1>1 DEF SessInv, TokensTyped
<1>3. NewestIsLive'
  <2>1. ASSUME NEW t \in 1..made, expires[t] < now PROVE expires[t] < now + 1
    <3>1. expires[t] \in Nat /\ now \in Nat
      BY LimitsTyped DEF SessInv, TokensTyped, Token
    <3> QED BY <2>1, <3>1
  <2> QED BY <1>1, <2>1 DEF SessInv, NewestIsLive, IsNewest
<1>4. \A q : RequestOk(q) => RequestOk(q)'
  BY <1>1, RequestsLast DEF SessInv, TokensTyped
<1> QED BY <1>1, <1>2, <1>3, <1>4 DEF SessInv, RequestsOk, JarsOk

----------------------------------------------------------------------------
(* The theorem. *)

LEMMA SessInvInit == SessionInit => SessInv
<1> SUFFICES ASSUME SessionInit PROVE SessInv
  OBVIOUS
<1>1. TokensTyped
  BY LimitsTyped DEF SessionInit, TokensTyped, NoToken, Never
<1>2. RequestsOk /\ JarsOk
  BY DEF SessionInit, RequestsOk, RequestOk, JarsOk, NoToken
<1>3. NewestIsLive
  BY DEF SessionInit, NewestIsLive
<1> QED BY <1>1, <1>2, <1>3 DEF SessInv

LEMMA SessInvStep == SessInv /\ [Next]_vars => SessInv'
<1> SUFFICES ASSUME SessInv, [Next]_vars PROVE SessInv'
  OBVIOUS
<1>1. CASE Next
  BY <1>1, BeginLoginKeeps, CheckPasswordKeeps, PruneKeeps, FindExcessKeeps, RevokeExcessKeeps, IssueKeeps,
     BeginRefreshKeeps, FindTipKeeps, ReplaceKeeps, BeginLogoutKeeps, BeginRevokeKeeps,
     RevokeOneKeeps, LogoutAllKeeps, RespondKeeps, CutOffKeeps, SetStandingKeeps, TickKeeps
     DEF Next, RequestStep
<1>2. CASE UNCHANGED vars
  BY <1>2, TokensSame DEF vars, tokenVars, SessInv, RequestsOk, JarsOk
<1> QED BY <1>1, <1>2

----------------------------------------------------------------------------
(* The tokens and the requests in order. *)

\* A token whose row is gone was out of date, or revoked long ago.
Forgotten(t) == \/ expires[t] < now
                \/ revokedAt[t] # Never /\ revokedAt[t] + Retention < now

\* Tokens are made in the order of their expiry; a family is named by its first,
\* and is of one user.
TokenOrder ==
  /\ now \in 1..MaxTime
  /\ DOMAIN owner = Token
  /\ ended \subseteq 1..made
  /\ \A t \in 1..made : /\ owner[t] \in User
                        /\ family[t] \in 1..t
                        /\ expires[t] <= now + Life
                        /\ revokedAt[t] <= now
                        /\ t \in row \/ Forgotten(t)
  /\ \A s, t \in 1..made : s <= t => expires[s] <= expires[t]
  /\ \A s, t \in 1..made : family[s] = family[t] => owner[s] = owner[t]

Places == {"password", "prune", "list", "excess", "issue", "tip", "replace",
           "revoke", "revokeOther", "respond", "cleared"}

IsRecord(q) == q = [x \in Fields |-> q[x]]

\* What a request has at each place.
RequestOrder(q) ==
  q # NoRequest =>
    /\ IsRecord(q)
    /\ q.at \in Places /\ q.dev \in Device /\ q.user \in User /\ q.alone \in BOOLEAN
    /\ q.new # NoToken <=> q.at \in {"replace", "respond"}
    /\ q.at \in {"password", "prune", "list", "excess"} => q.old = NoToken
    /\ q.at # "excess" => q.excess = {}
    /\ q.old # NoToken => q.user = owner[q.old]
    /\ q.old # NoToken /\ q.new # NoToken => family[q.old] = family[q.new]

Ordered == TokenOrder /\ \A r \in Req : RequestOrder(req[r])

\* What a step of another request leaves as it is.
SameRequest(q) ==
  /\ req'[q].at = req[q].at /\ req'[q].dev = req[q].dev /\ req'[q].user = req[q].user
  /\ req'[q].old = req[q].old /\ req'[q].new = req[q].new /\ req'[q].excess = req[q].excess
  /\ req'[q].alone \in {req[q].alone, FALSE}
  /\ IsRecord(req[q]) => IsRecord(req'[q])

\* What a request goes on with.
Becomes(r, at, old, new, excess) ==
  /\ DOMAIN req'[r] = Fields /\ IsRecord(req'[r]) /\ req'[r].at = at
  /\ req'[r].dev = req[r].dev /\ req'[r].user = req[r].user /\ req'[r].alone = req[r].alone
  /\ req'[r].old = old /\ req'[r].new = new /\ req'[r].excess = excess

\* A step that creates no token.
TokensKept ==
  /\ UNCHANGED <<now, made, owner, family, expires>>
  /\ row' \subseteq row /\ ended \subseteq ended' /\ troubled \subseteq troubled'
  /\ \A t \in 1..made : /\ t \in row => t \in row' \/ Forgotten(t)
                        /\ \/ revokedAt'[t] = revokedAt[t]
                           \/ t \in row' /\ revokedAt'[t] = now
  /\ \A f \in ended' \ ended : \E t \in 1..made : f = family[t]

LEMMA Others ==
  ASSUME SessInv, NEW r \in Req, RequestStep(r)
  PROVE  DOMAIN req' = Req /\ \A q \in Req \ {r} : SameRequest(q)
<1> DEFINE Goal == DOMAIN req' = Req /\ \A q \in Req \ {r} : SameRequest(q)
<1>1. DOMAIN req = Req /\ \A q \in Req : RequestOk(req[q])
  BY DEF SessInv, RequestsOk
<1>2. ASSUME DOMAIN req' = Req, \A q \in Req \ {r} : req'[q] = req[q] PROVE Goal
  BY <1>2 DEF SameRequest
<1>3. ASSUME NEW d, NEW u, NEW t, NEW p, Arrive(r, d, u, t, p) PROVE Goal
  <2>1. DOMAIN req' = Req
    BY <1>3 DEF Arrive
  <2>2. ASSUME NEW q \in Req \ {r} PROVE SameRequest(q)
    <3>1. CASE Idle(q)
      <4>1. req[q] = NoRequest
        BY <1>1, <3>1 DEF RequestOk, Idle, At
      <4>2. req'[q] = NoRequest
        BY <1>3, <3>1 DEF Arrive
      <4> QED BY <4>1, <4>2 DEF SameRequest
    <3>2. CASE ~Idle(q)
      <4>1. DOMAIN req[q] = Fields
        BY <1>1, <3>2 DEF RequestOk, Idle, At, NoRequest
      <4>2. req'[q] = [req[q] EXCEPT !.alone = FALSE]
        BY <1>3, <3>2 DEF Arrive
      <4> QED BY <4>1, <4>2 DEF SameRequest, Fields, IsRecord
    <3> QED BY <3>1, <3>2
  <2> QED BY <2>1, <2>2
<1>4. ASSUME UNCHANGED req PROVE Goal
  BY <1>1, <1>2, <1>4
<1>5. ASSUME NEW x, req' = [req EXCEPT ![r] = x] PROVE Goal
  BY <1>1, <1>2, <1>5
<1>6. ASSUME Leave(r) PROVE Goal
  BY <1>5, <1>6 DEF Leave
<1> HIDE DEF Goal
<1>7. ASSUME NEW d \in Device, NEW u \in User, BeginLogin(r, d, u) PROVE Goal
  <2>1. CASE LockedOut(u)
    <3>1. UNCHANGED req
      BY <1>7, <2>1 DEF BeginLogin
    <3> QED BY <3>1, <1>4
  <2>2. CASE ~LockedOut(u)
    BY <1>7, <2>2, <1>3 DEF BeginLogin
  <2> QED BY <2>1, <2>2
<1>8. ASSUME NEW d \in Device, BeginRefresh(r, d) \/ BeginLogout(r, d) PROVE Goal
  BY <1>8, <1>3 DEF BeginRefresh, BeginLogout
<1>9. ASSUME NEW d \in Device, NEW t \in Token, BeginRevoke(r, d, t) PROVE Goal
  BY <1>9, <1>3 DEF BeginRevoke
<1>10. ASSUME NEW d \in Device, LogoutAll(r, d) PROVE Goal
  BY <1>10, <1>5 DEF LogoutAll
<1>11. ASSUME NEW right \in BOOLEAN, CheckPassword(r, right), ~Leave(r) PROVE Goal
  <2>1. req' = [req EXCEPT ![r].at = "prune"]
    BY <1>11 DEF CheckPassword
  <2> QED BY <2>1, <1>1, <1>2
<1>12. ASSUME FindExcess(r) PROVE Goal
  <2> DEFINE over == Overflow(req[r].user)
  <2>1. req' = [req EXCEPT ![r].excess = over,
                           ![r].at = IF over = {} THEN "issue" ELSE "excess"]
    BY <1>12 DEF FindExcess
  <2> HIDE DEF over
  <2> QED BY <2>1, <1>1, <1>2
<1>13. ASSUME RevokeExcess(r) PROVE Goal
  <2>1. req' = [req EXCEPT ![r].at = "issue", ![r].excess = {}]
    BY <1>13 DEF RevokeExcess
  <2> QED BY <2>1, <1>1, <1>2
<1>14. ASSUME Issue(r) PROVE Goal
  <2>1. PICK t : req' = [req EXCEPT ![r].new = t,
                          ![r].at = IF req[r].old = NoToken THEN "respond" ELSE "replace"]
    BY <1>14 DEF Issue
  <2> QED BY <2>1, <1>1, <1>2
<1>15. ASSUME Replace(r) \/ RevokeOne(r) \/ FindTip(r), ~Leave(r) PROVE Goal
  <2>1. \/ \E p : req' = [req EXCEPT ![r].at = p]
        \/ \E t : req' = [req EXCEPT ![r].old = t, ![r].at = "issue"]
    BY <1>15 DEF Replace, RevokeOne, FindTip
  <2> QED BY <2>1, <1>1, <1>2
<1>16. ASSUME Respond(r) \/ CutOff(r) PROVE Goal
  BY <1>16, <1>6 DEF Respond, CutOff
<1>17. ASSUME Prune(r) PROVE Goal
  <2>1. req' = [req EXCEPT ![r].at = "list"]
    BY <1>17 DEF Prune
  <2> QED BY <2>1, <1>1, <1>2
<1>18. Goal
  BY <1>6, <1>7, <1>8, <1>9, <1>10, <1>11, <1>12, <1>13, <1>14, <1>15, <1>16, <1>17 DEF RequestStep
<1> QED BY <1>18 DEF Goal

\* A request that is underway, and what it handles.
LEMMA Inside ==
  ASSUME SessInv, NEW r \in Req
  PROVE  /\ Handles(r) \subseteq 1..made
         /\ Idle(r) <=> req[r] = NoRequest
<1>1. RequestOk(req[r])
  BY DEF SessInv, RequestsOk
<1>2. Idle(r) <=> req[r] = NoRequest
  BY <1>1 DEF RequestOk, Idle, At, NoRequest
<1>3. ASSUME ~Idle(r) PROVE Handles(r) \subseteq 1..made
  <2>1. req[r].old \in 0..made /\ req[r].new \in 0..made /\ req[r].excess \subseteq 1..made
    BY <1>1, <1>2, <1>3 DEF RequestOk
  <2> QED BY <1>3, <2>1 DEF Handles, NoToken, SessInv, TokensTyped
<1> QED BY <1>2, <1>3 DEF Handles

LEMMA PasswordBecomes ==
  ASSUME SessInv, NEW r \in Req, NEW right \in BOOLEAN, CheckPassword(r, right), ~Leave(r)
  PROVE  Becomes(r, "prune", req[r].old, req[r].new, req[r].excess)
<1>1. req' = [req EXCEPT ![r].at = "prune"] /\ DOMAIN req = Req /\ At(r, "password")
  BY DEF CheckPassword, SessInv, RequestsOk
<1>2. DOMAIN req[r] = Fields
  BY <1>1, Underway DEF SessInv
<1> QED BY <1>1, <1>2 DEF Becomes, Fields, IsRecord

LEMMA PruneBecomes ==
  ASSUME SessInv, NEW r \in Req, Prune(r)
  PROVE  Becomes(r, "list", req[r].old, req[r].new, req[r].excess)
<1>1. req' = [req EXCEPT ![r].at = "list"] /\ DOMAIN req = Req /\ At(r, "prune")
  BY DEF Prune, SessInv, RequestsOk
<1>2. DOMAIN req[r] = Fields
  BY <1>1, Underway DEF SessInv
<1> QED BY <1>1, <1>2 DEF Becomes, Fields, IsRecord

LEMMA FindExcessBecomes ==
  ASSUME SessInv, NEW r \in Req, FindExcess(r)
  PROVE  Becomes(r, IF Overflow(req[r].user) = {} THEN "issue" ELSE "excess",
                 req[r].old, req[r].new, Overflow(req[r].user))
<1> DEFINE over == Overflow(req[r].user)
<1>1. /\ req' = [req EXCEPT ![r].excess = over,
                            ![r].at = IF over = {} THEN "issue" ELSE "excess"]
      /\ DOMAIN req = Req /\ At(r, "list")
  BY DEF FindExcess, SessInv, RequestsOk
<1>2. DOMAIN req[r] = Fields
  BY <1>1, Underway DEF SessInv
<1> HIDE DEF over
<1>3. Becomes(r, IF over = {} THEN "issue" ELSE "excess", req[r].old, req[r].new, over)
  BY <1>1, <1>2 DEF Becomes, Fields, IsRecord
<1> QED BY <1>3 DEF over

LEMMA ExcessBecomes ==
  ASSUME SessInv, NEW r \in Req, RevokeExcess(r)
  PROVE  Becomes(r, "issue", req[r].old, req[r].new, {})
<1>1. /\ req' = [req EXCEPT ![r].at = "issue", ![r].excess = {}]
      /\ DOMAIN req = Req /\ At(r, "excess")
  BY DEF RevokeExcess, SessInv, RequestsOk
<1>2. DOMAIN req[r] = Fields
  BY <1>1, Underway DEF SessInv
<1> QED BY <1>1, <1>2 DEF Becomes, Fields, IsRecord

LEMMA IssueBecomes ==
  ASSUME SessInv, NEW r \in Req, Issue(r)
  PROVE  Becomes(r, IF req[r].old = NoToken THEN "respond" ELSE "replace",
                 req[r].old, made + 1, req[r].excess)
<1> DEFINE p == IF req[r].old = NoToken THEN "respond" ELSE "replace"
<1>1. /\ req' = [req EXCEPT ![r].new = made + 1, ![r].at = p]
      /\ DOMAIN req = Req /\ At(r, "issue")
  BY DEF Issue, SessInv, RequestsOk
<1>2. DOMAIN req[r] = Fields
  BY <1>1, Underway DEF SessInv
<1> HIDE DEF p
<1>3. Becomes(r, p, req[r].old, made + 1, req[r].excess)
  BY <1>1, <1>2 DEF Becomes, Fields, IsRecord
<1> QED BY <1>3 DEF p

LEMMA TipBecomes ==
  ASSUME SessInv, NEW r \in Req, FindTip(r), ~Leave(r)
  PROVE  \E t \in TipFor(r) : Becomes(r, "issue", t, req[r].new, req[r].excess)
<1>1. PICK t \in TipFor(r) : req' = [req EXCEPT ![r].old = t, ![r].at = "issue"]
  BY DEF FindTip
<1>2. DOMAIN req = Req /\ At(r, "tip")
  BY DEF FindTip, SessInv, RequestsOk
<1>3. DOMAIN req[r] = Fields
  BY <1>2, Underway DEF SessInv
<1> QED BY <1>1, <1>2, <1>3 DEF Becomes, Fields, IsRecord

LEMMA ReplaceBecomes ==
  ASSUME SessInv, NEW r \in Req, Replace(r), req[r].old \in row
  PROVE  Becomes(r, "respond", req[r].old, req[r].new, req[r].excess)
<1>1. req' = [req EXCEPT ![r].at = "respond"] /\ DOMAIN req = Req /\ At(r, "replace")
  BY DEF Replace, SessInv, RequestsOk
<1>2. DOMAIN req[r] = Fields
  BY <1>1, Underway DEF SessInv
<1> QED BY <1>1, <1>2 DEF Becomes, Fields, IsRecord

LEMMA RevokeBecomes ==
  ASSUME SessInv, NEW r \in Req, RevokeOne(r), ~Leave(r)
  PROVE  Becomes(r, "cleared", req[r].old, req[r].new, req[r].excess) /\ At(r, "revoke")
<1>1. /\ req' = [req EXCEPT ![r].at = "cleared"] /\ DOMAIN req = Req
      /\ At(r, "revoke")
  BY DEF RevokeOne, SessInv, RequestsOk
<1>2. DOMAIN req[r] = Fields
  BY <1>1, Underway DEF SessInv
<1> QED BY <1>1, <1>2 DEF Becomes, Fields, IsRecord

\* Every step of a request but the creation of a token leaves the tokens.
LEMMA KeptTokens ==
  ASSUME SessInv, NEW r \in Req, RequestStep(r), ~Issue(r)
  PROVE  TokensKept
<1> USE DEF TokensKept
<1>1. ASSUME NEW d \in Device, NEW u \in User, BeginLogin(r, d, u) PROVE TokensKept
  BY <1>1 DEF BeginLogin, Arrive, tokenVars
<1>2. ASSUME NEW d \in Device, BeginRefresh(r, d) \/ BeginLogout(r, d) PROVE TokensKept
  BY <1>2 DEF BeginRefresh, BeginLogout, Arrive, tokenVars
<1>3. ASSUME NEW d \in Device, NEW t \in Token, BeginRevoke(r, d, t) PROVE TokensKept
  BY <1>3 DEF BeginRevoke, Arrive, tokenVars
<1>4. ASSUME NEW right \in BOOLEAN, CheckPassword(r, right) PROVE TokensKept
  BY <1>4 DEF CheckPassword, tokenVars, ghostVars
<1>5. ASSUME FindTip(r) \/ Respond(r) \/ CutOff(r) PROVE TokensKept
  BY <1>5 DEF FindTip, Respond, CutOff, tokenVars, ghostVars
<1>6. ASSUME Prune(r) \/ FindExcess(r) PROVE TokensKept
  BY <1>6 DEF Prune, FindExcess, Stale, Forgotten, tokenVars, ghostVars
<1>7. 1..made \subseteq Token /\ revokedAt \in [Token -> Nat] /\ RequestsOk
  BY LimitsTyped DEF SessInv, TokensTyped, Token
<1>8. ASSUME NEW d \in Device, LogoutAll(r, d) PROVE TokensKept
  <2> DEFINE mine == {t \in row : owner[t] = owner[jar[d]] /\ revokedAt[t] = Never}
  <2>1. /\ UNCHANGED <<now, made, row, owner, family, expires>>
        /\ revokedAt' = [t \in Token |-> IF t \in mine THEN now ELSE revokedAt[t]]
        /\ ended' = ended \cup {family[t] : t \in mine} /\ troubled \subseteq troubled'
    BY <1>8 DEF LogoutAll, Ends
  <2>2. mine \subseteq row /\ mine \subseteq 1..made
    BY DEF SessInv, TokensTyped
  <2> HIDE DEF mine
  <2> QED BY <2>1, <2>2, <1>7
<1>9. ASSUME RevokeExcess(r) PROVE TokensKept
  <2>1. /\ UNCHANGED <<now, made, row, owner, family, expires>>
        /\ revokedAt' = [t \in Token |-> IF t \in req[r].excess \cap row THEN now ELSE revokedAt[t]]
        /\ ended' = ended \cup {family[t] : t \in req[r].excess} /\ troubled \subseteq troubled'
        /\ At(r, "excess")
    BY <1>9 DEF RevokeExcess, Ends
  <2>2. req[r].excess \subseteq 1..made
    BY <1>7, <2>1, Underway DEF RequestOk
  <2> QED BY <2>1, <2>2, <1>7
<1>10. ASSUME RevokeOne(r) PROVE TokensKept
  <2> DEFINE t == req[r].old
  <2>1. /\ UNCHANGED <<now, made, row, owner, family, expires>>
        /\ revokedAt' = [revokedAt EXCEPT ![t] = IF t \in row THEN now ELSE @]
        /\ ended' = ended \cup {family[t]} /\ troubled \subseteq troubled'
        /\ req[r].at \in {"revoke", "revokeOther"}
    BY <1>10 DEF RevokeOne, Ends
  <2>2. t \in 1..made
    BY <1>7, <2>1, Underway DEF RequestOk, At, NoToken, SessInv, TokensTyped
  <2> HIDE DEF t
  <2> QED BY <2>1, <2>2, <1>7
<1>11. ASSUME Replace(r) PROVE TokensKept
  <2>1. /\ UNCHANGED <<now, made, row, owner, family, expires, ended>> /\ troubled \subseteq troubled'
        /\ \/ UNCHANGED revokedAt
           \/ req[r].old \in row /\ revokedAt' = [revokedAt EXCEPT ![req[r].old] = now]
    BY <1>11 DEF Replace, RevokesOld
  <2> QED BY <2>1, <1>7
<1> QED BY <1>1, <1>2, <1>3, <1>4, <1>5, <1>6, <1>8, <1>9, <1>10, <1>11 DEF RequestStep

LEMMA OrderKept ==
  ASSUME SessInv, TokenOrder, TokensKept
  PROVE  TokenOrder'
<1>1. \A t \in 1..made : expires[t] \in Nat /\ revokedAt[t] \in Nat /\ now \in Nat
  BY LimitsTyped DEF SessInv, TokensTyped, Token
<1>2. \A t \in 1..made : revokedAt'[t] <= now /\ (t \in row' \/ Forgotten(t)')
  BY <1>1 DEF TokensKept, TokenOrder, Forgotten
<1>3. ended' \subseteq 1..made
  <2>1. made \in Nat /\ \A t \in 1..made : family[t] \in 1..made
    BY DEF SessInv, TokensTyped, TokenOrder
  <2> QED BY <2>1 DEF TokensKept, TokenOrder
<1> QED BY <1>2, <1>3 DEF TokensKept, TokenOrder

\* A request that does not step stays in order.
LEMMA OtherOrder ==
  ASSUME SessInv, SessInv', Ordered, NEW q \in Req, SameRequest(q),
         \A t \in 1..made : family'[t] = family[t] /\ owner'[t] = owner[t]
  PROVE  RequestOrder(req[q])'
<1>1. RequestOrder(req[q]) /\ (req'[q] # NoRequest => req[q] # NoRequest)
  <2>1. req'[q] # NoRequest => req'[q].at # "idle"
    BY DEF SessInv, RequestsOk, RequestOk
  <2> QED BY <2>1 DEF Ordered, SameRequest, NoRequest
<1>2. req[q] # NoRequest => req[q].old \in 0..made /\ req[q].new \in 0..made
  BY DEF SessInv, RequestsOk, RequestOk
<1>3. SUFFICES ASSUME req'[q] # NoRequest PROVE RequestOrder(req[q])'
  BY DEF RequestOrder
<1>4. /\ req[q].old # NoToken => req[q].old \in 1..made
      /\ req[q].new # NoToken => req[q].new \in 1..made
  BY <1>1, <1>2, <1>3 DEF NoToken, SessInv, TokensTyped
<1>5. req'[q].alone \in BOOLEAN
  BY <1>1, <1>3 DEF RequestOrder, SameRequest
<1> QED BY <1>1, <1>3, <1>4, <1>5 DEF RequestOrder, SameRequest

LEMMA ArriveOrder ==
  ASSUME NEW r \in Req, NEW STATE d, NEW STATE u, NEW STATE t, NEW p, Arrive(r, d, u, t, p),
         d \in Device, u \in User, p \in Places \ {"replace", "respond", "excess"},
         p \in {"password", "prune", "list"} => t = NoToken,
         UNCHANGED owner, t # NoToken => u = owner[t]
  PROVE  RequestOrder(req[r])'
<1>1. req'[r] = [at |-> p, dev |-> d, user |-> u, old |-> t, new |-> NoToken,
                 excess |-> {}, alone |-> \A x \in Req \ {r} : Idle(x)]
  BY DEF Arrive
<1>2. IsRecord(req'[r])
  BY <1>1 DEF IsRecord, Fields
<1> QED BY <1>1, <1>2 DEF RequestOrder

LEMMA StepOrder ==
  ASSUME SessInv, SessInv', Ordered, NEW r \in Req, RequestStep(r), ~Issue(r)
  PROVE  RequestOrder(req[r])'
<1>1. TokensKept
  BY KeptTokens
<1>2. ASSUME Leave(r) PROVE RequestOrder(req[r])'
  BY <1>2 DEF Leave, RequestOrder, SessInv, RequestsOk
<1>3. RequestOrder(req[r]) /\ \A d \in Device : jar[d] \in 0..made
  BY DEF Ordered, SessInv, JarsOk
<1>4. ASSUME NEW d \in Device, jar[d] # NoToken PROVE owner[jar[d]] \in User
  BY <1>3, <1>4 DEF Ordered, TokenOrder, NoToken, SessInv, TokensTyped
<1>5. ASSUME NEW d \in Device, NEW u \in User, BeginLogin(r, d, u) PROVE RequestOrder(req[r])'
  <2>1. CASE LockedOut(u)
    <3>1. UNCHANGED req
      BY <1>5, <2>1 DEF BeginLogin
    <3> QED BY <3>1, <1>1, <1>3 DEF TokensKept, RequestOrder
  <2>2. CASE ~LockedOut(u)
    <3>1. Arrive(r, d, u, NoToken, "password") /\ UNCHANGED owner
      BY <1>5, <2>2 DEF BeginLogin, tokenVars
    <3> QED BY <3>1, ArriveOrder DEF Places
  <2> QED BY <2>1, <2>2
<1>6. ASSUME NEW d \in Device, BeginRefresh(r, d) \/ BeginLogout(r, d) PROVE RequestOrder(req[r])'
  <2>1. PICK p \in {"issue", "tip", "revoke", "cleared"} : Arrive(r, d, owner[jar[d]], jar[d], p)
    BY <1>6 DEF BeginRefresh, BeginLogout
  <2>2. jar[d] # NoToken /\ UNCHANGED owner
    BY <1>6 DEF BeginRefresh, BeginLogout, tokenVars
  <2>3. owner[jar[d]] \in User
    BY <1>4, <2>2
  <2> QED BY <2>1, <2>2, <2>3, ArriveOrder DEF Places
<1>7. ASSUME NEW d \in Device, NEW t \in Token, BeginRevoke(r, d, t) PROVE RequestOrder(req[r])'
  <2>1. Arrive(r, d, owner[t], t, "revokeOther") /\ UNCHANGED owner /\ t \in row
    BY <1>7 DEF BeginRevoke, tokenVars, Sessions, ActiveOf
  <2>2. owner[t] \in User
    BY <2>1 DEF Ordered, TokenOrder, SessInv, TokensTyped
  <2> QED BY <2>1, <2>2, ArriveOrder DEF Places
<1>8. ASSUME NEW d \in Device, LogoutAll(r, d) PROVE RequestOrder(req[r])'
  <2>1. /\ jar[d] \in row /\ DOMAIN req = Req
        /\ req' = [req EXCEPT ![r] = [at |-> "cleared", dev |-> d, user |-> owner[jar[d]],
                       old |-> NoToken, new |-> NoToken, excess |-> {}, alone |-> FALSE]]
    BY <1>8 DEF LogoutAll, SessInv, RequestsOk
  <2>2. jar[d] # NoToken
    BY <2>1 DEF SessInv, TokensTyped, NoToken
  <2>3. owner[jar[d]] \in User
    BY <1>4, <2>2
  <2>4. IsRecord(req'[r])
    BY <2>1 DEF IsRecord, Fields
  <2> QED BY <2>1, <2>3, <2>4 DEF RequestOrder, Places
<1>9. ASSUME NEW p, NEW o, NEW n, NEW e, Becomes(r, p, o, n, e), req[r] # NoRequest,
             p \in Places, n # NoToken <=> p \in {"replace", "respond"},
             p \in {"password", "prune", "list", "excess"} => o = NoToken, p # "excess" => e = {},
             o # NoToken => req[r].user = owner[o],
             o # NoToken /\ n # NoToken => family[o] = family[n]
      PROVE  RequestOrder(req[r])'
  BY <1>1, <1>3, <1>9 DEF Becomes, RequestOrder, TokensKept
<1>10. ASSUME NEW p, p # "idle", At(r, p) PROVE req[r] # NoRequest
  BY <1>10, Underway DEF SessInv
<1>11. ASSUME NEW right \in BOOLEAN, CheckPassword(r, right) PROVE RequestOrder(req[r])'
  <2>1. At(r, "password") /\ req[r] # NoRequest
    BY <1>10, <1>11 DEF CheckPassword
  <2>2. CASE ~Leave(r)
    <3>1. Becomes(r, "prune", req[r].old, req[r].new, req[r].excess)
      BY <1>11, <2>2, PasswordBecomes
    <3> QED BY <3>1, <2>1, <1>3, <1>9 DEF RequestOrder, At, Places
  <2> QED BY <1>2, <2>2
<1>12. ASSUME Prune(r) PROVE RequestOrder(req[r])'
  <2>1. At(r, "prune") /\ req[r] # NoRequest
    BY <1>10, <1>12 DEF Prune
  <2>2. Becomes(r, "list", req[r].old, req[r].new, req[r].excess)
    BY <1>12, PruneBecomes
  <2> QED BY <2>1, <2>2, <1>3, <1>9 DEF RequestOrder, At, Places
<1>13. ASSUME FindExcess(r) PROVE RequestOrder(req[r])'
  <2>1. At(r, "list") /\ req[r] # NoRequest
    BY <1>10, <1>13 DEF FindExcess
  <2>2. PICK p, e : p \in {"issue", "excess"} /\
           Becomes(r, p, req[r].old, req[r].new, e) /\ (p = "issue" => e = {})
    BY <1>13, FindExcessBecomes
  <2> QED BY <2>1, <2>2, <1>3, <1>9 DEF RequestOrder, At, Places
<1>14. ASSUME RevokeExcess(r) PROVE RequestOrder(req[r])'
  <2>1. At(r, "excess") /\ req[r] # NoRequest
    BY <1>10, <1>14 DEF RevokeExcess
  <2>2. Becomes(r, "issue", req[r].old, req[r].new, {})
    BY <1>14, ExcessBecomes
  <2> QED BY <2>1, <2>2, <1>3, <1>9 DEF RequestOrder, At, Places
<1>15. ASSUME FindTip(r) PROVE RequestOrder(req[r])'
  <2>1. At(r, "tip") /\ req[r] # NoRequest
    BY <1>10, <1>15 DEF FindTip
  <2>2. CASE ~Leave(r)
    <3>1. PICK t \in TipFor(r) : Becomes(r, "issue", t, req[r].new, req[r].excess)
      BY <1>15, <2>2, TipBecomes
    <3>2. req[r].old \in 1..made
      BY <2>1, Underway DEF SessInv, RequestOk, At, NoToken, TokensTyped
    <3>3. t \in 1..made /\ family[t] = family[req[r].old]
      BY DEF TipFor, Tip, SessInv, TokensTyped
    <3>4. req[r].user = owner[t]
      BY <1>3, <2>1, <3>2, <3>3 DEF RequestOrder, Ordered, TokenOrder, NoToken
    <3> QED BY <2>1, <3>1, <3>4, <1>3, <1>9 DEF RequestOrder, At, Places
  <2> QED BY <1>2, <2>2
<1>16. ASSUME Replace(r) PROVE RequestOrder(req[r])'
  <2>1. At(r, "replace") /\ req[r] # NoRequest
    BY <1>10, <1>16 DEF Replace
  <2>2. CASE req[r].old \in row
    <3>1. Becomes(r, "respond", req[r].old, req[r].new, req[r].excess)
      BY <1>16, <2>2, ReplaceBecomes
    <3> QED BY <2>1, <3>1, <1>3, <1>9 DEF RequestOrder, At, Places
  <2> QED BY <1>2, <1>16, <2>2 DEF Replace
<1>17. ASSUME RevokeOne(r) PROVE RequestOrder(req[r])'
  <2>1. req[r].at \in {"revoke", "revokeOther"} /\ req[r] # NoRequest
    BY <1>10, <1>17 DEF RevokeOne, At
  <2>2. CASE ~Leave(r)
    <3>1. Becomes(r, "cleared", req[r].old, req[r].new, req[r].excess)
      BY <1>17, <2>2, RevokeBecomes
    <3> QED BY <2>1, <3>1, <1>3, <1>9 DEF RequestOrder, At, Places
  <2> QED BY <1>2, <2>2
<1>18. ASSUME Respond(r) \/ CutOff(r) PROVE RequestOrder(req[r])'
  BY <1>18, <1>2 DEF Respond, CutOff
<1> QED BY <1>5, <1>6, <1>7, <1>8, <1>11, <1>12, <1>13, <1>14, <1>15, <1>16, <1>17, <1>18
  DEF RequestStep

\* The token that a request creates.
LEMMA IssueShape ==
  ASSUME SessInv, Ordered, NEW r \in Req, Issue(r)
  PROVE  /\ made \in Nat /\ made' = made + 1 /\ made + 1 \in Token
         /\ row' = row \cup {made + 1} /\ DOMAIN owner' = Token
         /\ UNCHANGED <<now, revokedAt, jar, ended, troubled>>
         /\ \A s \in 1..made : /\ owner'[s] = owner[s] /\ family'[s] = family[s]
                               /\ expires'[s] = expires[s]
         /\ owner'[made + 1] = req[r].user /\ expires'[made + 1] = now + Life
         /\ family'[made + 1] = IF req[r].old = NoToken THEN made + 1 ELSE family[req[r].old]
         /\ revokedAt[made + 1] = Never
         /\ req[r].old # NoToken => req[r].old \in 1..made /\ req[r].user = owner[req[r].old]
         /\ At(r, "issue") /\ req[r].user \in User
         /\ req[r].new = NoToken /\ req[r].excess = {}
<1>1. /\ made \in Nat /\ made + 1 \in Token /\ 1..made \subseteq Token
      /\ made + 1 \notin 1..made
      /\ DOMAIN owner = Token /\ DOMAIN family = Token /\ DOMAIN expires = Token
  BY LimitsTyped DEF Issue, SessInv, TokensTyped, Token, Ordered, TokenOrder
<1>2. /\ made' = made + 1 /\ row' = row \cup {made + 1}
      /\ owner' = [owner EXCEPT ![made + 1] = req[r].user]
      /\ family' = [family EXCEPT ![made + 1] = FamilyFor(r, made + 1)]
      /\ expires' = [expires EXCEPT ![made + 1] = now + Life]
      /\ UNCHANGED <<now, revokedAt, jar, ended, troubled>> /\ At(r, "issue")
  BY DEF Issue, clientVars, ghostVars
<1>3. revokedAt[made + 1] = Never
  BY <1>1 DEF SessInv, TokensTyped
<1>4. RequestOk(req[r]) /\ RequestOrder(req[r]) /\ req[r] # NoRequest
  BY <1>2, Underway DEF SessInv, Ordered
<1>5. req[r].old # NoToken => req[r].old \in 1..made /\ req[r].user = owner[req[r].old]
  BY <1>1, <1>4 DEF RequestOk, RequestOrder, NoToken
<1>6. req[r].user \in User /\ req[r].new = NoToken /\ req[r].excess = {}
  BY <1>2, <1>4 DEF RequestOrder, At
<1> QED BY <1>1, <1>2, <1>3, <1>5, <1>6 DEF FamilyFor

LEMMA IssueOrdered ==
  ASSUME SessInv, SessInv', Ordered, NEW r \in Req, Issue(r)
  PROVE  Ordered'
<1> DEFINE t == made + 1
<1>1. /\ made \in Nat /\ made' = t /\ t \in Token
      /\ row' = row \cup {t} /\ DOMAIN owner' = Token
      /\ UNCHANGED <<now, revokedAt, jar, ended, troubled>>
      /\ \A s \in 1..made : /\ owner'[s] = owner[s] /\ family'[s] = family[s]
                            /\ expires'[s] = expires[s]
      /\ owner'[t] = req[r].user /\ expires'[t] = now + Life
      /\ family'[t] = IF req[r].old = NoToken THEN t ELSE family[req[r].old]
      /\ revokedAt[t] = Never
      /\ req[r].old # NoToken => req[r].old \in 1..made /\ req[r].user = owner[req[r].old]
      /\ At(r, "issue") /\ req[r].user \in User
  BY IssueShape
<1>2. now \in Nat /\ Life \in Nat /\ 1..t = 1..made \cup {t} /\ t \notin 1..made
  BY <1>1, LimitsTyped DEF SessInv, TokensTyped
<1>3. /\ \A s \in 1..made : expires[s] <= now + Life
      /\ now \in 1..MaxTime /\ ended \subseteq 1..made
      /\ \A s \in 1..made : /\ owner[s] \in User /\ family[s] \in 1..s /\ revokedAt[s] <= now
                            /\ s \in row \/ Forgotten(s)
      /\ \A s, x \in 1..made : s <= x => expires[s] <= expires[x]
      /\ \A s, x \in 1..made : family[s] = family[x] => owner[s] = owner[x]
  BY DEF Ordered, TokenOrder
<1>4. family'[t] \in 1..t /\ (req[r].old = NoToken => \A s \in 1..made : family[s] # t)
  BY <1>1, <1>2, <1>3
<1>5. \A s \in 1..t : /\ owner'[s] \in User /\ family'[s] \in 1..s /\ revokedAt'[s] <= now'
                      /\ expires'[s] <= now' + Life /\ (s \in row' \/ Forgotten(s)')
  <2>1. ASSUME NEW s \in 1..made
        PROVE  /\ owner'[s] \in User /\ family'[s] \in 1..s /\ revokedAt'[s] <= now'
               /\ expires'[s] <= now' + Life /\ (s \in row' \/ Forgotten(s)')
    BY <1>1, <1>3, <2>1 DEF Forgotten
  <2>2. /\ owner'[t] \in User /\ family'[t] \in 1..t /\ revokedAt'[t] <= now'
        /\ expires'[t] <= now' + Life /\ t \in row'
    BY <1>1, <1>2, <1>4 DEF Never
  <2> QED BY <1>2, <2>1, <2>2
<1>6. \A s, x \in 1..t : s <= x => expires'[s] <= expires'[x]
  <2>1. \A s, x \in 1..made : s <= x => expires'[s] <= expires'[x]
    BY <1>1, <1>3
  <2>2. \A s \in 1..made : expires'[s] <= expires'[t]
    BY <1>1, <1>3
  <2>3. expires'[t] <= expires'[t] /\ \A s \in 1..made : ~(t <= s)
    BY <1>1, <1>2
  <2> QED BY <1>2, <2>1, <2>2, <2>3
<1>7. \A s, x \in 1..t : family'[s] = family'[x] => owner'[s] = owner'[x]
  <2>1. \A s \in 1..made : family'[s] = family'[t] => owner'[s] = owner'[t]
    BY <1>1, <1>3, <1>4
  <2> QED BY <1>1, <1>2, <1>3, <2>1
<1>8. TokenOrder'
  BY <1>1, <1>2, <1>3, <1>5, <1>6, <1>7 DEF TokenOrder
<1>9. RequestOrder(req[r])'
  <2>1. Becomes(r, IF req[r].old = NoToken THEN "respond" ELSE "replace",
                req[r].old, t, req[r].excess)
    BY IssueBecomes
  <2>2. RequestOrder(req[r]) /\ req[r] # NoRequest
    BY <1>1, Underway DEF SessInv, Ordered
  <2>3. t # NoToken /\ (req[r].old # NoToken => /\ family'[req[r].old] = family'[t]
                                                /\ owner'[req[r].old] = req[r].user)
    BY <1>1 DEF NoToken
  <2>4. req[r].excess = {}
    BY <1>1, <2>2 DEF RequestOrder, At
  <2> QED BY <2>1, <2>2, <2>3, <2>4 DEF Becomes, RequestOrder, Places
<1>10. \A q \in Req \ {r} : RequestOrder(req[q])'
  BY <1>1, Others, OtherOrder DEF RequestStep
<1> QED BY <1>8, <1>9, <1>10 DEF Ordered

LEMMA StepOrdered ==
  ASSUME SessInv, SessInv', Ordered, NEW r \in Req, RequestStep(r)
  PROVE  Ordered'
<1>1. CASE Issue(r)
  BY <1>1, IssueOrdered
<1>2. CASE ~Issue(r)
  <2>1. TokensKept
    BY <1>2, KeptTokens
  <2>2. TokenOrder'
    BY <2>1, OrderKept DEF Ordered
  <2>3. \A q \in Req \ {r} : RequestOrder(req[q])'
    BY <2>1, Others, OtherOrder DEF TokensKept
  <2>4. RequestOrder(req[r])'
    BY <1>2, StepOrder
  <2> QED BY <2>2, <2>3, <2>4 DEF Ordered
<1> QED BY <1>1, <1>2

\* The account changes, or nothing does.
Outside == UNCHANGED <<now, tokenVars, jar, req, ended, troubled>>

LEMMA OutsideOrdered ==
  ASSUME Ordered, Outside
  PROVE  Ordered'
BY DEF Outside, Ordered, TokenOrder, Forgotten, RequestOrder, tokenVars

LEMMA TickOrdered ==
  ASSUME SessInv, Ordered, Tick
  PROVE  Ordered'
<1>1. UNCHANGED <<tokenVars, req, ended>> /\ now' = now + 1 /\ now < MaxTime
  BY DEF Tick, ghostVars
<1>2. \A t \in 1..made : expires[t] \in Nat /\ revokedAt[t] \in Nat /\ now \in Nat
  BY LimitsTyped DEF SessInv, TokensTyped, Token
<1>3. now' \in 1..MaxTime
  BY <1>1, LimitsTyped DEF Ordered, TokenOrder
<1>4. \A t \in 1..made : /\ expires[t] <= (now + 1) + Life /\ revokedAt[t] <= now + 1
                         /\ Forgotten(t) => Forgotten(t)'
  BY <1>1, <1>2, LimitsTyped DEF Ordered, TokenOrder, Forgotten, tokenVars
<1>5. TokenOrder'
  BY <1>1, <1>3, <1>4 DEF Ordered, TokenOrder, tokenVars
<1>6. \A q \in Req : RequestOrder(req[q])'
  BY <1>1 DEF Ordered, RequestOrder, tokenVars
<1> QED BY <1>5, <1>6 DEF Ordered

LEMMA OrderedStep == SessInv /\ SessInv' /\ Ordered /\ [Next]_vars => Ordered'
<1> SUFFICES ASSUME SessInv, SessInv', Ordered, [Next]_vars PROVE Ordered'
  OBVIOUS
<1>1. ASSUME NEW u \in User, SetStanding(u) PROVE Outside
  BY <1>1 DEF SetStanding, Outside, clientVars, ghostVars
<1>2. CASE UNCHANGED vars
  BY <1>2, OutsideOrdered DEF Outside, vars, tokenVars
<1> QED BY <1>1, <1>2, StepOrdered, OutsideOrdered, TickOrdered DEF Next

LEMMA OrderedInit == SessionInit => Ordered
BY LimitsTyped DEF SessionInit, Ordered, TokenOrder, RequestOrder

----------------------------------------------------------------------------
(* The types. *)

Failure == [user : User, time : Nat]
FailuresOk == failures \in Seq(Failure) /\ Len(failures) <= ScanMax

LEMMA FailKeeps ==
  ASSUME FailuresOk, NEW STATE u, u \in User, now \in Nat, FailLogin(u)
  PROVE  FailuresOk'
<1> DEFINE kept == IF Len(failures) < ScanMax THEN failures ELSE Tail(failures)
           f == [user |-> u, time |-> now]
<1>1. f \in Failure
  BY DEF Failure
<1>2. kept \in Seq(Failure) /\ Len(kept) < ScanMax /\ Len(kept) \in Nat
  <2>1. Len(failures) \in Nat /\ ScanMax \in Nat \ {0}
    BY LimitsTyped DEF FailuresOk
  <2>2. CASE Len(failures) < ScanMax
    BY <2>1, <2>2 DEF FailuresOk
  <2>3. CASE ~(Len(failures) < ScanMax)
    <3>1. failures # << >> /\ Len(failures) = ScanMax
      BY <2>1, <2>3 DEF FailuresOk
    <3> QED BY <2>1, <2>3, <3>1, HeadTailProperties DEF FailuresOk
  <2> QED BY <2>2, <2>3
<1>3. failures' = Append(kept, f)
  BY DEF FailLogin
<1> HIDE DEF kept, f
<1>4. failures' \in Seq(Failure) /\ Len(failures') = Len(kept) + 1
  BY <1>1, <1>2, <1>3, AppendProperties
<1> QED BY <1>2, <1>4, LimitsTyped DEF FailuresOk

LEMMA TickFailures ==
  ASSUME FailuresOk, Tick
  PROVE  FailuresOk'
<1> DEFINE n == Len(failures)
           k == Cardinality(InWindowAt(now + 1))
<1>1. /\ n \in Nat /\ DOMAIN failures = 1..n /\ \A i \in 1..n : failures[i] \in Failure
  BY DEF FailuresOk
<1>2. InWindowAt(now + 1) \in SUBSET (1..n)
  BY <1>1 DEF InWindowAt
<1>3. k \in Nat /\ k <= n
  <2>1. IsFiniteSet(1..n) /\ Cardinality(1..n) = n
    BY <1>1, FS_Interval
  <2>2. IsFiniteSet(InWindowAt(now + 1)) /\ k <= n
    BY <1>2, <2>1, FS_Subset
  <2> QED BY <2>2, FS_CardinalityType
<1>4. failures' = SubSeq(failures, n + 1 - k, n)
  BY DEF Tick
<1> HIDE DEF n, k
<1> DEFINE m == n + 1 - k
<1>5. m \in Int /\ n \in Int /\ \A i \in m..n : failures[i] \in Failure
  BY <1>1, <1>3
<1>6. (IF m <= n THEN n - m + 1 ELSE 0) <= n
  BY <1>1, <1>3
<1> HIDE DEF m
<1>7. failures' = SubSeq(failures, m, n)
  BY <1>4 DEF m
<1>8. failures' \in Seq(Failure) /\ Len(failures') = IF m <= n THEN n - m + 1 ELSE 0
  BY <1>5, <1>7, SubSeqProperties
<1>9. n <= ScanMax /\ ScanMax \in Nat
  BY LimitsTyped DEF FailuresOk, n
<1>10. Len(failures') <= ScanMax
  BY <1>1, <1>5, <1>6, <1>8, <1>9
<1> QED BY <1>8, <1>10 DEF FailuresOk

LEMMA FailuresStep == SessInv /\ Ordered /\ FailuresOk /\ [Next]_vars => FailuresOk'
<1> SUFFICES ASSUME SessInv, Ordered, FailuresOk, [Next]_vars PROVE FailuresOk'
  OBVIOUS
<1>1. now \in Nat
  BY DEF SessInv, TokensTyped
<1>2. ASSUME UNCHANGED failures PROVE FailuresOk'
  BY <1>2 DEF FailuresOk
<1>3. ASSUME NEW r \in Req, NEW d \in Device, NEW u \in User, BeginLogin(r, d, u) PROVE FailuresOk'
  BY <1>1, <1>2, <1>3, FailKeeps DEF BeginLogin
<1>4. ASSUME NEW r \in Req, NEW right \in BOOLEAN, CheckPassword(r, right) PROVE FailuresOk'
  <2>1. At(r, "password") /\ RequestOrder(req[r]) /\ req[r] # NoRequest
    BY <1>4, Underway DEF CheckPassword, SessInv, Ordered
  <2>2. req[r].user \in User
    BY <2>1 DEF RequestOrder
  <2> QED BY <1>1, <1>2, <1>4, <2>2, FailKeeps DEF CheckPassword
<1>5. ASSUME NEW r \in Req, NEW d \in Device,
             BeginRefresh(r, d) \/ BeginLogout(r, d) \/ LogoutAll(r, d)
      PROVE  UNCHANGED failures
  BY <1>5 DEF BeginRefresh, BeginLogout, LogoutAll, accountVars
<1>6. ASSUME NEW r \in Req, NEW d \in Device, NEW t \in Token, BeginRevoke(r, d, t)
      PROVE  UNCHANGED failures
  BY <1>6 DEF BeginRevoke, accountVars
<1>7. ASSUME NEW r \in Req, Prune(r) \/ FindExcess(r) \/ RevokeExcess(r) \/ Issue(r) \/ FindTip(r) \/ Replace(r)
                            \/ RevokeOne(r) \/ Respond(r) \/ CutOff(r)
      PROVE  UNCHANGED failures
  BY <1>7 DEF Prune, FindExcess, RevokeExcess, Issue, FindTip, Replace, RevokeOne, Respond, CutOff, accountVars
<1>8. ASSUME NEW u \in User, SetStanding(u) PROVE UNCHANGED failures
  BY <1>8 DEF SetStanding
<1>9. ASSUME UNCHANGED vars PROVE UNCHANGED failures
  BY <1>9 DEF vars
<1> QED BY <1>2, <1>3, <1>4, <1>5, <1>6, <1>7, <1>8, <1>9, TickFailures DEF Next, RequestStep

LEMMA SessTypes ==
  ASSUME SessInv, Ordered, FailuresOk
  PROVE  SessTypeOK
<1>1. /\ now \in 1..MaxTime /\ made \in 0..MaxToken /\ row \subseteq 1..made
      /\ \A d \in Device : jar[d] \in 0..made
      /\ Len(failures) <= ScanMax
  BY DEF SessInv, TokensTyped, JarsOk, Ordered, TokenOrder, FailuresOk
<1>2. \A t \in 1..made : family[t] \in 1..t /\ revokedAt[t] \in 0..now
  <2>1. \A t \in 1..made : revokedAt[t] \in Nat /\ now \in Nat
    BY LimitsTyped DEF SessInv, TokensTyped, Token
  <2> QED BY <2>1 DEF Ordered, TokenOrder
<1>3. ASSUME NEW r \in Req PROVE req[r] \in Request \cup {NoRequest}
  <2>1. RequestOk(req[r]) /\ RequestOrder(req[r])
    BY DEF SessInv, RequestsOk, Ordered
  <2>2. CASE req[r] # NoRequest
    <3>1. DOMAIN req[r] = Fields
      BY <2>1, <2>2 DEF RequestOk
    <3>2. /\ req[r].at \in Places /\ req[r].dev \in Device /\ req[r].user \in User
          /\ req[r].alone \in BOOLEAN
      BY <2>1, <2>2 DEF RequestOrder
    <3>3. req[r].old \in 0..MaxToken /\ req[r].new \in 0..MaxToken /\ req[r].excess \subseteq Token
      <4>1. req[r].old \in 0..made /\ req[r].new \in 0..made /\ req[r].excess \subseteq 1..made
        BY <2>1, <2>2 DEF RequestOk
      <4>2. made \in 0..MaxToken /\ MaxToken \in Nat
        BY LimitsTyped DEF SessInv, TokensTyped
      <4> QED BY <4>1, <4>2 DEF Token
    <3>4. req[r] = [at |-> req[r].at, dev |-> req[r].dev, user |-> req[r].user,
                    old |-> req[r].old, new |-> req[r].new, excess |-> req[r].excess,
                    alone |-> req[r].alone]
      <4>1. req[r] = [x \in Fields |-> req[r][x]]
        BY <2>1, <2>2 DEF RequestOrder, IsRecord
      <4> QED BY <4>1 DEF Fields
    <3> QED BY <3>2, <3>3, <3>4 DEF Request, Places
  <2> QED BY <2>2
<1>4. \A r \in Req : Handles(r) \subseteq 1..made
  BY Inside
<1>5. \A r \in Req : req[r] \in Request \cup {NoRequest} /\ Handles(r) \subseteq 1..made
  BY <1>3, <1>4
<1> QED BY <1>1, <1>2, <1>5 DEF SessTypeOK

----------------------------------------------------------------------------
(* The sessions that nothing has troubled. *)

Unrevoked(f) == {t \in row : family[t] = f /\ revokedAt[t] = Never}
Works(r, f) == f \in FamiliesOf(r)

\* One request at a time works on it; it has one unrevoked token, or the one that
\* replaces it beside it, and once it was ended none.
QuietFamily(f) ==
  /\ \A q, r \in Req : Works(q, f) /\ Works(r, f) => q = r
  /\ (\A r \in Req : Works(r, f) => ~At(r, "replace")) =>
       \A s, t \in Unrevoked(f) : s = t
  /\ \A r \in Req : Works(r, f) /\ req[r].at \in {"issue", "excess", "revoke", "revokeOther", "replace"}
       => Unrevoked(f) \subseteq Handles(r)
  /\ f \in ended => Unrevoked(f) = {}
  /\ \A r \in Req : Works(r, f) /\ At(r, "issue") => f \notin ended

Quiet == \A f : f \notin troubled => QuietFamily(f)

LEMMA HandlesAt ==
  ASSUME SessInv, Ordered, NEW r \in Req
  PROVE  /\ req[r].at \in {"idle", "password", "prune", "list"} => Handles(r) = {}
         /\ At(r, "excess") => Handles(r) = req[r].excess
         /\ req[r].at \in {"issue", "tip", "revoke", "revokeOther", "cleared"}
              => Handles(r) = {req[r].old} \ {NoToken}
         /\ req[r].at \in {"replace", "respond"} => Handles(r) = {req[r].old, req[r].new} \ {NoToken}
         /\ req[r].at \in Places \cup {"idle"}
<1>1. CASE Idle(r)
  BY <1>1 DEF Handles, Idle, At
<1>2. CASE ~Idle(r)
  <2>1. RequestOrder(req[r]) /\ req[r] # NoRequest
    BY <1>2, Inside DEF Ordered
  <2> QED BY <1>2, <2>1 DEF RequestOrder, Handles, At, Idle, Places
<1> QED BY <1>1, <1>2

LEMMA WorksSame ==
  ASSUME SessInv, NEW q \in Req, SameRequest(q), \A t \in 1..made : family'[t] = family[t]
  PROVE  /\ Handles(q)' = Handles(q)
         /\ \A f : Works(q, f)' <=> Works(q, f)
<1>1. Handles(q)' = Handles(q)
  BY DEF SameRequest, Handles, Idle, At
<1>2. Handles(q) \subseteq 1..made
  BY Inside
<1> QED BY <1>1, <1>2 DEF Works, FamiliesOf

LEMMA NotShared ==
  ASSUME NEW r \in Req, NEW F, NEW f \in F, f \notin Shared(r, F)
  PROVE  \A q \in Req \ {r} : ~Works(q, f)
BY DEF Shared, Works

LEMMA UnrevokedShrinks ==
  ASSUME SessInv, Ordered, TokensKept
  PROVE  \A f : Unrevoked(f)' \subseteq Unrevoked(f)
<1>1. now >= 1 /\ row \subseteq 1..made /\ row' \subseteq row
  BY DEF Ordered, TokenOrder, SessInv, TokensTyped, TokensKept
<1>2. \A t \in 1..made : revokedAt'[t] = Never => revokedAt[t] = Never
  BY <1>1 DEF TokensKept, Never
<1> QED BY <1>1, <1>2 DEF Unrevoked, TokensKept

Hot == {"issue", "excess", "revoke", "revokeOther", "replace"}

\* A family stays quiet in a step of a request that creates no token.
LEMMA CalmStep ==
  ASSUME SessInv, Ordered, TokensKept, NEW r \in Req, \A q \in Req \ {r} : SameRequest(q),
         NEW f, QuietFamily(f),
         Works(r, f)' => Works(r, f) \/ \A q \in Req \ {r} : ~Works(q, f),
         Works(r, f) /\ At(r, "replace") =>
            \/ Works(r, f)' /\ At(r, "replace")'
            \/ \A s, t \in Unrevoked(f)' : s = t,
         Works(r, f)' /\ req'[r].at \in Hot => Unrevoked(f)' \subseteq Handles(r)',
         f \in ended' \ ended => Unrevoked(f)' = {} /\ \A q \in Req \ {r} : ~Works(q, f),
         Works(r, f)' /\ At(r, "issue")' => f \notin ended'
  PROVE  QuietFamily(f)'
<1>1. Unrevoked(f)' \subseteq Unrevoked(f)
  BY UnrevokedShrinks
<1>2. \A q \in Req \ {r} : /\ Handles(q)' = Handles(q) /\ (Works(q, f)' <=> Works(q, f))
                           /\ req'[q].at = req[q].at
  BY WorksSame DEF TokensKept, SameRequest
<1> DEFINE W(q) == Works(q, f)
           U == Unrevoked(f)
           H(q) == Handles(q)
<1>3. /\ \A q, x \in Req : W(q) /\ W(x) => q = x
      /\ (\A x \in Req : W(x) => req[x].at # "replace") => \A s, t \in U : s = t
      /\ \A x \in Req : W(x) /\ req[x].at \in Hot => U \subseteq H(x)
      /\ f \in ended => U = {}
      /\ \A x \in Req : W(x) /\ req[x].at = "issue" => f \notin ended
  BY DEF QuietFamily, Hot, At
<1>4. /\ W(r)' => W(r) \/ \A q \in Req \ {r} : ~W(q)
      /\ W(r) /\ req[r].at = "replace" =>
            \/ W(r)' /\ req'[r].at = "replace"
            \/ \A s, t \in U' : s = t
      /\ W(r)' /\ req'[r].at \in Hot => U' \subseteq H(r)'
      /\ f \in ended' \ ended => U' = {} /\ \A q \in Req \ {r} : ~W(q)
      /\ W(r)' /\ req'[r].at = "issue" => f \notin ended'
  BY DEF At
<1>5. /\ U' \subseteq U /\ ended \subseteq ended'
      /\ \A q \in Req \ {r} : H(q)' = H(q) /\ (W(q)' <=> W(q)) /\ req'[q].at = req[q].at
  BY <1>1, <1>2 DEF TokensKept
<1>6. QuietFamily(f)' <=>
      /\ \A q, x \in Req : W(q)' /\ W(x)' => q = x
      /\ (\A x \in Req : W(x)' => req'[x].at # "replace") => \A s, t \in U' : s = t
      /\ \A x \in Req : W(x)' /\ req'[x].at \in Hot => U' \subseteq H(x)'
      /\ f \in ended' => U' = {}
      /\ \A x \in Req : W(x)' /\ req'[x].at = "issue" => f \notin ended'
  BY DEF QuietFamily, Hot, At
<1> HIDE DEF W, U, H
<1>7. \A q, x \in Req : W(q)' /\ W(x)' => q = x
  BY <1>3, <1>4, <1>5
<1>8. (\A x \in Req : W(x)' => req'[x].at # "replace") => \A s, t \in U' : s = t
  BY <1>3, <1>4, <1>5
<1>9. \A x \in Req : W(x)' /\ req'[x].at \in Hot => U' \subseteq H(x)'
  BY <1>3, <1>4, <1>5
<1>10. f \in ended' => U' = {}
  BY <1>3, <1>4, <1>5
<1>11. \A x \in Req : W(x)' /\ req'[x].at = "issue" => f \notin ended'
  BY <1>3, <1>4, <1>5
<1> QED BY <1>6, <1>7, <1>8, <1>9, <1>10, <1>11

LEMMA InToken ==
  ASSUME SessInv, Ordered
  PROVE  row \subseteq Token /\ 1..made \subseteq Token /\ now # Never
<1>1. row \subseteq 1..made /\ 1..made \subseteq Token
  BY LimitsTyped DEF SessInv, TokensTyped, Token
<1>2. now # Never
  BY DEF Ordered, TokenOrder, Never
<1> QED BY <1>1, <1>2

LEMMA NotIdle ==
  ASSUME SessInv, NEW r \in Req, Leave(r)
  PROVE  Idle(r)' /\ Handles(r)' = {} /\ \A f : ~Works(r, f)'
<1>1. req'[r] = NoRequest
  BY DEF Leave, SessInv, RequestsOk
<1> QED BY <1>1 DEF NoRequest, Idle, At, Handles, Works, FamiliesOf

LEMMA QuietLeave ==
  ASSUME SessInv, Ordered, Quiet, TokensKept, NEW r \in Req, \A q \in Req \ {r} : SameRequest(q),
         Leave(r), UNCHANGED ended, NEW f, f \notin troubled',
         Works(r, f) => ~At(r, "replace")
  PROVE  QuietFamily(f)'
<1>1. f \notin troubled
  BY DEF TokensKept
<1>2. QuietFamily(f)
  BY <1>1 DEF Quiet
<1>3. ~Works(r, f)'
  BY NotIdle
<1> QED BY <1>2, <1>3, CalmStep

\* A request goes on with the same tokens, to a place where it asks no more of them.
LEMMA QuietGoesOn ==
  ASSUME SessInv, Ordered, Quiet, TokensKept, NEW r \in Req, \A q \in Req \ {r} : SameRequest(q),
         UNCHANGED ended, NEW f, f \notin troubled', Works(r, f)' => Works(r, f),
         req'[r].at \notin Hot, Works(r, f) => ~At(r, "replace")
  PROVE  QuietFamily(f)'
<1>1. f \notin troubled
  BY DEF TokensKept
<1>2. QuietFamily(f)
  BY <1>1 DEF Quiet
<1>3. ~At(r, "issue")'
  BY DEF Hot, At
<1> QED BY <1>2, <1>3, CalmStep

LEMMA ArriveWorks ==
  ASSUME NEW r \in Req, NEW STATE d, NEW STATE u, NEW STATE t, NEW p, Arrive(r, d, u, t, p),
         p # "idle"
  PROVE  /\ req'[r].at = p /\ req'[r].dev = d /\ req'[r].old = t /\ req'[r].new = NoToken
         /\ Handles(r)' = {t} \ {NoToken}
         /\ \A f : Works(r, f)' <=> t # NoToken /\ f = family'[t]
<1>1. req'[r] = [at |-> p, dev |-> d, user |-> u, old |-> t, new |-> NoToken,
                 excess |-> {}, alone |-> \A x \in Req \ {r} : Idle(x)]
  BY DEF Arrive
<1>2. Handles(r)' = {t} \ {NoToken}
  BY <1>1 DEF Handles, Idle, At
<1> QED BY <1>1, <1>2 DEF Works, FamiliesOf

LEMMA QuietArrive ==
  ASSUME SessInv, Ordered, Quiet, TokensKept, NEW r \in Req, \A q \in Req \ {r} : SameRequest(q),
         NEW STATE d, NEW STATE u, NEW STATE t, NEW p, Idle(r), Arrive(r, d, u, t, p),
         UNCHANGED ended, t \in 0..made, p \notin {"idle", "replace", "excess"},
         p \in {"issue", "revoke", "revokeOther"} => t \in row /\ revokedAt[t] = Never,
         NEW f, f \notin troubled'
  PROVE  QuietFamily(f)'
<1>1. f \notin troubled
  BY DEF TokensKept
<1>2. QuietFamily(f)
  BY <1>1 DEF Quiet
<1>3. ~Works(r, f)
  BY DEF Works, FamiliesOf, Handles
<1>4. /\ req'[r].at = p /\ Handles(r)' = {t} \ {NoToken}
      /\ Works(r, f)' <=> t # NoToken /\ f = family[t]
  BY ArriveWorks DEF TokensKept
<1>5. CASE t # NoToken /\ f = family[t]
  <2>1. \A q \in Req \ {r} : ~Works(q, f)
    <3>1. troubled' = troubled \cup Shared(r, {family[t]})
      BY <1>5 DEF Arrive
    <3> QED BY <1>5, <3>1, NotShared
  <2>2. \A s, x \in Unrevoked(f) : s = x
    BY <1>2, <1>3, <2>1 DEF QuietFamily
  <2>3. p \in {"issue", "revoke", "revokeOther"} => t \in Unrevoked(f)
    BY <1>5 DEF Unrevoked
  <2>4. Unrevoked(f)' \subseteq Unrevoked(f)
    BY UnrevokedShrinks
  <2>5. req'[r].at \in Hot => Unrevoked(f)' \subseteq Handles(r)'
    BY <1>4, <1>5, <2>2, <2>3, <2>4 DEF Hot
  <2>6. At(r, "issue")' => f \notin ended'
    BY <1>2, <1>4, <2>3 DEF QuietFamily, At
  <2> QED BY <1>2, <1>3, <2>1, <2>5, <2>6, CalmStep
<1>6. CASE ~(t # NoToken /\ f = family[t])
  BY <1>2, <1>3, <1>4, <1>6, CalmStep
<1> QED BY <1>5, <1>6

LEMMA QuietFindExcess ==
  ASSUME SessInv, Ordered, Quiet, TokensKept, NEW r \in Req, \A q \in Req \ {r} : SameRequest(q),
         FindExcess(r), NEW f, f \notin troubled'
  PROVE  QuietFamily(f)'
<1> DEFINE over == Overflow(req[r].user)
<1>1. f \notin troubled
  BY DEF TokensKept
<1>2. QuietFamily(f) /\ At(r, "list") /\ UNCHANGED <<family, ended>>
  BY <1>1 DEF Quiet, FindExcess, tokenVars
<1>3. /\ req'[r].at = IF over = {} THEN "issue" ELSE "excess"
      /\ req'[r].old = req[r].old /\ req'[r].new = req[r].new /\ req'[r].excess = over
      /\ troubled' = troubled \cup Shared(r, {family[t] : t \in over})
  BY FindExcessBecomes DEF Becomes, FindExcess
<1>4. ~Works(r, f) /\ ~At(r, "replace")
  BY <1>2, HandlesAt DEF At, Works, FamiliesOf
<1>5. over \subseteq {t \in row : revokedAt[t] = Never}
  BY DEF Overflow, ActiveOf, Active
<1> HIDE DEF over
<1>6. req[r].old = NoToken /\ req[r].new = NoToken
  BY <1>2, Underway DEF Ordered, RequestOrder, SessInv, At
<1>7. Handles(r)' = over
  BY <1>3, <1>6 DEF Handles, Idle, At
<1>8. CASE f \in {family[t] : t \in over}
  <2>1. \A q \in Req \ {r} : ~Works(q, f)
    BY <1>3, <1>8, NotShared
  <2>2. \A s, x \in Unrevoked(f) : s = x
    BY <1>2, <1>4, <2>1 DEF QuietFamily
  <2>3. Unrevoked(f)' \subseteq Unrevoked(f)
    BY UnrevokedShrinks
  <2>4. Unrevoked(f)' \subseteq Handles(r)'
    BY <1>5, <1>7, <1>8, <2>2, <2>3 DEF Unrevoked
  <2>5. ~At(r, "issue")'
    BY <1>3, <1>8 DEF At
  <2> QED BY <1>2, <1>4, <2>1, <2>4, <2>5, CalmStep
<1>9. CASE f \notin {family[t] : t \in over}
  <2>1. ~Works(r, f)'
    BY <1>2, <1>7, <1>9 DEF Works, FamiliesOf
  <2> QED BY <1>2, <1>4, <2>1, CalmStep
<1> QED BY <1>8, <1>9

LEMMA QuietExcess ==
  ASSUME SessInv, Ordered, Quiet, TokensKept, NEW r \in Req, \A q \in Req \ {r} : SameRequest(q),
         RevokeExcess(r), NEW f, f \notin troubled'
  PROVE  QuietFamily(f)'
<1>1. f \notin troubled
  BY DEF TokensKept
<1>2. QuietFamily(f) /\ At(r, "excess") /\ UNCHANGED <<family, row>>
  BY <1>1 DEF Quiet, RevokeExcess
<1>3. /\ revokedAt' = [t \in Token |-> IF t \in req[r].excess \cap row THEN now ELSE revokedAt[t]]
      /\ ended' = ended \cup {family[t] : t \in req[r].excess}
      /\ troubled' = troubled \cup Shared(r, {family[t] : t \in req[r].excess})
  BY DEF RevokeExcess, Ends
<1>4. Handles(r) = req[r].excess /\ ~At(r, "replace")
  BY <1>2, HandlesAt DEF At
<1>5. ~Works(r, f)'
  <2>1. /\ req'[r].at = "issue" /\ req'[r].old = req[r].old /\ req'[r].new = req[r].new
    BY ExcessBecomes DEF Becomes
  <2>2. req[r].old = NoToken /\ req[r].new = NoToken
    BY <1>2, Underway DEF Ordered, RequestOrder, SessInv, At
  <2> QED BY <2>1, <2>2 DEF Works, FamiliesOf, Handles, Idle, At
<1>6. CASE f \in {family[t] : t \in req[r].excess}
  <2>1. \A q \in Req \ {r} : ~Works(q, f)
    BY <1>3, <1>6, NotShared
  <2>2. Works(r, f)
    BY <1>4, <1>6 DEF Works, FamiliesOf
  <2>3. Unrevoked(f) \subseteq req[r].excess
    BY <1>2, <1>4, <2>2 DEF QuietFamily, At
  <2>4. Unrevoked(f)' \subseteq Unrevoked(f) /\ row \subseteq Token /\ now # Never
    BY UnrevokedShrinks, InToken
  <2>5. Unrevoked(f)' = {}
    BY <1>2, <1>3, <2>3, <2>4 DEF Unrevoked
  <2> QED BY <1>2, <1>4, <1>5, <2>1, <2>5, CalmStep
<1>7. CASE f \notin {family[t] : t \in req[r].excess}
  BY <1>2, <1>3, <1>4, <1>5, <1>7, CalmStep
<1> QED BY <1>6, <1>7

LEMMA QuietRevoke ==
  ASSUME SessInv, Ordered, Quiet, TokensKept, NEW r \in Req, \A q \in Req \ {r} : SameRequest(q),
         RevokeOne(r), NEW f, f \notin troubled'
  PROVE  QuietFamily(f)'
<1> DEFINE t == req[r].old
<1>1. f \notin troubled
  BY DEF TokensKept
<1>2. QuietFamily(f) /\ req[r].at \in {"revoke", "revokeOther"} /\ UNCHANGED <<family, row>>
  BY <1>1 DEF Quiet, RevokeOne
<1>3. /\ revokedAt' = [revokedAt EXCEPT ![t] = IF t \in row THEN now ELSE @]
      /\ ended' = ended \cup {family[t]} /\ troubled' = troubled \cup Shared(r, {family[t]})
  BY DEF RevokeOne, Ends
<1>4. /\ Handles(r) = {t} /\ ~At(r, "replace") /\ t \in 1..made
  <2>1. t # NoToken
    BY <1>2, Underway DEF SessInv, RequestOk, At
  <2>2. Handles(r) = {t}
    BY <1>2, <2>1, HandlesAt
  <2> QED BY <1>2, <2>2, Inside DEF At
<1>5. Works(r, f) <=> f = family[t]
  BY <1>4 DEF Works, FamiliesOf
<1>6. (Works(r, f)' => Works(r, f)) /\ req'[r].at \notin Hot /\ ~At(r, "issue")'
  <2>1. CASE Leave(r)
    <3>1. Idle(r)' /\ ~Works(r, f)'
      BY <2>1, NotIdle
    <3> QED BY <3>1 DEF Idle, At, Hot
  <2>2. CASE ~Leave(r)
    <3>1. Becomes(r, "cleared", req[r].old, req[r].new, req[r].excess)
      BY <2>2, RevokeBecomes
    <3>2. Handles(r)' \subseteq Handles(r)
      BY <1>2, <3>1 DEF Becomes, Handles, Idle, At
    <3> QED BY <1>2, <3>1, <3>2 DEF Becomes, Works, FamiliesOf, Hot, At
  <2> QED BY <2>1, <2>2
<1>7. CASE f = family[t]
  <2>1. \A q \in Req \ {r} : ~Works(q, f)
    BY <1>3, <1>7, NotShared
  <2>2. Unrevoked(f) \subseteq {t}
    BY <1>2, <1>4, <1>5, <1>7 DEF QuietFamily
  <2>3. Unrevoked(f)' \subseteq Unrevoked(f) /\ t \in Token /\ now # Never /\ DOMAIN revokedAt = Token
    BY <1>4, UnrevokedShrinks, InToken DEF SessInv, TokensTyped
  <2>4. Unrevoked(f)' = {}
    BY <1>2, <1>3, <2>2, <2>3 DEF Unrevoked
  <2> QED BY <1>2, <1>4, <1>6, <2>1, <2>4, CalmStep
<1>8. CASE f # family[t]
  BY <1>2, <1>3, <1>4, <1>6, <1>8, CalmStep
<1> QED BY <1>7, <1>8

LEMMA QuietLogoutAll ==
  ASSUME SessInv, Ordered, Quiet, TokensKept, NEW r \in Req, \A q \in Req \ {r} : SameRequest(q),
         NEW d \in Device, LogoutAll(r, d), NEW f, f \notin troubled'
  PROVE  QuietFamily(f)'
<1> DEFINE mine == {t \in row : owner[t] = owner[jar[d]] /\ revokedAt[t] = Never}
<1>1. f \notin troubled
  BY DEF TokensKept
<1>2. QuietFamily(f) /\ Idle(r)
  BY <1>1 DEF Quiet, LogoutAll
<1>3. /\ revokedAt' = [t \in Token |-> IF t \in mine THEN now ELSE revokedAt[t]]
      /\ ended' = ended \cup {family[t] : t \in mine}
      /\ troubled' = troubled \cup Shared(r, {family[t] : t \in mine})
      /\ req' = [req EXCEPT ![r] = [at |-> "cleared", dev |-> d, user |-> owner[jar[d]],
                       old |-> NoToken, new |-> NoToken, excess |-> {}, alone |-> FALSE]]
  BY DEF LogoutAll, Ends
<1>4. mine \subseteq row
  OBVIOUS
<1>5. ~Works(r, f) /\ ~Works(r, f)' /\ ~At(r, "replace")
  <2>1. ~Works(r, f) /\ ~At(r, "replace")
    BY <1>2 DEF Works, FamiliesOf, Handles, Idle, At
  <2>2. /\ req'[r].at = "cleared" /\ req'[r].old = NoToken /\ req'[r].new = NoToken
    BY <1>3 DEF SessInv, RequestsOk
  <2> QED BY <2>1, <2>2 DEF Works, FamiliesOf, Handles, Idle, At
<1>6. CASE f \in {family[t] : t \in mine}
  <2>1. \A q \in Req \ {r} : ~Works(q, f)
    BY <1>3, <1>6, NotShared
  <2>2. Unrevoked(f)' \subseteq Unrevoked(f) /\ row \subseteq Token /\ now # Never
    BY UnrevokedShrinks, InToken
  <2>3. Unrevoked(f) \subseteq mine
    <3>1. PICK t \in mine : f = family[t]
      BY <1>6
    <3>2. /\ row \subseteq 1..made
          /\ \A s, x \in 1..made : family[s] = family[x] => owner[s] = owner[x]
      BY DEF Ordered, TokenOrder, SessInv, TokensTyped
    <3>3. \A x \in Unrevoked(f) : x \in row /\ family[x] = family[t] /\ revokedAt[x] = Never
      BY <3>1 DEF Unrevoked
    <3> QED BY <3>1, <3>2, <3>3
  <2> HIDE DEF mine
  <2>4. Unrevoked(f)' = {}
    BY <1>3, <1>4, <2>2, <2>3 DEF Unrevoked
  <2> QED BY <1>2, <1>5, <2>1, <2>4, CalmStep
<1>7. CASE f \notin {family[t] : t \in mine}
  BY <1>2, <1>3, <1>5, <1>7, CalmStep
<1> QED BY <1>6, <1>7

LEMMA QuietTip ==
  ASSUME SessInv, Ordered, Quiet, TokensKept, NEW r \in Req, \A q \in Req \ {r} : SameRequest(q),
         FindTip(r), NEW f, f \notin troubled'
  PROVE  QuietFamily(f)'
<1>1. At(r, "tip") /\ UNCHANGED <<ended, family, row>> /\ ~At(r, "replace")
  BY DEF FindTip, ghostVars, tokenVars, At
<1>2. CASE Leave(r)
  BY <1>1, <1>2, QuietLeave
<1>3. CASE ~Leave(r)
  <2>1. PICK t \in TipFor(r) : Becomes(r, "issue", t, req[r].new, req[r].excess)
    BY <1>3, TipBecomes
  <2>2. f \notin troubled
    BY DEF TokensKept
  <2>3. QuietFamily(f)
    BY <2>2 DEF Quiet
  <2>4. req[r].old # NoToken /\ req[r].new = NoToken
    BY <1>1, Underway DEF SessInv, RequestOk, Ordered, RequestOrder, At
  <2>5. t \in row /\ family[t] = family[req[r].old] /\ revokedAt[t] = Never /\ t # NoToken
    BY DEF TipFor, Tip, Active, SessInv, TokensTyped, NoToken
  <2>6. Handles(r)' = {t} /\ At(r, "issue")'
    BY <2>1, <2>4, <2>5 DEF Becomes, Handles, Idle, At
  <2>7. Handles(r) = {req[r].old}
    BY <1>1, <2>4, HandlesAt DEF At
  <2>8. Works(r, f)' => Works(r, f) /\ f = family[t]
    BY <1>1, <2>5, <2>6, <2>7 DEF Works, FamiliesOf
  <2>9. Works(r, f)' => f \notin ended' /\ Unrevoked(f)' \subseteq Handles(r)'
    <3>1. SUFFICES ASSUME Works(r, f)' PROVE f \notin ended' /\ Unrevoked(f)' \subseteq Handles(r)'
      OBVIOUS
    <3>2. t \in Unrevoked(f)
      BY <2>5, <2>8, <3>1 DEF Unrevoked
    <3>3. \A x \in Unrevoked(f) : x = t
      BY <1>1, <2>3, <2>8, <3>1, <3>2 DEF QuietFamily
    <3>4. Unrevoked(f)' \subseteq Unrevoked(f)
      BY UnrevokedShrinks
    <3> QED BY <1>1, <2>3, <2>6, <3>2, <3>3, <3>4 DEF QuietFamily
  <2> QED BY <1>1, <2>3, <2>8, <2>9, CalmStep
<1> QED BY <1>2, <1>3

LEMMA QuietReplace ==
  ASSUME SessInv, Ordered, Quiet, TokensKept, NEW r \in Req, \A q \in Req \ {r} : SameRequest(q),
         Replace(r), NEW f, f \notin troubled'
  PROVE  QuietFamily(f)'
<1>1. At(r, "replace") /\ UNCHANGED <<ended, family, row>>
  BY DEF Replace
<1>2. CASE req[r].old \notin row
  <2>1. Leave(r) /\ troubled' = troubled \cup FamiliesOf(r)
    BY <1>2 DEF Replace
  <2>2. ~Works(r, f)
    BY <2>1 DEF Works
  <2> QED BY <1>1, <2>1, <2>2, QuietLeave
<1>3. CASE req[r].old \in row
  <2>1. Becomes(r, "respond", req[r].old, req[r].new, req[r].excess)
    BY <1>3, ReplaceBecomes
  <2>2. f \notin troubled
    BY DEF TokensKept
  <2>3. QuietFamily(f)
    BY <2>2 DEF Quiet
  <2>4. Handles(r) = {req[r].old, req[r].new} \ {NoToken}
    BY <1>1, HandlesAt DEF At
  <2>5. (Works(r, f)' => Works(r, f)) /\ req'[r].at \notin Hot /\ ~At(r, "issue")'
    BY <1>1, <2>1 DEF Becomes, Works, FamiliesOf, Handles, Idle, At, Hot
  <2>6. Works(r, f) => \A s, t \in Unrevoked(f)' : s = t
    <3>1. SUFFICES ASSUME Works(r, f) PROVE \A t \in Unrevoked(f)' : t = req[r].new
      OBVIOUS
    <3>2. Unrevoked(f) \subseteq Handles(r) /\ Unrevoked(f)' \subseteq Unrevoked(f)
      BY <1>1, <2>3, <3>1, UnrevokedShrinks DEF QuietFamily, At
    <3>3. revokedAt'[req[r].old] = now /\ now # Never
      BY <1>3, InToken DEF Replace, RevokesOld, SessInv, TokensTyped
    <3> QED BY <2>4, <3>2, <3>3 DEF Unrevoked
  <2> QED BY <1>1, <2>3, <2>5, <2>6, CalmStep
<1> QED BY <1>2, <1>3

\* What works on which family, and what is unrevoked, when a token is created.
LEMMA IssueWorks ==
  ASSUME SessInv, Ordered, NEW r \in Req, Issue(r), NEW f
  PROVE  /\ \A q \in Req \ {r} : /\ Handles(q)' = Handles(q) /\ (Works(q, f)' <=> Works(q, f))
                                 /\ SameRequest(q)
         /\ Handles(r) = {req[r].old} \ {NoToken}
         /\ Handles(r)' = {req[r].old, made + 1} \ {NoToken}
         /\ Works(r, f)' <=> f = family'[made + 1]
         /\ Works(r, f) <=> req[r].old # NoToken /\ f = family'[made + 1]
         /\ req'[r].at = IF req[r].old = NoToken THEN "respond" ELSE "replace"
         /\ req'[r].dev = req[r].dev /\ req'[r].old = req[r].old /\ req'[r].new = made + 1
         /\ Unrevoked(f)' = Unrevoked(f) \cup (IF f = family'[made + 1] THEN {made + 1} ELSE {})
         /\ req[r].old = NoToken => /\ \A q \in Req : ~Works(q, made + 1)
                                    /\ made + 1 \notin ended /\ Unrevoked(made + 1) = {}
<1> DEFINE t == made + 1
<1>1. /\ made \in Nat /\ made' = t /\ t \in Token
      /\ row' = row \cup {t} /\ UNCHANGED <<revokedAt, ended>>
      /\ \A s \in 1..made : family'[s] = family[s]
      /\ family'[t] = IF req[r].old = NoToken THEN t ELSE family[req[r].old]
      /\ revokedAt[t] = Never
      /\ req[r].old # NoToken => req[r].old \in 1..made
      /\ At(r, "issue") /\ req[r].excess = {} /\ req[r].new = NoToken
  BY IssueShape
<1>2. \A q \in Req \ {r} : SameRequest(q)
  BY Others DEF RequestStep
<1>3. \A q \in Req \ {r} : Handles(q)' = Handles(q) /\ (Works(q, f)' <=> Works(q, f))
  BY <1>1, <1>2, WorksSame
<1>4. /\ req'[r].at = IF req[r].old = NoToken THEN "respond" ELSE "replace"
      /\ req'[r].dev = req[r].dev /\ req'[r].old = req[r].old /\ req'[r].new = t
  BY IssueBecomes DEF Becomes
<1>5. Handles(r) = {req[r].old} \ {NoToken}
  BY <1>1, HandlesAt DEF At
<1>6. Handles(r)' = {req[r].old, t} \ {NoToken} /\ t # NoToken
  BY <1>1, <1>4 DEF Handles, Idle, At, NoToken
<1>7. Works(r, f)' <=> f = family'[t]
  BY <1>1, <1>6 DEF Works, FamiliesOf
<1>8. Works(r, f) <=> req[r].old # NoToken /\ f = family'[t]
  BY <1>1, <1>5 DEF Works, FamiliesOf
<1>9. /\ \A x \in row : x \in 1..made /\ family[x] < t
      /\ ended \subseteq 1..made
  BY <1>1 DEF SessInv, TokensTyped, Ordered, TokenOrder
<1>10. Unrevoked(f)' = Unrevoked(f) \cup (IF f = family'[t] THEN {t} ELSE {})
  BY <1>1, <1>9 DEF Unrevoked
<1>11. \A q \in Req : ~Works(q, t)
  <2>1. ASSUME NEW q \in Req, NEW x \in Handles(q) PROVE family[x] # t
    BY <1>1, Inside DEF Ordered, TokenOrder
  <2> QED BY <2>1 DEF Works, FamiliesOf
<1>12. t \notin ended /\ Unrevoked(t) = {}
  BY <1>1, <1>9 DEF Unrevoked
<1> QED BY <1>2, <1>3, <1>4, <1>5, <1>6, <1>7, <1>8, <1>10, <1>11, <1>12

LEMMA QuietIssue ==
  ASSUME SessInv, Ordered, Quiet, NEW r \in Req, Issue(r), NEW f, f \notin troubled'
  PROVE  QuietFamily(f)'
<1> DEFINE t == made + 1
<1>1. At(r, "issue") /\ UNCHANGED <<ended, troubled>>
  BY IssueShape
<1>2. QuietFamily(f)
  BY <1>1 DEF Quiet
<1>3. /\ \A q \in Req \ {r} : /\ Handles(q)' = Handles(q) /\ (Works(q, f)' <=> Works(q, f))
                              /\ req'[q].at = req[q].at
      /\ Handles(r) = {req[r].old} \ {NoToken}
      /\ Handles(r)' = {req[r].old, made + 1} \ {NoToken}
      /\ Works(r, f)' <=> f = family'[t]
      /\ Works(r, f) <=> req[r].old # NoToken /\ f = family'[t]
      /\ req'[r].at = IF req[r].old = NoToken THEN "respond" ELSE "replace"
      /\ Unrevoked(f)' = Unrevoked(f) \cup (IF f = family'[t] THEN {t} ELSE {})
  BY IssueWorks DEF SameRequest
<1>4. f = family'[t] => \A q \in Req \ {r} : ~Works(q, f)
  <2>1. CASE req[r].old = NoToken
    BY <2>1, IssueWorks, IssueShape
  <2>2. CASE req[r].old # NoToken
    BY <1>2, <1>3, <2>2 DEF QuietFamily
  <2> QED BY <2>1, <2>2
<1>5. f = family'[t] => f \notin ended /\ Unrevoked(f)' \subseteq Handles(r)'
  <2>1. t # NoToken
    BY IssueShape DEF NoToken
  <2>2. CASE req[r].old = NoToken
    BY <1>3, <2>1, <2>2, IssueWorks, IssueShape
  <2>3. CASE req[r].old # NoToken
    BY <1>1, <1>2, <1>3, <2>1, <2>3 DEF QuietFamily, At
  <2> QED BY <2>2, <2>3
<1>6. f = family'[t] /\ req[r].old = NoToken => Unrevoked(f)' = {t}
  BY <1>3, IssueWorks, IssueShape
<1>7. ~At(r, "issue")'
  BY <1>3 DEF At
<1>8. CASE f = family'[t]
  <2>1. \A q \in Req \ {r} : ~Works(q, f)'
    BY <1>3, <1>4, <1>8
  <2>2. (\A x \in Req : Works(x, f)' => ~At(x, "replace")') => req[r].old = NoToken
    BY <1>3, <1>8 DEF At
  <2> QED BY <1>1, <1>3, <1>5, <1>6, <1>7, <1>8, <2>1, <2>2 DEF QuietFamily
<1>9. CASE f # family'[t]
  <2>1. ~Works(r, f) /\ ~Works(r, f)' /\ Unrevoked(f)' = Unrevoked(f)
    BY <1>3, <1>9
  <2>2. \A q \in Req : Works(q, f)' <=> Works(q, f)
    BY <1>3, <2>1
  <2>3. \A q \in Req : Works(q, f) => Handles(q)' = Handles(q) /\ req'[q].at = req[q].at
    BY <1>3, <2>1
  <2> QED BY <1>1, <1>2, <2>1, <2>2, <2>3 DEF QuietFamily, At
<1> QED BY <1>8, <1>9

\* A login is refused, a user's standing or the time changes: no family does.
LEMMA QuietSame ==
  ASSUME Quiet, UNCHANGED <<row, family, revokedAt, req, ended, troubled>>
  PROVE  Quiet'
<1>1. /\ \A r : Handles(r)' = Handles(r)
      /\ \A r, f : Works(r, f)' <=> Works(r, f)
      /\ \A f : Unrevoked(f)' = Unrevoked(f)
      /\ \A r, p : At(r, p)' <=> At(r, p)
  BY DEF Handles, Idle, At, Works, FamiliesOf, Unrevoked
<1>2. \A f : QuietFamily(f) => QuietFamily(f)'
  BY <1>1 DEF QuietFamily
<1> QED BY <1>2 DEF Quiet

\* What a request presents when it begins.
LEMMA Presented ==
  ASSUME SessInv, NEW r \in Req, NEW d \in Device,
         BeginRefresh(r, d) \/ BeginLogout(r, d)
  PROVE  \E p \in {"issue", "tip", "revoke", "cleared"} :
            /\ Arrive(r, d, owner[jar[d]], jar[d], p)
            /\ Idle(r) /\ jar[d] \in 1..made
            /\ p \in {"issue", "revoke"} => jar[d] \in row /\ revokedAt[jar[d]] = Never
            /\ p = "tip" => jar[d] \in row /\ revokedAt[jar[d]] # Never
<1>1. Idle(r) /\ jar[d] # NoToken /\ jar[d] \in 1..made
  BY DEF BeginRefresh, BeginLogout, SessInv, JarsOk, NoToken, TokensTyped
<1>2. CASE BeginRefresh(r, d)
  BY <1>1, <1>2 DEF BeginRefresh, Rejected, Known
<1>3. CASE BeginLogout(r, d)
  BY <1>1, <1>3 DEF BeginLogout
<1> QED BY <1>2, <1>3

LEMMA QuietStep ==
  ASSUME SessInv, Ordered, Quiet, NEW r \in Req, RequestStep(r)
  PROVE  Quiet'
<1>1. CASE Issue(r)
  BY <1>1, QuietIssue DEF Quiet
<1>2. CASE ~Issue(r)
  <2>1. TokensKept /\ \A q \in Req \ {r} : SameRequest(q)
    BY <1>2, KeptTokens, Others
  <2>2. ASSUME NEW d \in Device, NEW u \in User, BeginLogin(r, d, u) PROVE Quiet'
    <3>1. CASE LockedOut(u)
      <4>1. UNCHANGED <<row, family, revokedAt, req, ended, troubled>>
        BY <2>2, <3>1 DEF BeginLogin, tokenVars
      <4> QED BY <4>1, QuietSame
    <3>2. CASE ~LockedOut(u)
      <4>1. Arrive(r, d, u, NoToken, "password") /\ Idle(r) /\ UNCHANGED ended
        BY <2>2, <3>2 DEF BeginLogin
      <4>2. NoToken \in 0..made
        BY DEF NoToken, SessInv, TokensTyped
      <4> QED BY <2>1, <4>1, <4>2, QuietArrive DEF Quiet
    <3> QED BY <3>1, <3>2
  <2>3. ASSUME NEW d \in Device, BeginRefresh(r, d) \/ BeginLogout(r, d) PROVE Quiet'
    <3>1. PICK p \in {"issue", "tip", "revoke", "cleared"} :
            /\ Arrive(r, d, owner[jar[d]], jar[d], p) /\ Idle(r) /\ jar[d] \in 1..made
            /\ p \in {"issue", "revoke"} => jar[d] \in row /\ revokedAt[jar[d]] = Never
      BY <2>3, Presented
    <3>2. UNCHANGED ended /\ jar[d] \in 0..made
      BY <2>3, <3>1 DEF BeginRefresh, BeginLogout, SessInv, TokensTyped
    <3> QED BY <2>1, <3>1, <3>2, QuietArrive DEF Quiet
  <2>4. ASSUME NEW d \in Device, NEW t \in Token, BeginRevoke(r, d, t) PROVE Quiet'
    <3>1. /\ Arrive(r, d, owner[t], t, "revokeOther") /\ Idle(r) /\ UNCHANGED ended
          /\ t \in row /\ revokedAt[t] = Never
      BY <2>4 DEF BeginRevoke, Sessions, ActiveOf, Active
    <3>2. t \in 0..made
      BY <3>1 DEF SessInv, TokensTyped
    <3> QED BY <2>1, <3>1, <3>2, QuietArrive DEF Quiet
  <2>5. ASSUME NEW right \in BOOLEAN, CheckPassword(r, right) PROVE Quiet'
    <3>1. At(r, "password") /\ UNCHANGED ended /\ Handles(r) = {}
      BY <2>5, HandlesAt DEF CheckPassword, ghostVars, At
    <3>2. CASE Leave(r)
      BY <2>1, <3>1, <3>2, QuietLeave DEF Quiet, At
    <3>3. CASE ~Leave(r)
      <4>1. Becomes(r, "prune", req[r].old, req[r].new, req[r].excess)
        BY <2>5, <3>3, PasswordBecomes
      <4>2. Handles(r)' = Handles(r) /\ UNCHANGED family
        BY <2>1, <3>1, <4>1 DEF Becomes, Handles, Idle, At, TokensKept
      <4>3. \A f : Works(r, f)' => Works(r, f)
        BY <4>2 DEF Works, FamiliesOf
      <4> QED BY <2>1, <3>1, <4>1, <4>3, QuietGoesOn DEF Quiet, Becomes, Hot, At
    <3> QED BY <3>2, <3>3
  <2>6. ASSUME NEW d \in Device, LogoutAll(r, d) PROVE Quiet'
    BY <2>1, <2>6, QuietLogoutAll DEF Quiet
  <2>7. ASSUME Respond(r) PROVE Quiet'
    BY <2>1, <2>7, QuietLeave DEF Quiet, Respond, ghostVars, At
  <2>8. ASSUME CutOff(r) PROVE Quiet'
    <3>1. Leave(r) /\ UNCHANGED ended /\ troubled' = troubled \cup FamiliesOf(r)
      BY <2>8 DEF CutOff
    <3>2. \A f : f \notin troubled' => ~Works(r, f)
      BY <3>1 DEF Works
    <3> QED BY <2>1, <3>1, <3>2, QuietLeave DEF Quiet
  <2>9. ASSUME Prune(r) PROVE Quiet'
    <3>1. At(r, "prune") /\ UNCHANGED <<ended, family>>
      BY <2>9 DEF Prune, ghostVars
    <3>2. Becomes(r, "list", req[r].old, req[r].new, req[r].excess)
      BY <2>9, PruneBecomes
    <3>3. Handles(r)' = Handles(r)
      BY <3>1, <3>2 DEF Becomes, Handles, Idle, At
    <3>4. \A f : Works(r, f)' => Works(r, f)
      BY <3>1, <3>3 DEF Works, FamiliesOf
    <3> QED BY <2>1, <3>1, <3>2, <3>4, QuietGoesOn DEF Quiet, Becomes, Hot, At
  <2> QED BY <1>2, <2>1, <2>2, <2>3, <2>4, <2>5, <2>6, <2>7, <2>8, <2>9, QuietFindExcess, QuietExcess,
          QuietTip, QuietReplace, QuietRevoke DEF RequestStep, Quiet
<1> QED BY <1>1, <1>2

LEMMA QuietNext == SessInv /\ Ordered /\ Quiet /\ [Next]_vars => Quiet'
<1> SUFFICES ASSUME SessInv, Ordered, Quiet, [Next]_vars PROVE Quiet'
  OBVIOUS
<1>1. ASSUME NEW u \in User, SetStanding(u) PROVE Quiet'
  BY <1>1, QuietSame DEF SetStanding, tokenVars, ghostVars
<1>2. ASSUME Tick PROVE Quiet'
  BY <1>2, QuietSame DEF Tick, tokenVars, ghostVars
<1>3. ASSUME UNCHANGED vars PROVE Quiet'
  BY <1>3, QuietSame DEF vars, tokenVars
<1> QED BY <1>1, <1>2, <1>3, QuietStep DEF Next

LEMMA QuietInit == SessionInit => Quiet
<1> SUFFICES ASSUME SessionInit PROVE Quiet
  OBVIOUS
<1>1. \A r \in Req : req[r] = NoRequest
  BY DEF SessionInit
<1>2. \A f, r : r \in Req => ~Works(r, f)
  BY <1>1 DEF NoRequest, Works, FamiliesOf, Handles, Idle, At
<1>3. \A f : Unrevoked(f) = {}
  BY DEF SessionInit, Unrevoked
<1> QED BY <1>2, <1>3 DEF Quiet, QuietFamily

LEMMA OneToken ==
  ASSUME SessInv, Quiet
  PROVE  OneTokenPerQuietFamily
<1> SUFFICES ASSUME NEW f, f \notin troubled, \A r \in Req : f \notin FamiliesOf(r)
             PROVE  Cardinality({t \in row : family[t] = f /\ revokedAt[t] = Never})
                      <= (IF f \in ended THEN 0 ELSE 1)
  BY DEF OneTokenPerQuietFamily
<1>1. /\ \A s, t \in Unrevoked(f) : s = t
      /\ f \in ended => Unrevoked(f) = {}
  BY DEF Quiet, QuietFamily, Works
<1>2. CASE Unrevoked(f) = {}
  BY <1>2, FS_EmptySet DEF Unrevoked
<1>3. CASE Unrevoked(f) # {}
  <2>1. PICK t : Unrevoked(f) = {t}
    BY <1>1, <1>3
  <2>2. Cardinality(Unrevoked(f)) = 1 /\ f \notin ended
    BY <1>1, <2>1, FS_Singleton
  <2> QED BY <2>2 DEF Unrevoked
<1> QED BY <1>2, <1>3

----------------------------------------------------------------------------
(* The devices that hold them. *)

\* A device presents or gets the tokens of its own session.
Owns(r, f) == ~At(r, "revokeOther") /\ ~At(r, "excess") /\ Works(r, f)
Holds(d, f) == jar[d] # NoToken /\ family[jar[d]] = f

\* One device holds it, and a token that was replaced only while a request is at
\* work; what is about to replace it is not revoked.
HeldFamily(f) ==
  /\ \A d, e \in Device : Holds(d, f) /\ Holds(e, f) => d = e
  /\ \A r \in Req, d \in Device : Owns(r, f) /\ Holds(d, f) => d = req[r].dev
  /\ f \notin ended =>
       /\ \A d \in Device : Holds(d, f) /\ revokedAt[jar[d]] # Never => \E r \in Req : Works(r, f)
       /\ \A r \in Req : /\ At(r, "tip") => ~Works(r, f)
                         /\ req[r].at \in {"replace", "respond"} /\ family[req[r].new] = f
                              => revokedAt[req[r].new] = Never

Held == \A f : f \notin troubled => HeldFamily(f)

LEMMA HoldsSame ==
  ASSUME SessInv, UNCHANGED jar, \A t \in 1..made : family'[t] = family[t], NEW f
  PROVE  \A d \in Device : Holds(d, f)' <=> Holds(d, f)
BY DEF Holds, SessInv, JarsOk, NoToken, TokensTyped

\* A family stays held by one device in a step that revokes none of its tokens,
\* or ends it.
LEMMA HeldFrame ==
  ASSUME SessInv, Ordered, TokensKept, UNCHANGED jar, NEW r \in Req,
         \A q \in Req \ {r} : SameRequest(q), NEW f, HeldFamily(f),
         f \notin ended' => \A t \in 1..made : family[t] = f => revokedAt'[t] = revokedAt[t],
         Owns(r, f)' => \A d \in Device : Holds(d, f) => d = req'[r].dev,
         f \notin ended' /\ Works(r, f) => Works(r, f)',
         f \notin ended' /\ At(r, "tip")' => ~Works(r, f)',
         req'[r].at \notin {"replace", "respond"}
  PROVE  HeldFamily(f)'
<1>1. \A d \in Device : Holds(d, f)' <=> Holds(d, f)
  BY HoldsSame DEF TokensKept
<1>2. \A q \in Req \ {r} : /\ Works(q, f)' <=> Works(q, f)
                           /\ Owns(q, f)' <=> Owns(q, f)
                           /\ req'[q].at = req[q].at /\ req'[q].dev = req[q].dev
                           /\ req'[q].new = req[q].new
  BY WorksSame DEF TokensKept, Owns, At, SameRequest
<1>3. f \notin ended' => f \notin ended
  BY DEF TokensKept
<1>4. \A c, d \in Device : Holds(c, f)' /\ Holds(d, f)' => c = d
  BY <1>1 DEF HeldFamily
<1>5. \A q \in Req, d \in Device : Owns(q, f)' /\ Holds(d, f)' => d = req'[q].dev
  BY <1>1, <1>2 DEF HeldFamily
<1>6. ASSUME f \notin ended', NEW d \in Device, Holds(d, f)', revokedAt'[jar[d]] # Never
      PROVE  \E q \in Req : Works(q, f)'
  <2>1. Holds(d, f) /\ jar[d] \in 1..made /\ family[jar[d]] = f
    BY <1>1, <1>6 DEF Holds, SessInv, JarsOk, NoToken, TokensTyped
  <2>2. revokedAt[jar[d]] # Never
    BY <1>6, <2>1
  <2>3. PICK q \in Req : Works(q, f)
    BY <1>3, <1>6, <2>1, <2>2 DEF HeldFamily
  <2> QED BY <1>2, <1>6, <2>3
<1>7. ASSUME f \notin ended', NEW q \in Req PROVE At(q, "tip")' => ~Works(q, f)'
  BY <1>2, <1>3, <1>7 DEF HeldFamily, At
<1>8. ASSUME f \notin ended', NEW q \in Req, req'[q].at \in {"replace", "respond"},
             family'[req'[q].new] = f
      PROVE  revokedAt'[req'[q].new] = Never
  <2>1. q # r
    BY <1>8
  <2>2. req[q].at \in {"replace", "respond"} /\ req'[q].new = req[q].new
    BY <1>2, <1>8, <2>1
  <2>3. req[q].new \in 1..made
    <3>1. RequestOk(req[q]) /\ RequestOrder(req[q]) /\ req[q] # NoRequest
      BY <2>2, Underway DEF SessInv, Ordered, At
    <3> QED BY <2>2, <3>1 DEF RequestOk, RequestOrder, NoToken, SessInv, TokensTyped
  <2>4. family[req[q].new] = f
    BY <1>8, <2>2, <2>3 DEF TokensKept
  <2> QED BY <1>3, <1>8, <2>2, <2>3, <2>4 DEF HeldFamily
<1> QED BY <1>4, <1>5, <1>6, <1>7, <1>8 DEF HeldFamily

\* A request leaves, or goes on with the same tokens.
LEMMA HeldGoesOn ==
  ASSUME SessInv, Ordered, Held, TokensKept, UNCHANGED jar, NEW r \in Req,
         \A q \in Req \ {r} : SameRequest(q), NEW f, f \notin troubled',
         f \notin ended' => \A t \in 1..made : family[t] = f => revokedAt'[t] = revokedAt[t],
         Owns(r, f)' => Owns(r, f) /\ req'[r].dev = req[r].dev,
         f \notin ended' /\ Works(r, f) => Works(r, f)',
         req'[r].at \notin {"replace", "respond", "tip"}
  PROVE  HeldFamily(f)'
<1>1. HeldFamily(f)
  BY DEF Held, TokensKept
<1>2. Owns(r, f)' => \A d \in Device : Holds(d, f) => d = req'[r].dev
  BY <1>1 DEF HeldFamily
<1>3. ~At(r, "tip")'
  BY DEF At
<1> QED BY <1>1, <1>2, <1>3, HeldFrame

LEMMA HeldLeave ==
  ASSUME SessInv, Ordered, Held, TokensKept, UNCHANGED jar, NEW r \in Req,
         \A q \in Req \ {r} : SameRequest(q), NEW f, f \notin troubled',
         f \notin ended' => \A t \in 1..made : family[t] = f => revokedAt'[t] = revokedAt[t],
         Leave(r), f \notin ended' => ~Works(r, f)
  PROVE  HeldFamily(f)'
<1>1. Idle(r)' /\ ~Works(r, f)'
  BY NotIdle
<1>2. req'[r].at = "idle" /\ ~Owns(r, f)'
  BY <1>1 DEF Idle, At, Owns
<1> QED BY <1>2, HeldGoesOn

LEMMA HeldArrive ==
  ASSUME SessInv, Ordered, Held, TokensKept, UNCHANGED jar, NEW r \in Req,
         \A q \in Req \ {r} : SameRequest(q), NEW f, f \notin troubled',
         UNCHANGED <<revokedAt, ended>>, NEW STATE d, NEW STATE u, NEW STATE t, NEW p,
         Idle(r), Arrive(r, d, u, t, p), p \notin {"idle", "replace", "respond", "excess"},
         t # NoToken /\ p # "revokeOther" => d \in Device /\ t = jar[d],
         p = "tip" => t # NoToken /\ revokedAt[t] # Never
  PROVE  HeldFamily(f)'
<1>1. HeldFamily(f)
  BY DEF Held, TokensKept
<1>2. ~Works(r, f)
  BY DEF Works, FamiliesOf, Handles
<1>3. /\ req'[r].at = p /\ req'[r].dev = d
      /\ Works(r, f)' <=> t # NoToken /\ f = family[t]
  BY ArriveWorks DEF TokensKept
<1>4. Owns(r, f)' => \A e \in Device : Holds(e, f) => e = req'[r].dev
  BY <1>1, <1>3 DEF Owns, At, Holds, HeldFamily
<1>5. ASSUME f \notin ended', At(r, "tip")', Works(r, f)' PROVE FALSE
  <2>1. p = "tip" /\ t # NoToken /\ f = family[t] /\ d \in Device /\ t = jar[d] /\ revokedAt[t] # Never
    BY <1>3, <1>5 DEF At
  <2>2. PICK q \in Req : Works(q, f)
    BY <1>1, <1>5, <2>1 DEF HeldFamily, Holds
  <2>3. troubled' = troubled \cup Shared(r, {f})
    BY <2>1 DEF Arrive
  <2>4. ~Works(q, f)
    BY <1>2, <2>3, NotShared
  <2> QED BY <2>2, <2>4
<1> QED BY <1>1, <1>2, <1>3, <1>4, <1>5, HeldFrame

\* The token a request has created exists.
LEMMA Created ==
  ASSUME SessInv, Ordered, NEW q \in Req, req[q].at \in {"replace", "respond"}
  PROVE  /\ req[q].new \in 1..made /\ req[q].new \in Handles(q) /\ req[q].dev \in Device
         /\ At(q, "replace") => req[q].old # req[q].new
         /\ Owns(q, family[req[q].new])
<1>1. RequestOk(req[q]) /\ RequestOrder(req[q]) /\ req[q] # NoRequest
  BY Underway DEF SessInv, Ordered, At
<1>2. req[q].new \in 1..made /\ req[q].new # NoToken
  BY <1>1 DEF RequestOk, RequestOrder, NoToken, SessInv, TokensTyped
<1>3. req[q].new \in Handles(q)
  BY <1>2, HandlesAt DEF At
<1>4. req[q].dev \in Device /\ (At(q, "replace") => req[q].old # req[q].new)
  BY <1>1 DEF RequestOk, RequestOrder, At, SessInv, TokensTyped
<1> QED BY <1>2, <1>3, <1>4 DEF Owns, Works, FamiliesOf, At

LEMMA HeldReplace ==
  ASSUME SessInv, Ordered, Quiet, Held, TokensKept, NEW r \in Req,
         \A q \in Req \ {r} : SameRequest(q), Replace(r), NEW f, f \notin troubled'
  PROVE  HeldFamily(f)'
<1>1. At(r, "replace") /\ UNCHANGED <<ended, family, jar>>
  BY DEF Replace, clientVars
<1>2. CASE req[r].old \notin row
  <2>1. Leave(r) /\ troubled' = troubled \cup FamiliesOf(r) /\ UNCHANGED revokedAt
    BY <1>2 DEF Replace
  <2> QED BY <1>1, <2>1, HeldLeave DEF Works
<1>3. CASE req[r].old \in row
  <2>1. /\ revokedAt' = [revokedAt EXCEPT ![req[r].old] = now]
        /\ Becomes(r, "respond", req[r].old, req[r].new, req[r].excess)
    BY <1>3, ReplaceBecomes DEF Replace, RevokesOld
  <2>2. f \notin troubled
    BY DEF TokensKept
  <2>3. HeldFamily(f) /\ QuietFamily(f)
    BY <2>2 DEF Quiet, Held
  <2>4. \A d \in Device : Holds(d, f)' <=> Holds(d, f)
    BY <1>1, HoldsSame
  <2>5. \A q \in Req : /\ Works(q, f)' <=> Works(q, f)
                       /\ Owns(q, f)' <=> Owns(q, f)
                       /\ req'[q].dev = req[q].dev /\ req'[q].new = req[q].new
                       /\ At(q, "tip")' <=> At(q, "tip")
                       /\ q # r => req'[q].at = req[q].at
    <3>1. /\ Works(r, f)' <=> Works(r, f)
          /\ Owns(r, f)' <=> Owns(r, f)
          /\ At(r, "tip")' <=> At(r, "tip")
      BY <1>1, <2>1 DEF Becomes, Works, FamiliesOf, Handles, Idle, At, Owns
    <3>2. ASSUME NEW q \in Req \ {r}
          PROVE  /\ Works(q, f)' <=> Works(q, f)
                 /\ Owns(q, f)' <=> Owns(q, f)
                 /\ req'[q].dev = req[q].dev /\ req'[q].new = req[q].new
                 /\ At(q, "tip")' <=> At(q, "tip")
                 /\ req'[q].at = req[q].at
      BY <1>1, WorksSame DEF Owns, At, SameRequest
    <3> QED BY <2>1, <3>1, <3>2 DEF Becomes
  <2>6. ~Works(r, f) => \A t \in 1..made : family[t] = f => revokedAt'[t] = revokedAt[t]
    <3>1. req[r].old \in Handles(r)
      BY <1>1, <1>3, HandlesAt DEF At, NoToken, SessInv, TokensTyped
    <3>2. ~Works(r, f) => family[req[r].old] # f
      BY <3>1 DEF Works, FamiliesOf
    <3> QED BY <2>1, <3>2, InToken DEF SessInv, TokensTyped
  <2>7. \A c, d \in Device : Holds(c, f)' /\ Holds(d, f)' => c = d
    BY <2>3, <2>4 DEF HeldFamily
  <2>8. \A q \in Req, d \in Device : Owns(q, f)' /\ Holds(d, f)' => d = req'[q].dev
    BY <2>3, <2>4, <2>5 DEF HeldFamily
  <2>9. ASSUME f \notin ended', NEW d \in Device, Holds(d, f)', revokedAt'[jar[d]] # Never
        PROVE  \E q \in Req : Works(q, f)'
    <3>1. CASE Works(r, f)
      BY <2>5, <3>1
    <3>2. CASE ~Works(r, f)
      <4>1. Holds(d, f) /\ jar[d] \in 1..made /\ family[jar[d]] = f
        BY <2>4, <2>9 DEF Holds, SessInv, JarsOk, NoToken, TokensTyped
      <4>2. revokedAt[jar[d]] # Never
        BY <2>6, <2>9, <3>2, <4>1
      <4>3. PICK q \in Req : Works(q, f)
        BY <1>1, <2>3, <2>9, <4>1, <4>2 DEF HeldFamily
      <4> QED BY <2>5, <4>3
    <3> QED BY <3>1, <3>2
  <2>10. ASSUME f \notin ended', NEW q \in Req PROVE At(q, "tip")' => ~Works(q, f)'
    BY <1>1, <2>3, <2>5, <2>10 DEF HeldFamily
  <2>11. ASSUME f \notin ended', NEW q \in Req, req'[q].at \in {"replace", "respond"},
                family'[req'[q].new] = f
         PROVE  revokedAt'[req'[q].new] = Never
    <3>1. req[q].at \in {"replace", "respond"} /\ family[req[q].new] = f
      BY <1>1, <2>5, <2>11 DEF At
    <3>2. revokedAt[req[q].new] = Never /\ req[q].new \in 1..made /\ Works(q, f)
      BY <1>1, <2>3, <2>11, <3>1, Created DEF HeldFamily, Owns
    <3>3. CASE q = r
      <4>1. req[r].old # req[r].new
        BY <1>1, Created DEF At
      <4> QED BY <2>1, <2>5, <3>2, <3>3, <4>1, InToken DEF SessInv, TokensTyped
    <3>4. CASE q # r
      <4>1. ~Works(r, f)
        BY <2>3, <3>2, <3>4 DEF QuietFamily
      <4> QED BY <2>5, <2>6, <3>1, <3>2, <4>1
    <3> QED BY <3>3, <3>4
  <2> QED BY <2>7, <2>8, <2>9, <2>10, <2>11, <1>1 DEF HeldFamily
<1> QED BY <1>2, <1>3

\* A response brings the device of the family its newest token.
LEMMA HeldRespond ==
  ASSUME SessInv, Ordered, Quiet, Held, TokensKept, NEW r \in Req,
         \A q \in Req \ {r} : SameRequest(q), Respond(r), NEW f, f \notin troubled'
  PROVE  HeldFamily(f)'
<1> DEFINE t == req[r].new
<1>1. PICK e \in Device : e = req[r].dev /\ DOMAIN jar = Device
  BY Underway DEF Respond, SessInv, JarsOk, Ordered, RequestOrder, At
<1>2. /\ req[r].at \in {"respond", "cleared"} /\ UNCHANGED <<ended, family, revokedAt>>
      /\ jar' = [jar EXCEPT ![e] = t] /\ Leave(r)
  BY <1>1 DEF Respond, ghostVars, tokenVars
<1>3. f \notin troubled
  BY DEF TokensKept
<1>4. HeldFamily(f) /\ QuietFamily(f)
  BY <1>3 DEF Quiet, Held
<1>5. t # NoToken => req[r].at = "respond"
  BY <1>2, Underway DEF SessInv, Ordered, RequestOrder, At
<1>6. Holds(e, f)' => /\ t # NoToken /\ family[t] = f /\ req[r].at = "respond"
                      /\ Works(r, f) /\ Owns(r, f)
  <2>1. Holds(e, f)' => t # NoToken /\ family[t] = f
    BY <1>2, <1>1 DEF Holds
  <2> QED BY <1>5, <2>1, Created DEF Owns
<1>7. \A d \in Device \ {e} : Holds(d, f)' <=> Holds(d, f) /\ jar'[d] = jar[d]
  BY <1>2, <1>1 DEF Holds
<1>8. Idle(r)' /\ ~Works(r, f)'
  BY <1>2, NotIdle
<1>9. \A q \in Req \ {r} : /\ Works(q, f)' <=> Works(q, f)
                           /\ Owns(q, f)' <=> Owns(q, f)
                           /\ req'[q].dev = req[q].dev /\ req'[q].new = req[q].new
                           /\ req'[q].at = req[q].at
  BY <1>2, WorksSame DEF Owns, At, SameRequest
<1>10. Works(r, f) => Owns(r, f)
  BY <1>2 DEF Owns, At
<1>11. \A c, d \in Device : Holds(c, f)' /\ Holds(d, f)' => c = d
  <2>1. \A d \in Device \ {e} : Holds(e, f)' => ~Holds(d, f)'
    BY <1>4, <1>1, <1>6, <1>7 DEF HeldFamily
  <2>2. \A c, d \in Device \ {e} : Holds(c, f)' /\ Holds(d, f)' => c = d
    BY <1>4, <1>7 DEF HeldFamily
  <2> QED BY <2>1, <2>2
<1>12. ASSUME NEW q \in Req, NEW d \in Device, Owns(q, f)', Holds(d, f)' PROVE d = req'[q].dev
  <2>1. q # r /\ Owns(q, f) /\ Works(q, f)
    BY <1>8, <1>9, <1>12 DEF Owns
  <2>2. d # e
    BY <1>4, <1>6, <1>12, <2>1 DEF QuietFamily
  <2> QED BY <1>4, <1>7, <1>9, <1>12, <2>1, <2>2 DEF HeldFamily
<1>13. ASSUME f \notin ended, NEW d \in Device, Holds(d, f)', revokedAt[jar'[d]] # Never
       PROVE  \E q \in Req : Works(q, f)'
  <2>1. d # e
    <3>1. SUFFICES ASSUME d = e PROVE FALSE
      OBVIOUS
    <3>2. jar'[d] = t /\ revokedAt[t] = Never
      BY <1>2, <1>4, <1>1, <1>6, <1>13, <3>1 DEF HeldFamily
    <3> QED BY <1>13, <3>2
  <2>2. Holds(d, f) /\ revokedAt[jar[d]] # Never
    BY <1>7, <1>13, <2>1
  <2>3. PICK q \in Req : Works(q, f)
    BY <1>4, <1>13, <2>2 DEF HeldFamily
  <2>4. q # r
    BY <1>1, <1>4, <1>10, <2>1, <2>2, <2>3 DEF HeldFamily
  <2> QED BY <1>9, <2>3, <2>4
<1>14. ASSUME f \notin ended, NEW q \in Req PROVE At(q, "tip")' => ~Works(q, f)'
  BY <1>4, <1>8, <1>9, <1>14 DEF HeldFamily, At
<1>15. ASSUME f \notin ended, NEW q \in Req, req'[q].at \in {"replace", "respond"},
              family[req'[q].new] = f
       PROVE  revokedAt[req'[q].new] = Never
  BY <1>4, <1>8, <1>9, <1>15 DEF HeldFamily, Idle, At
<1>16. HeldFamily(f)' <=>
         /\ \A c, d \in Device : Holds(c, f)' /\ Holds(d, f)' => c = d
         /\ \A q \in Req, d \in Device : Owns(q, f)' /\ Holds(d, f)' => d = req'[q].dev
         /\ f \notin ended =>
              /\ \A d \in Device : Holds(d, f)' /\ revokedAt[jar'[d]] # Never
                                     => \E q \in Req : Works(q, f)'
              /\ \A q \in Req : /\ At(q, "tip")' => ~Works(q, f)'
                                /\ req'[q].at \in {"replace", "respond"} /\ family[req'[q].new] = f
                                     => revokedAt[req'[q].new] = Never
  BY <1>2 DEF HeldFamily
<1> QED BY <1>11, <1>12, <1>13, <1>14, <1>15, <1>16

LEMMA HeldIssue ==
  ASSUME SessInv, Ordered, Quiet, Held, NEW r \in Req, Issue(r), NEW f, f \notin troubled'
  PROVE  HeldFamily(f)'
<1> DEFINE t == made + 1
<1>1. /\ made \in Nat /\ UNCHANGED <<revokedAt, jar, ended, troubled>> /\ At(r, "issue")
      /\ \A s \in 1..made : family'[s] = family[s]
      /\ family'[t] = IF req[r].old = NoToken THEN t ELSE family[req[r].old]
      /\ revokedAt[t] = Never
  BY IssueShape
<1>2. HeldFamily(f) /\ QuietFamily(f)
  BY <1>1 DEF Held, Quiet
<1>3. \A d \in Device : Holds(d, f)' <=> Holds(d, f)
  BY <1>1, HoldsSame
<1>4. /\ \A q \in Req \ {r} : /\ Works(q, f)' <=> Works(q, f)
                              /\ Owns(q, f)' <=> Owns(q, f)
                              /\ req'[q].at = req[q].at /\ req'[q].dev = req[q].dev
                              /\ req'[q].new = req[q].new
      /\ Works(r, f)' <=> f = family'[t]
      /\ Works(r, f) <=> req[r].old # NoToken /\ f = family'[t]
      /\ req'[r].at \in {"respond", "replace"} /\ req'[r].dev = req[r].dev /\ req'[r].new = t
  BY IssueWorks DEF SameRequest, Owns, At
<1>5. Owns(r, f)' => Owns(r, f) \/ \A d \in Device : ~Holds(d, f)
  <2>1. CASE req[r].old # NoToken
    BY <1>1, <1>4, <2>1 DEF Owns, At
  <2>2. CASE req[r].old = NoToken
    <3>1. \A d \in Device : ~Holds(d, t)
      BY <1>1 DEF Holds, SessInv, JarsOk, NoToken, Ordered, TokenOrder
    <3> QED BY <1>1, <1>4, <2>2, <3>1 DEF Owns
  <2> QED BY <2>1, <2>2
<1>6. \A c, d \in Device : Holds(c, f)' /\ Holds(d, f)' => c = d
  BY <1>2, <1>3 DEF HeldFamily
<1>7. \A q \in Req, d \in Device : Owns(q, f)' /\ Holds(d, f)' => d = req'[q].dev
  BY <1>2, <1>3, <1>4, <1>5 DEF HeldFamily
<1>8. ASSUME f \notin ended, NEW d \in Device, Holds(d, f)', revokedAt[jar[d]] # Never
      PROVE  \E q \in Req : Works(q, f)'
  <2>1. PICK q \in Req : Works(q, f)
    BY <1>2, <1>3, <1>8 DEF HeldFamily
  <2> QED BY <1>4, <2>1
<1>9. ASSUME f \notin ended, NEW q \in Req PROVE At(q, "tip")' => ~Works(q, f)'
  BY <1>2, <1>4, <1>9 DEF HeldFamily, At
<1>10. ASSUME f \notin ended, NEW q \in Req, req'[q].at \in {"replace", "respond"},
              family'[req'[q].new] = f
       PROVE  revokedAt[req'[q].new] = Never
  <2>1. CASE q = r
    BY <1>1, <1>4, <2>1
  <2>2. CASE q # r
    <3>1. req[q].at \in {"replace", "respond"} /\ req'[q].new = req[q].new
      BY <1>4, <1>10, <2>2
    <3>2. req[q].new \in 1..made
      BY <3>1, Created
    <3> QED BY <1>1, <1>2, <1>10, <3>1, <3>2 DEF HeldFamily
  <2> QED BY <2>1, <2>2
<1>11. HeldFamily(f)' <=>
         /\ \A c, d \in Device : Holds(c, f)' /\ Holds(d, f)' => c = d
         /\ \A q \in Req, d \in Device : Owns(q, f)' /\ Holds(d, f)' => d = req'[q].dev
         /\ f \notin ended =>
              /\ \A d \in Device : Holds(d, f)' /\ revokedAt[jar[d]] # Never
                                     => \E q \in Req : Works(q, f)'
              /\ \A q \in Req : /\ At(q, "tip")' => ~Works(q, f)'
                                /\ req'[q].at \in {"replace", "respond"} /\ family'[req'[q].new] = f
                                     => revokedAt[req'[q].new] = Never
  BY <1>1 DEF HeldFamily
<1> QED BY <1>6, <1>7, <1>8, <1>9, <1>10, <1>11

\* Those that end sessions: of a family that is not ended they revoke nothing.
LEMMA HeldEnds ==
  ASSUME SessInv, Ordered, Held, TokensKept, NEW r \in Req, \A q \in Req \ {r} : SameRequest(q),
         RevokeExcess(r) \/ RevokeOne(r) \/ \E d \in Device : LogoutAll(r, d),
         NEW f, f \notin troubled'
  PROVE  HeldFamily(f)'
<1>1. UNCHANGED jar
  BY DEF RevokeExcess, RevokeOne, LogoutAll, clientVars
<1>2. 1..made \subseteq Token /\ DOMAIN revokedAt = Token
  BY InToken DEF SessInv, TokensTyped
<1>3. CASE RevokeExcess(r)
  <2>1. /\ revokedAt' = [t \in Token |-> IF t \in req[r].excess \cap row THEN now ELSE revokedAt[t]]
        /\ ended' = ended \cup {family[t] : t \in req[r].excess} /\ At(r, "excess")
    BY <1>3 DEF RevokeExcess, Ends
  <2>2. f \notin ended' => \A t \in 1..made : family[t] = f => revokedAt'[t] = revokedAt[t]
    BY <1>2, <2>1
  <2>3. Becomes(r, "issue", req[r].old, req[r].new, {}) /\ Handles(r) = req[r].excess
    BY <1>3, <2>1, ExcessBecomes, HandlesAt
  <2>4. f \notin ended' => ~Works(r, f)
    BY <2>1, <2>3 DEF Works, FamiliesOf
  <2>5. req[r].old = NoToken /\ req[r].new = NoToken
    BY <2>1, Underway DEF SessInv, Ordered, RequestOrder, At
  <2>6. ~Owns(r, f)'
    BY <2>3, <2>5 DEF Becomes, Owns, Works, FamiliesOf, Handles, Idle, At
  <2>7. req'[r].at \notin {"replace", "respond", "tip"}
    BY <2>3 DEF Becomes
  <2> QED BY <1>1, <2>2, <2>4, <2>6, <2>7, HeldGoesOn
<1>4. CASE RevokeOne(r)
  <2> DEFINE t == req[r].old
  <2>1. /\ revokedAt' = [revokedAt EXCEPT ![t] = IF t \in row THEN now ELSE @]
        /\ ended' = ended \cup {family[t]} /\ req[r].at \in {"revoke", "revokeOther"}
        /\ UNCHANGED family
    BY <1>4 DEF RevokeOne, Ends
  <2>2. f \notin ended' => \A x \in 1..made : family[x] = f => revokedAt'[x] = revokedAt[x]
    BY <1>2, <2>1
  <2>3. Handles(r) \subseteq {t}
    BY <2>1, HandlesAt
  <2>4. f \notin ended' => ~Works(r, f)
    BY <2>1, <2>3 DEF Works, FamiliesOf
  <2>5. CASE Leave(r)
    BY <1>1, <2>2, <2>4, <2>5, HeldLeave
  <2>6. CASE ~Leave(r)
    <3>1. Becomes(r, "cleared", req[r].old, req[r].new, req[r].excess) /\ At(r, "revoke")
      BY <1>4, <2>6, RevokeBecomes
    <3>2. Owns(r, f)' => Owns(r, f) /\ req'[r].dev = req[r].dev
      BY <2>1, <3>1 DEF Becomes, Owns, Works, FamiliesOf, Handles, Idle, At
    <3>3. req'[r].at \notin {"replace", "respond", "tip"}
      BY <3>1 DEF Becomes
    <3> QED BY <1>1, <2>2, <2>4, <3>2, <3>3, HeldGoesOn
  <2> QED BY <2>5, <2>6
<1>5. ASSUME NEW d \in Device, LogoutAll(r, d) PROVE HeldFamily(f)'
  <2> DEFINE mine == {t \in row : owner[t] = owner[jar[d]] /\ revokedAt[t] = Never}
  <2>1. /\ revokedAt' = [t \in Token |-> IF t \in mine THEN now ELSE revokedAt[t]]
        /\ ended' = ended \cup {family[t] : t \in mine} /\ Idle(r)
        /\ req' = [req EXCEPT ![r] = [at |-> "cleared", dev |-> d, user |-> owner[jar[d]],
                       old |-> NoToken, new |-> NoToken, excess |-> {}, alone |-> FALSE]]
    BY <1>5 DEF LogoutAll, Ends
  <2> HIDE DEF mine
  <2>2. f \notin ended' => \A t \in 1..made : family[t] = f => revokedAt'[t] = revokedAt[t]
    BY <1>2, <2>1
  <2>3. ~Works(r, f)
    BY <2>1 DEF Works, FamiliesOf, Handles
  <2>4. /\ req'[r].at = "cleared" /\ req'[r].old = NoToken /\ req'[r].new = NoToken
    BY <2>1 DEF SessInv, RequestsOk
  <2>5. ~Owns(r, f)'
    BY <2>4 DEF Owns, Works, FamiliesOf, Handles, Idle, At
  <2> QED BY <1>1, <2>2, <2>3, <2>4, <2>5, HeldGoesOn
<1> QED BY <1>3, <1>4, <1>5

\* A login before it creates a token works on no family.
LEMMA HeldLogin ==
  ASSUME SessInv, Ordered, Held, TokensKept, NEW r \in Req, \A q \in Req \ {r} : SameRequest(q),
         Prune(r) \/ FindExcess(r) \/ \E right \in BOOLEAN : CheckPassword(r, right), NEW f, f \notin troubled'
  PROVE  HeldFamily(f)'
<1>1. UNCHANGED <<jar, revokedAt, family>>
  BY DEF Prune, FindExcess, CheckPassword, clientVars, tokenVars
<1>2. req[r].at \in {"prune", "list", "password"} /\ Handles(r) = {}
  BY HandlesAt DEF Prune, FindExcess, CheckPassword, At
<1>3. ~Works(r, f)
  BY <1>2 DEF Works, FamiliesOf
<1>4. CASE Leave(r)
  BY <1>1, <1>3, <1>4, HeldLeave
<1>5. CASE ~Leave(r)
  <2>1. \E p, e : p \in {"prune", "list", "issue", "excess"} /\ Becomes(r, p, req[r].old, req[r].new, e)
    BY <1>5, PruneBecomes, FindExcessBecomes, PasswordBecomes
  <2>2. PICK p, e : p \in {"prune", "list", "issue", "excess"} /\ Becomes(r, p, req[r].old, req[r].new, e)
    BY <2>1
  <2>3. req[r].old = NoToken /\ req[r].new = NoToken
    BY <1>2, Underway DEF SessInv, Ordered, RequestOrder, At
  <2>4. ~Owns(r, f)'
    BY <2>2, <2>3 DEF Becomes, Owns, Works, FamiliesOf, Handles, Idle, At
  <2>5. req'[r].at \notin {"replace", "respond", "tip"}
    BY <2>2 DEF Becomes
  <2> QED BY <1>1, <1>3, <2>4, <2>5, HeldGoesOn
<1> QED BY <1>4, <1>5

LEMMA HeldTip ==
  ASSUME SessInv, Ordered, Held, TokensKept, NEW r \in Req, \A q \in Req \ {r} : SameRequest(q),
         FindTip(r), NEW f, f \notin troubled'
  PROVE  HeldFamily(f)'
<1>1. UNCHANGED <<jar, revokedAt, family, ended>> /\ At(r, "tip")
  BY DEF FindTip, clientVars, tokenVars, ghostVars
<1>2. f \notin ended' => ~Works(r, f)
  BY <1>1 DEF Held, HeldFamily, TokensKept
<1>3. CASE Leave(r)
  BY <1>1, <1>2, <1>3, HeldLeave
<1>4. CASE ~Leave(r)
  <2>1. PICK t \in TipFor(r) : Becomes(r, "issue", t, req[r].new, req[r].excess)
    BY <1>4, TipBecomes
  <2>2. req[r].old # NoToken /\ req[r].new = NoToken
    BY <1>1, Underway DEF SessInv, RequestOk, Ordered, RequestOrder, At
  <2>3. t # NoToken /\ family[t] = family[req[r].old]
    BY DEF TipFor, Tip, SessInv, TokensTyped, NoToken
  <2>4. Handles(r)' = {t} /\ Handles(r) = {req[r].old}
    BY <1>1, <2>1, <2>2, <2>3, HandlesAt DEF Becomes, Handles, Idle, At
  <2>5. Owns(r, f)' => Owns(r, f) /\ req'[r].dev = req[r].dev
    BY <1>1, <2>1, <2>3, <2>4 DEF Becomes, Owns, Works, FamiliesOf, At
  <2>6. req'[r].at \notin {"replace", "respond", "tip"}
    BY <2>1 DEF Becomes
  <2> QED BY <1>1, <1>2, <2>5, <2>6, HeldGoesOn
<1> QED BY <1>3, <1>4

LEMMA HeldSame ==
  ASSUME Held, UNCHANGED <<family, revokedAt, jar, req, ended, troubled>>
  PROVE  Held'
<1>1. /\ \A r, f : Works(r, f)' <=> Works(r, f)
      /\ \A r, p : At(r, p)' <=> At(r, p)
  BY DEF Handles, Idle, At, Works, FamiliesOf
<1>2. /\ \A r, f : Owns(r, f)' <=> Owns(r, f)
      /\ \A d, f : Holds(d, f)' <=> Holds(d, f)
  BY <1>1 DEF Owns, Holds
<1>3. \A f : HeldFamily(f) => HeldFamily(f)'
  BY <1>1, <1>2 DEF HeldFamily
<1> QED BY <1>3 DEF Held

LEMMA HeldStep ==
  ASSUME SessInv, Ordered, Quiet, Held, NEW r \in Req, RequestStep(r)
  PROVE  Held'
<1>1. CASE Issue(r)
  BY <1>1, HeldIssue DEF Held
<1>2. CASE ~Issue(r)
  <2>1. TokensKept /\ \A q \in Req \ {r} : SameRequest(q)
    BY <1>2, KeptTokens, Others
  <2>2. ASSUME NEW d \in Device, NEW u \in User, BeginLogin(r, d, u) PROVE Held'
    <3>1. CASE LockedOut(u)
      <4>1. UNCHANGED <<family, revokedAt, jar, req, ended, troubled>>
        BY <2>2, <3>1 DEF BeginLogin, tokenVars, clientVars
      <4> QED BY <4>1, HeldSame
    <3>2. CASE ~LockedOut(u)
      <4>1. /\ Arrive(r, d, u, NoToken, "password") /\ Idle(r)
            /\ UNCHANGED <<ended, revokedAt, jar>>
        BY <2>2, <3>2 DEF BeginLogin, tokenVars, clientVars
      <4> QED BY <2>1, <4>1, HeldArrive DEF Held
    <3> QED BY <3>1, <3>2
  <2>3. ASSUME NEW d \in Device, BeginRefresh(r, d) \/ BeginLogout(r, d) PROVE Held'
    <3>1. PICK p \in {"issue", "tip", "revoke", "cleared"} :
            /\ Arrive(r, d, owner[jar[d]], jar[d], p) /\ Idle(r) /\ jar[d] \in 1..made
            /\ p = "tip" => jar[d] \in row /\ revokedAt[jar[d]] # Never
      BY <2>3, Presented
    <3>2. UNCHANGED <<ended, revokedAt, jar>>
      BY <2>3 DEF BeginRefresh, BeginLogout, tokenVars, clientVars
    <3>3. jar[d] # NoToken
      BY <3>1 DEF NoToken
    <3> QED BY <2>1, <3>1, <3>2, <3>3, HeldArrive DEF Held
  <2>4. ASSUME NEW d \in Device, NEW t \in Token, BeginRevoke(r, d, t) PROVE Held'
    <3>1. /\ Arrive(r, d, owner[t], t, "revokeOther") /\ Idle(r)
          /\ UNCHANGED <<ended, revokedAt, jar>>
      BY <2>4 DEF BeginRevoke, tokenVars, clientVars
    <3> QED BY <2>1, <3>1, HeldArrive DEF Held
  <2>5. ASSUME CutOff(r) PROVE Held'
    <3>1. /\ Leave(r) /\ UNCHANGED <<jar, revokedAt>> /\ troubled' = troubled \cup FamiliesOf(r)
      BY <2>5 DEF CutOff, clientVars, tokenVars
    <3>2. \A f : f \notin troubled' => ~Works(r, f)
      BY <3>1 DEF Works
    <3> QED BY <2>1, <3>1, <3>2, HeldLeave DEF Held
  <2> QED BY <1>2, <2>1, <2>2, <2>3, <2>4, <2>5, HeldEnds, HeldLogin, HeldTip, HeldReplace,
          HeldRespond DEF RequestStep, Held
<1> QED BY <1>1, <1>2

LEMMA HeldNext == SessInv /\ Ordered /\ Quiet /\ Held /\ [Next]_vars => Held'
<1> SUFFICES ASSUME SessInv, Ordered, Quiet, Held, [Next]_vars PROVE Held'
  OBVIOUS
<1>1. ASSUME NEW u \in User, SetStanding(u) PROVE Held'
  BY <1>1, HeldSame DEF SetStanding, tokenVars, clientVars, ghostVars
<1>2. ASSUME Tick PROVE Held'
  BY <1>2, HeldSame DEF Tick, tokenVars, ghostVars
<1>3. ASSUME UNCHANGED vars PROVE Held'
  BY <1>3, HeldSame DEF vars, tokenVars
<1> QED BY <1>1, <1>2, <1>3, HeldStep DEF Next

LEMMA HeldInit == SessionInit => Held
<1> SUFFICES ASSUME SessionInit PROVE Held
  OBVIOUS
<1>1. \A r \in Req : req[r] = NoRequest
  BY DEF SessionInit
<1>2. \A f, r : r \in Req => ~Works(r, f) /\ ~Owns(r, f) /\ req[r].at = "idle"
  BY <1>1 DEF NoRequest, Works, Owns, FamiliesOf, Handles, Idle, At
<1>3. \A d \in Device : \A f : ~Holds(d, f)
  BY DEF SessionInit, Holds
<1> QED BY <1>2, <1>3 DEF Held, HeldFamily, At

----------------------------------------------------------------------------
(* Why a refresh is refused. *)

LEMMA HasLargest ==
  ASSUME NEW S \in SUBSET Nat, IsFiniteSet(S), S # {}
  PROVE  \E m \in S : \A x \in S : x <= m
<1> DEFINE G == {T \in SUBSET S : T = {} \/ \E m \in T : \A x \in T : x <= m}
<1>1. G \in SUBSET (SUBSET S) /\ {} \in G
  OBVIOUS
<1>2. ASSUME NEW T \in G, NEW x \in S \ T PROVE T \cup {x} \in G
  <2>1. CASE T = {}
    BY <2>1
  <2>2. CASE T # {}
    <3>1. PICK m \in T : \A y \in T : y <= m
      BY <2>2
    <3>2. CASE x <= m
      BY <3>1, <3>2
    <3>3. CASE ~(x <= m)
      BY <3>1, <3>3
    <3> QED BY <3>2, <3>3
  <2> QED BY <2>1, <2>2
<1> HIDE DEF G
<1>3. S \in G
  BY <1>1, <1>2, SetInduction
<1> QED BY <1>3 DEF G

LEMMA HasSmallest ==
  ASSUME NEW S \in SUBSET Nat, IsFiniteSet(S), S # {}
  PROVE  \E m \in S : \A x \in S : m <= x
<1> DEFINE G == {T \in SUBSET S : T = {} \/ \E m \in T : \A x \in T : m <= x}
<1>1. G \in SUBSET (SUBSET S) /\ {} \in G
  OBVIOUS
<1>2. ASSUME NEW T \in G, NEW x \in S \ T PROVE T \cup {x} \in G
  <2>1. CASE T = {}
    BY <2>1
  <2>2. CASE T # {}
    <3>1. PICK m \in T : \A y \in T : m <= y
      BY <2>2
    <3>2. CASE m <= x
      BY <3>1, <3>2
    <3>3. CASE ~(m <= x)
      BY <3>1, <3>3
    <3> QED BY <3>2, <3>3
  <2> QED BY <2>1, <2>2
<1> HIDE DEF G
<1>3. S \in G
  BY <1>1, <1>2, SetInduction
<1> QED BY <1>3 DEF G

\* A family that has a token has a newest one.
LEMMA HasNewest ==
  ASSUME SessInv, NEW t \in 1..made
  PROVE  \E n \in 1..made : family[n] = family[t] /\ IsNewest(n)
<1> DEFINE S == {s \in 1..made : family[s] = family[t]}
<1>1. made \in Nat
  BY DEF SessInv, TokensTyped
<1>2. S \in SUBSET Nat /\ t \in S /\ S \in SUBSET (1..made)
  BY <1>1
<1>3. IsFiniteSet(1..made)
  BY <1>1, FS_Interval
<1> HIDE DEF S
<1>4. IsFiniteSet(S)
  BY <1>2, <1>3, FS_Subset
<1>5. PICK n \in S : \A x \in S : x <= n
  BY <1>2, <1>4, HasLargest
<1> QED BY <1>5 DEF IsNewest, S

\* A family that nobody ended and none of whose tokens can be used is over.
LEMMA NoTip ==
  ASSUME SessInv, Ordered, NEW t \in 1..made, {s \in Tip(family[t]) : Known(s)} = {}
  PROVE  Over(family[t])
<1> DEFINE f == family[t]
<1> SUFFICES ASSUME f \notin ended
             PROVE  \A s \in 1..made : family[s] = f =>
                       expires[s] <= now \/ standing[owner[s]] = "inactive"
  BY DEF Over
<1>1. PICK n \in 1..made : family[n] = f /\ IsNewest(n)
  BY HasNewest
<1>2. \A s \in 1..made : expires[s] \in Nat /\ now \in Nat
  BY LimitsTyped DEF SessInv, TokensTyped, Token
<1>3. \A s \in 1..made : family[s] = f => s <= n /\ expires[s] <= expires[n] /\ owner[s] = owner[n]
  BY <1>1 DEF IsNewest, Ordered, TokenOrder
<1>4. CASE expires[n] <= now
  BY <1>2, <1>3, <1>4
<1>5. CASE ~(expires[n] <= now)
  <2>1. revokedAt[n] = Never /\ n \in row
    BY <1>1, <1>2, <1>5 DEF SessInv, NewestIsLive
  <2>2. Active(n)
    BY <1>2, <1>5, <2>1 DEF Active
  <2>3. row \subseteq 1..made
    BY DEF SessInv, TokensTyped
  <2>4. n \in Tip(f)
    BY <1>1, <2>1, <2>2, <2>3 DEF Tip, IsNewest
  <2>5. standing[owner[n]] = "inactive"
    BY <2>1, <2>4 DEF Known
  <2> QED BY <1>3, <2>5
<1> QED BY <1>4, <1>5

LEMMA Refusals ==
  ASSUME SessInv, Ordered, Held
  PROVE  RefusedForCause
<1>1. ASSUME NEW r \in Req, At(r, "tip"), TipFor(r) = {} PROVE Over(family[req[r].old])
  <2>1. req[r].old \in 1..made
    BY <1>1, Underway DEF SessInv, RequestOk, At, NoToken, TokensTyped
  <2> QED BY <1>1, <2>1, NoTip DEF TipFor
<1>2. ASSUME NEW d \in Device, jar[d] # NoToken, Rejected(jar[d])
      PROVE  \/ Over(family[jar[d]])
             \/ expires[jar[d]] <= now
             \/ /\ family[jar[d]] \in troubled \cup UNION {FamiliesOf(r) : r \in Req}
                /\ revokedAt[jar[d]] + Grace < now
  <2> DEFINE t == jar[d]
             f == family[t]
  <2>1. t \in 1..made
    BY <1>2 DEF SessInv, JarsOk, NoToken, TokensTyped
  <2>2. expires[t] \in Nat /\ revokedAt[t] \in Nat /\ now \in Nat
    BY <2>1, LimitsTyped DEF SessInv, TokensTyped, Token
  <2>3. standing[owner[t]] = "inactive" => Over(f)
    BY <2>1 DEF Over, Ordered, TokenOrder
  <2>4. revokedAt[t] # Never => f \in ended \cup troubled \cup UNION {FamiliesOf(r) : r \in Req}
    <3>1. Holds(d, f)
      BY <1>2 DEF Holds
    <3> QED BY <3>1 DEF Held, HeldFamily, Works
  <2>5. f \in ended => Over(f)
    BY DEF Over
  <2>6. t \in row \/ Forgotten(t)
    BY <2>1 DEF Ordered, TokenOrder
  <2>7. \/ t \notin row \/ standing[owner[t]] = "inactive"
        \/ revokedAt[t] # Never /\ ~(now <= revokedAt[t] + Grace)
        \/ expires[t] <= now
    BY <1>2 DEF Rejected, Known, WithinGrace
  <2>8. Grace \in Nat /\ Retention \in Nat /\ Grace <= Retention
    BY LimitsTyped, GraceWithinRetention
  <2>9. CASE revokedAt[t] # Never /\ revokedAt[t] + Grace < now
    BY <2>4, <2>5, <2>9
  <2>10. CASE t \notin row
    BY <2>2, <2>6, <2>8, <2>9, <2>10 DEF Forgotten
  <2>11. CASE revokedAt[t] # Never /\ ~(now <= revokedAt[t] + Grace)
    BY <2>2, <2>8, <2>9, <2>11
  <2> QED BY <2>3, <2>7, <2>10, <2>11
<1> QED BY <1>1, <1>2 DEF RefusedForCause

----------------------------------------------------------------------------
(* A login that nothing overlaps. *)

Alone(r) ==
  ~Idle(r) /\ req[r].alone =>
    /\ \A q \in Req \ {r} : req[q].at \in {"idle", "cleared"}
    /\ At(r, "issue") /\ req[r].old = NoToken => Cardinality(ActiveOf(req[r].user)) < MaxActive
    /\ At(r, "excess") => Cardinality(ActiveOf(req[r].user) \ req[r].excess) < MaxActive

Limited == \A r \in Req : Alone(r)

LEMMA ActiveFinite ==
  ASSUME SessInv, NEW u
  PROVE  ActiveOf(u) \in SUBSET Nat /\ IsFiniteSet(ActiveOf(u))
<1>1. made \in Nat
  BY DEF SessInv, TokensTyped
<1>2. ActiveOf(u) \in SUBSET (1..made)
  BY DEF SessInv, TokensTyped, ActiveOf
<1>3. IsFiniteSet(1..made)
  BY <1>1, FS_Interval
<1>4. IsFiniteSet(ActiveOf(u))
  BY <1>2, <1>3, FS_Subset
<1> QED BY <1>1, <1>2, <1>4

\* What exceeds the limit leaves room for one more.
LEMMA OverflowLeaves ==
  ASSUME SessInv, NEW u
  PROVE  Cardinality(ActiveOf(u) \ Overflow(u)) < MaxActive
<1> DEFINE S == ActiveOf(u)
           K == S \ Overflow(u)
<1>1. S \in SUBSET Nat /\ IsFiniteSet(S) /\ MaxActive \in Nat \ {0}
  BY ActiveFinite, LimitsTyped
<1>2. \A t \in K : Cardinality({s \in S : s >= t}) <= MaxActive - 1
  <2>1. \A t \in S : Cardinality({s \in S : s >= t}) \in Nat
    <3>1. \A t \in S : {s \in S : s >= t} \in SUBSET S
      OBVIOUS
    <3> QED BY <1>1, <3>1, FS_Subset, FS_CardinalityType
  <2> QED BY <1>1, <2>1 DEF Overflow
<1> HIDE DEF S
<1>3. K \in SUBSET S /\ K \in SUBSET Nat /\ IsFiniteSet(K)
  BY <1>1, FS_Subset
<1> HIDE DEF K
<1>4. CASE K = {}
  BY <1>1, <1>4, FS_EmptySet DEF K, S
<1>5. CASE K # {}
  <2>1. PICK m \in K : \A x \in K : m <= x
    BY <1>3, <1>5, HasSmallest
  <2> DEFINE Up == {s \in S : s >= m}
  <2>2. K \in SUBSET Up /\ Up \in SUBSET S
    BY <1>1, <1>3, <2>1
  <2>3. Cardinality(Up) <= MaxActive - 1
    BY <1>2, <2>1
  <2> HIDE DEF Up
  <2>4. IsFiniteSet(Up)
    BY <1>1, <2>2, FS_Subset
  <2>5. Cardinality(K) <= Cardinality(Up) /\ Cardinality(K) \in Nat /\ Cardinality(Up) \in Nat
    BY <1>3, <2>2, <2>4, FS_Subset, FS_CardinalityType
  <2> QED BY <1>1, <2>3, <2>5 DEF K, S
<1> QED BY <1>4, <1>5

LEMMA ActiveShrinks ==
  ASSUME SessInv, Ordered, TokensKept
  PROVE  \A u : ActiveOf(u)' \subseteq ActiveOf(u)
<1>1. now >= 1 /\ row \subseteq 1..made /\ row' \subseteq row
  BY DEF Ordered, TokenOrder, SessInv, TokensTyped, TokensKept
<1>2. \A t \in 1..made : revokedAt'[t] = Never => revokedAt[t] = Never
  BY <1>1 DEF TokensKept, Never
<1> QED BY <1>1, <1>2 DEF ActiveOf, Active, TokensKept

LEMMA Fewer ==
  ASSUME SessInv, NEW u, NEW T, T \subseteq ActiveOf(u)
  PROVE  /\ Cardinality(T) <= Cardinality(ActiveOf(u)) /\ IsFiniteSet(T)
         /\ Cardinality(T) \in Nat /\ Cardinality(ActiveOf(u)) \in Nat
<1>1. T \in SUBSET ActiveOf(u) /\ IsFiniteSet(ActiveOf(u))
  BY ActiveFinite
<1>2. Cardinality(T) <= Cardinality(ActiveOf(u)) /\ IsFiniteSet(T)
  BY <1>1, FS_Subset
<1> QED BY <1>1, <1>2, FS_CardinalityType

\* While a request is alone, no other begins but those that end every session.
LEMMA StaysAlone ==
  ASSUME SessInv, NEW r \in Req, RequestStep(r), NEW q \in Req \ {r}, ~Idle(q), req'[q].alone,
         req[r].at \in {"idle", "cleared"}
  PROVE  req'[r].at \in {"idle", "cleared"}
<1>1. ASSUME NEW d, NEW u, NEW t, NEW p, Arrive(r, d, u, t, p) PROVE FALSE
  <2>1. req'[q] = [req[q] EXCEPT !.alone = FALSE]
    BY <1>1 DEF Arrive
  <2>2. DOMAIN req[q] = Fields
    BY Inside DEF SessInv, RequestsOk, RequestOk
  <2> QED BY <2>1, <2>2 DEF Fields
<1>2. ASSUME Leave(r) PROVE req'[r].at = "idle"
  BY <1>2, NotIdle DEF Idle, At
<1>3. ASSUME NEW d \in Device, NEW u \in User, BeginLogin(r, d, u)
      PROVE  req'[r].at \in {"idle", "cleared"}
  <2>1. CASE LockedOut(u)
    BY <1>3, <2>1 DEF BeginLogin
  <2>2. CASE ~LockedOut(u)
    BY <1>1, <1>3, <2>2 DEF BeginLogin
  <2> QED BY <2>1, <2>2
<1>4. ASSUME NEW d \in Device, BeginRefresh(r, d) \/ BeginLogout(r, d) PROVE FALSE
  BY <1>1, <1>4 DEF BeginRefresh, BeginLogout
<1>5. ASSUME NEW d \in Device, NEW t \in Token, BeginRevoke(r, d, t) PROVE FALSE
  BY <1>1, <1>5 DEF BeginRevoke
<1>6. ASSUME NEW d \in Device, LogoutAll(r, d) PROVE req'[r].at = "cleared"
  BY <1>6 DEF LogoutAll, SessInv, RequestsOk
<1>7. ASSUME Respond(r) \/ CutOff(r) PROVE req'[r].at = "idle"
  BY <1>2, <1>7 DEF Respond, CutOff
<1>8. ASSUME NEW right \in BOOLEAN, CheckPassword(r, right) PROVE FALSE
  BY <1>8 DEF CheckPassword, At
<1>9. ~Prune(r) /\ ~FindExcess(r) /\ ~RevokeExcess(r) /\ ~Issue(r) /\ ~FindTip(r) /\ ~Replace(r) /\ ~RevokeOne(r)
  BY DEF Prune, FindExcess, RevokeExcess, Issue, FindTip, Replace, RevokeOne, At
<1> QED BY <1>3, <1>4, <1>5, <1>6, <1>7, <1>8, <1>9 DEF RequestStep

\* A request that does not step stays alone or is no longer.
LEMMA OtherAlone ==
  ASSUME SessInv, Ordered, Limited, NEW r \in Req, RequestStep(r), NEW q \in Req \ {r}
  PROVE  Alone(q)'
<1>1. \A x \in Req \ {r} : SameRequest(x)
  BY Others
<1>2. SUFFICES ASSUME ~Idle(q)', req'[q].alone PROVE Alone(q)'
  BY DEF Alone
<1>3. ~Idle(q) /\ req[q].alone
  BY <1>1, <1>2 DEF Idle, At, SameRequest
<1>4. Alone(q) /\ \A x \in Req \ {q} : req[x].at \in {"idle", "cleared"}
  BY <1>3 DEF Limited, Alone
<1>5. \A x \in Req \ {q} : req'[x].at \in {"idle", "cleared"}
  <2>1. req'[r].at \in {"idle", "cleared"}
    BY <1>2, <1>3, <1>4, StaysAlone
  <2> QED BY <1>1, <1>4, <2>1 DEF SameRequest
<1>6. TokensKept
  BY <1>4, KeptTokens DEF Issue, At
<1>7. /\ req'[q].user = req[q].user /\ req'[q].old = req[q].old /\ req'[q].at = req[q].at
      /\ req'[q].excess = req[q].excess
  BY <1>1 DEF SameRequest
<1>8. ActiveOf(req[q].user)' \subseteq ActiveOf(req[q].user)
  <2>1. PICK u : u = req[q].user /\ u = req'[q].user
    BY <1>7
  <2> QED BY <1>6, <2>1, ActiveShrinks
<1>9. At(q, "issue") /\ req[q].old = NoToken => Cardinality(ActiveOf(req[q].user)') < MaxActive
  <2>1. At(q, "issue") /\ req[q].old = NoToken => Cardinality(ActiveOf(req[q].user)) < MaxActive
    BY <1>3, <1>4 DEF Alone
  <2> QED BY <1>8, <2>1, Fewer, LimitsTyped
<1>10. At(q, "excess") => Cardinality((ActiveOf(req[q].user) \ req[q].excess)') < MaxActive
  <2>1. At(q, "excess") => Cardinality(ActiveOf(req[q].user) \ req[q].excess) < MaxActive
    BY <1>3, <1>4 DEF Alone
  <2> DEFINE S == ActiveOf(req[q].user) \ req[q].excess
  <2>2. S' \in SUBSET S
    BY <1>7, <1>8
  <2>3. IsFiniteSet(S)
    BY Fewer
  <2> HIDE DEF S
  <2>4. Cardinality(S') <= Cardinality(S) /\ Cardinality(S') \in Nat /\ Cardinality(S) \in Nat
    BY <2>2, <2>3, FS_Subset, FS_CardinalityType
  <2>5. At(q, "excess") => Cardinality(S') < MaxActive
    BY <2>1, <2>4, LimitsTyped DEF S
  <2> QED BY <2>5 DEF S
<1> QED BY <1>5, <1>7, <1>9, <1>10 DEF Alone, At

LEMMA Less ==
  ASSUME SessInv, NEW u, NEW S, NEW T, T \subseteq S, S \subseteq ActiveOf(u),
         Cardinality(S) < MaxActive
  PROVE  Cardinality(T) < MaxActive
<1>1. IsFiniteSet(S) /\ Cardinality(S) \in Nat
  BY Fewer
<1>2. T \in SUBSET S
  OBVIOUS
<1>3. Cardinality(T) <= Cardinality(S) /\ IsFiniteSet(T)
  BY <1>1, <1>2, FS_Subset
<1> QED BY <1>1, <1>3, FS_CardinalityType, LimitsTyped

\* A request that was alone and goes on is still alone.
LEMMA GoesOnAlone ==
  ASSUME SessInv, Limited, NEW r \in Req, NEW STATE at, NEW STATE old, NEW STATE new, NEW STATE excess,
         Becomes(r, at, old, new, excess), \A q \in Req \ {r} : SameRequest(q), ~Idle(r),
         at = "issue" /\ old = NoToken => Cardinality(ActiveOf(req[r].user)') < MaxActive,
         at = "excess" => Cardinality(ActiveOf(req[r].user)' \ excess) < MaxActive
  PROVE  Alone(r)'
<1>1. /\ req'[r].at = at /\ req'[r].old = old /\ req'[r].excess = excess
      /\ req'[r].user = req[r].user /\ req'[r].alone = req[r].alone
  BY DEF Becomes
<1>2. SUFFICES ASSUME req'[r].alone PROVE Alone(r)'
  BY DEF Alone
<1>3. \A q \in Req \ {r} : req'[q].at \in {"idle", "cleared"}
  BY <1>1, <1>2 DEF Limited, Alone, SameRequest
<1>4. PICK u : u = req[r].user /\ u = req'[r].user
  BY <1>1
<1>5. At(r, "issue")' /\ req'[r].old = NoToken => Cardinality(ActiveOf(req[r].user)') < MaxActive
  BY <1>1 DEF At
<1>6. At(r, "excess")' => Cardinality((ActiveOf(req[r].user) \ req[r].excess)') < MaxActive
  BY <1>1, <1>4 DEF At
<1> QED BY <1>3, <1>4, <1>5, <1>6 DEF Alone

LEMMA ArriveAlone ==
  ASSUME SessInv, NEW r \in Req, NEW STATE d, NEW STATE u, NEW STATE t, NEW STATE p,
         Arrive(r, d, u, t, p), p # "excess", p = "issue" => t # NoToken
  PROVE  Alone(r)'
<1>1. req'[r] = [at |-> p, dev |-> d, user |-> u, old |-> t, new |-> NoToken,
                 excess |-> {}, alone |-> \A x \in Req \ {r} : Idle(x)]
  BY DEF Arrive
<1>2. ASSUME req'[r].alone, NEW q \in Req \ {r} PROVE req'[q].at = "idle"
  <2>1. Idle(q)
    BY <1>1, <1>2
  <2> QED BY <2>1 DEF Arrive, NoRequest
<1>3. req'[r].at = p /\ req'[r].old = t
  BY <1>1
<1> QED BY <1>2, <1>3 DEF Alone, At

LEMMA FindExcessAlone ==
  ASSUME SessInv, Ordered, Limited, NEW r \in Req, FindExcess(r)
  PROVE  Alone(r)'
<1>1. PICK u : u = req[r].user /\ u = req'[r].user
  BY FindExcessBecomes DEF Becomes
<1>2. PICK X : X = Overflow(u)
  OBVIOUS
<1>3. /\ \A q \in Req \ {r} : SameRequest(q)
      /\ TokensKept /\ ~Idle(r) /\ DOMAIN req = Req
  BY Others, KeptTokens DEF RequestStep, FindExcess, Issue, At, Idle, SessInv, RequestsOk
<1>4. PICK p : p = IF X = {} THEN "issue" ELSE "excess"
  OBVIOUS
<1>5. Becomes(r, p, req[r].old, req[r].new, X)
  BY <1>1, <1>2, <1>4, FindExcessBecomes
<1>6. Cardinality(ActiveOf(u)' \ X) < MaxActive
  <2>1. Cardinality(ActiveOf(u) \ X) < MaxActive
    BY <1>2, OverflowLeaves
  <2>2. ActiveOf(u)' \subseteq ActiveOf(u)
    BY <1>3, ActiveShrinks
  <2> QED BY <2>1, <2>2, Less
<1>7. X = {} => ActiveOf(u)' \ X = ActiveOf(u)'
  OBVIOUS
<1>8. /\ p = "issue" /\ req[r].old = NoToken => Cardinality(ActiveOf(req[r].user)') < MaxActive
      /\ p = "excess" => Cardinality(ActiveOf(req[r].user)' \ X) < MaxActive
  BY <1>1, <1>4, <1>6, <1>7
<1> QED BY <1>3, <1>5, <1>8, GoesOnAlone

LEMMA ExcessAlone ==
  ASSUME SessInv, Ordered, Limited, NEW r \in Req, RevokeExcess(r)
  PROVE  Alone(r)'
<1>1. PICK u : u = req[r].user /\ u = req'[r].user
  BY ExcessBecomes DEF Becomes
<1>2. PICK X : X = req[r].excess
  OBVIOUS
<1>3. /\ \A q \in Req \ {r} : SameRequest(q)
      /\ TokensKept /\ At(r, "excess") /\ ~Idle(r)
  BY Others, KeptTokens DEF RequestStep, RevokeExcess, Issue, At, Idle
<1>4. Becomes(r, "issue", req[r].old, req[r].new, {})
  BY ExcessBecomes
<1>5. ActiveOf(u)' \subseteq ActiveOf(u) \ X
  <2>1. ActiveOf(u)' \subseteq ActiveOf(u)
    BY <1>3, ActiveShrinks
  <2>2. \A t \in row' : t \in Token /\ t \in row
    BY <1>3, LimitsTyped DEF TokensKept, SessInv, TokensTyped, Token
  <2>3. \A t \in row' \cap X : revokedAt'[t] = now
    BY <1>2, <2>2 DEF RevokeExcess
  <2>4. now # Never /\ now' = now
    BY <1>3 DEF Ordered, TokenOrder, Never, TokensKept
  <2> QED BY <2>1, <2>3, <2>4 DEF ActiveOf, Active
<1>6. req[r].alone => Cardinality(ActiveOf(u)') < MaxActive
  <2>1. req[r].alone => Cardinality(ActiveOf(u) \ X) < MaxActive
    BY <1>1, <1>2, <1>3 DEF Limited, Alone
  <2> QED BY <1>5, <2>1, Less
<1>7. CASE req[r].alone
  BY <1>1, <1>3, <1>4, <1>6, <1>7, GoesOnAlone
<1>8. CASE ~req[r].alone
  <2>1. ~req'[r].alone
    BY <1>4, <1>8 DEF Becomes
  <2> QED BY <2>1 DEF Alone
<1> QED BY <1>7, <1>8

\* The request that steps is alone as it says.
LEMMA StepAlone ==
  ASSUME SessInv, Ordered, Limited, NEW r \in Req, RequestStep(r)
  PROVE  Alone(r)'
<1>1. DOMAIN req = Req /\ \A q \in Req \ {r} : SameRequest(q)
  BY Others DEF SessInv, RequestsOk
<1>2. ASSUME NEW d, NEW STATE u, NEW STATE t, NEW STATE p, Arrive(r, d, u, t, p), p # "excess",
             p = "issue" => t # NoToken
      PROVE  Alone(r)'
  BY <1>2, ArriveAlone
<1>3. ASSUME Leave(r) PROVE Alone(r)'
  BY <1>1, <1>3 DEF Leave, NoRequest, Alone, Idle, At
<1>4. ASSUME UNCHANGED req, Idle(r) PROVE Alone(r)'
  BY <1>4 DEF Alone, Idle, At
<1>5. ASSUME NEW STATE p, NEW STATE old, NEW STATE new, NEW STATE X, Becomes(r, p, old, new, X), ~Idle(r),
             p # "excess", ~(p = "issue" /\ old = NoToken)
      PROVE  Alone(r)'
  BY <1>1, <1>5, GoesOnAlone
<1>6. ASSUME NEW d \in Device, NEW u \in User, BeginLogin(r, d, u) PROVE Alone(r)'
  <2>1. CASE LockedOut(u)
    BY <1>4, <1>6, <2>1 DEF BeginLogin
  <2>2. CASE ~LockedOut(u)
    <3>1. Arrive(r, d, u, NoToken, "password")
      BY <1>6, <2>2 DEF BeginLogin
    <3> QED BY <3>1, ArriveAlone
  <2> QED BY <2>1, <2>2
<1>7. ASSUME NEW d \in Device, BeginRefresh(r, d) PROVE Alone(r)'
  <2>1. jar[d] # NoToken
        /\ Arrive(r, d, owner[jar[d]], jar[d], IF revokedAt[jar[d]] = Never THEN "issue" ELSE "tip")
    BY <1>7 DEF BeginRefresh
  <2> QED BY <2>1, ArriveAlone
<1>8. ASSUME NEW d \in Device, BeginLogout(r, d) PROVE Alone(r)'
  <2>1. Arrive(r, d, owner[jar[d]], jar[d],
               IF jar[d] \in row /\ revokedAt[jar[d]] = Never THEN "revoke" ELSE "cleared")
    BY <1>8 DEF BeginLogout
  <2> QED BY <2>1, ArriveAlone
<1>9. ASSUME NEW d \in Device, NEW t \in Token, BeginRevoke(r, d, t) PROVE Alone(r)'
  <2>1. Arrive(r, d, owner[t], t, "revokeOther")
    BY <1>9 DEF BeginRevoke
  <2> QED BY <2>1, ArriveAlone
<1>10. ASSUME NEW d \in Device, LogoutAll(r, d) PROVE Alone(r)'
  <2>1. ~req'[r].alone
    BY <1>1, <1>10 DEF LogoutAll
  <2> QED BY <2>1 DEF Alone
<1>11. ASSUME NEW right \in BOOLEAN, CheckPassword(r, right) PROVE Alone(r)'
  <2>1. ASSUME ~Leave(r) PROVE Alone(r)'
    <3>1. Becomes(r, "prune", req[r].old, req[r].new, req[r].excess) /\ ~Idle(r)
      BY <1>11, <2>1, PasswordBecomes DEF CheckPassword, Idle, At
    <3> QED BY <1>1, <3>1, GoesOnAlone
  <2> QED BY <1>3, <2>1
<1>12. ASSUME Issue(r) PROVE Alone(r)'
  <2>1. /\ Becomes(r, IF req[r].old = NoToken THEN "respond" ELSE "replace",
                   req[r].old, made + 1, req[r].excess)
        /\ ~Idle(r)
    BY <1>12, IssueBecomes DEF Issue, Idle, At
  <2> QED BY <1>1, <2>1, GoesOnAlone
<1>13. ASSUME FindTip(r) PROVE Alone(r)'
  <2>1. ASSUME ~Leave(r) PROVE Alone(r)'
    <3>1. PICK t \in TipFor(r) : Becomes(r, "issue", t, req[r].new, req[r].excess)
      BY <1>13, <2>1, TipBecomes
    <3>2. ~Idle(r) /\ t # NoToken
      BY <1>13 DEF FindTip, Idle, At, TipFor, Tip, NoToken, SessInv, TokensTyped
    <3> QED BY <1>1, <3>1, <3>2, GoesOnAlone
  <2> QED BY <1>3, <2>1
<1>14. ASSUME Replace(r) PROVE Alone(r)'
  <2>1. CASE req[r].old \in row
    <3>1. Becomes(r, "respond", req[r].old, req[r].new, req[r].excess) /\ ~Idle(r)
      BY <1>14, <2>1, ReplaceBecomes DEF Replace, Idle, At
    <3> QED BY <1>1, <3>1, GoesOnAlone
  <2>2. CASE req[r].old \notin row
    BY <1>3, <1>14, <2>2 DEF Replace
  <2> QED BY <2>1, <2>2
<1>15. ASSUME RevokeOne(r) PROVE Alone(r)'
  <2>1. ASSUME ~Leave(r) PROVE Alone(r)'
    <3>1. Becomes(r, "cleared", req[r].old, req[r].new, req[r].excess) /\ ~Idle(r)
      BY <1>15, <2>1, RevokeBecomes DEF Idle, At
    <3> QED BY <1>1, <3>1, GoesOnAlone
  <2> QED BY <1>3, <2>1
<1>16. ASSUME Respond(r) \/ CutOff(r) PROVE Alone(r)'
  BY <1>3, <1>16 DEF Respond, CutOff
<1>17. ASSUME Prune(r) PROVE Alone(r)'
  <2>1. Becomes(r, "list", req[r].old, req[r].new, req[r].excess) /\ ~Idle(r)
    BY <1>17, PruneBecomes DEF Prune, Idle, At
  <2> QED BY <1>1, <2>1, GoesOnAlone
<1> QED BY <1>6, <1>7, <1>8, <1>9, <1>10, <1>11, <1>12, <1>13, <1>14, <1>15, <1>16, <1>17,
           FindExcessAlone, ExcessAlone DEF RequestStep

LEMMA LimitedNext == SessInv /\ Ordered /\ Limited /\ [Next]_vars => Limited'
<1> SUFFICES ASSUME SessInv, Ordered, Limited, [Next]_vars PROVE Limited'
  OBVIOUS
<1>1. ASSUME NEW r \in Req, RequestStep(r) PROVE Limited'
  BY <1>1, StepAlone, OtherAlone DEF Limited
<1>2. ASSUME UNCHANGED req, \A u : ActiveOf(u)' \subseteq ActiveOf(u) PROVE Limited'
  <2>1. SUFFICES ASSUME NEW r \in Req PROVE Alone(r)'
    BY DEF Limited
  <2>2. Alone(r)
    BY DEF Limited
  <2>3. PICK u, X : u = req[r].user /\ u = req'[r].user /\ X = req[r].excess /\ X = req'[r].excess
    BY <1>2
  <2>4. Cardinality(ActiveOf(u)) < MaxActive => Cardinality(ActiveOf(u)') < MaxActive
    BY <1>2, Less
  <2>5. Cardinality(ActiveOf(u) \ X) < MaxActive => Cardinality(ActiveOf(u)' \ X) < MaxActive
    BY <1>2, Less
  <2> QED BY <1>2, <2>2, <2>3, <2>4, <2>5 DEF Alone, Idle, At
<1>3. ASSUME NEW u \in User, SetStanding(u) PROVE Limited'
  BY <1>2, <1>3 DEF SetStanding, tokenVars, ActiveOf, Active
<1>4. ASSUME Tick PROVE Limited'
  <2>1. \A t \in row : expires[t] \in Nat /\ now \in Nat
    BY LimitsTyped DEF SessInv, TokensTyped, Token
  <2> QED BY <1>2, <1>4, <2>1 DEF Tick, tokenVars, ActiveOf, Active
<1>5. ASSUME UNCHANGED vars PROVE Limited'
  BY <1>2, <1>5 DEF vars, ActiveOf, Active
<1> QED BY <1>1, <1>3, <1>4, <1>5 DEF Next

LEMMA LimitedInit == SessionInit => Limited
BY DEF SessionInit, NoRequest, Limited, Alone, Idle, At

LEMMA LimitKept ==
  ASSUME SessInv, Ordered, Limited, NEW r \in Req, Issue(r), req[r].old = NoToken, req[r].alone
  PROVE  Cardinality(ActiveOf(req[r].user)') <= MaxActive
<1>1. PICK u : u = req[r].user /\ u = req'[r].user
  BY IssueBecomes DEF Becomes
<1>2. Cardinality(ActiveOf(u)) < MaxActive
  BY <1>1 DEF Issue, Idle, At, Limited, Alone
<1>3. /\ row' = row \cup {made + 1} /\ now' = now /\ revokedAt' = revokedAt
      /\ owner' = [owner EXCEPT ![made + 1] = req[r].user]
      /\ expires' = [expires EXCEPT ![made + 1] = now + Life]
  BY DEF Issue
<1>4. made + 1 \notin row /\ \A t \in row : t # made + 1
  BY DEF SessInv, TokensTyped
<1>5. \A t \in row : t \in DOMAIN owner /\ t \in DOMAIN expires
  BY LimitsTyped DEF SessInv, TokensTyped, Ordered, TokenOrder, Token
<1>6. \A t \in row : owner'[t] = owner[t] /\ expires'[t] = expires[t]
  BY <1>3, <1>4, <1>5
<1>7. ActiveOf(u)' \subseteq ActiveOf(u) \cup {made + 1}
  BY <1>3, <1>6 DEF ActiveOf, Active
<1> DEFINE S == ActiveOf(u)
           T == S \cup {made + 1}
<1>8. IsFiniteSet(S) /\ Cardinality(S) \in Nat
  BY ActiveFinite, FS_CardinalityType
<1> HIDE DEF S
<1>9. IsFiniteSet(T) /\ Cardinality(T) <= Cardinality(S) + 1
  BY <1>8, FS_AddElement
<1>10. ActiveOf(u)' \in SUBSET T
  BY <1>7 DEF S
<1> HIDE DEF T
<1>11. Cardinality(ActiveOf(u)') <= Cardinality(T) /\ IsFiniteSet(ActiveOf(u)')
  BY <1>9, <1>10, FS_Subset
<1>12. Cardinality(ActiveOf(u)') \in Nat /\ Cardinality(T) \in Nat
  BY <1>9, <1>11, FS_CardinalityType
<1>13. Cardinality(ActiveOf(u)') <= MaxActive
  BY <1>2, <1>8, <1>9, <1>11, <1>12, LimitsTyped DEF S
<1> QED BY <1>1, <1>13

----------------------------------------------------------------------------
(* The theorems. *)

SessionsInv == SessInv /\ Ordered /\ FailuresOk /\ Quiet /\ Held /\ Limited

LEMMA SessionsInvInit == SessionInit => SessionsInv
<1>1. SessionInit => FailuresOk
  BY LimitsTyped DEF SessionInit, FailuresOk
<1> QED BY <1>1, SessInvInit, OrderedInit, QuietInit, HeldInit, LimitedInit DEF SessionsInv

LEMMA SessionsInvStep == SessionsInv /\ [Next]_vars => SessionsInv'
BY SessInvStep, OrderedStep, FailuresStep, QuietNext, HeldNext, LimitedNext DEF SessionsInv

LEMMA SessionsInvHolds == Spec => []SessionsInv
BY SessionsInvInit, SessionsInvStep, PTL DEF Spec

\* Types, and references between tokens: the row of a token in a cookie or in the
\* hands of a request is one that was made, and its family has a first token.
THEOREM SessTypeCorrect == Spec => []SessTypeOK
<1>1. SessionsInv => SessTypeOK
  BY SessTypes DEF SessionsInv
<1> QED BY <1>1, SessionsInvHolds, PTL

\* Whatever overlaps or is cut off, a session that nobody ended keeps its newest
\* token, unrevoked and until it expires (auth.service.ts:224-240).
THEOREM SessionsKeepNewest == Spec => []NewestIsLive
<1>1. SessionsInv => NewestIsLive
  BY DEF SessionsInv, SessInv
<1> QED BY <1>1, SessionsInvHolds, PTL

\* A family whose requests came one after the other and were answered has one
\* unrevoked token, and none once its session was ended: a rotation revokes what
\* it replaces, and a logout leaves nothing behind (auth.service.ts:224-240).
THEOREM OneTokenPerSession == Spec => []OneTokenPerQuietFamily
<1>1. SessionsInv => OneTokenPerQuietFamily
  BY OneToken DEF SessionsInv
<1> QED BY <1>1, SessionsInvHolds, PTL

\* A device is refused a refresh only because its session was ended, is over or is
\* of an inactive user, or because it holds a token that was replaced longer ago
\* than the grace, by a request that overlapped or was lost.
THEOREM RefusalsHaveCause == Spec => []RefusedForCause
<1>1. SessionsInv => RefusedForCause
  BY Refusals DEF SessionsInv
<1> QED BY <1>1, SessionsInvHolds, PTL

\* A login that nothing overlaps leaves at most MAX_ACTIVE_REFRESH_TOKENS active,
\* however many there were (auth.service.ts:350-380).
THEOREM LoginsKeepLimit == Spec => LoginKeepsLimit
<1>1. SessionsInv /\ [Next]_vars =>
        [\A r \in Req : Issue(r) /\ req[r].old = NoToken /\ req[r].alone =>
           Cardinality(ActiveOf(req[r].user)') <= MaxActive]_vars
  BY LimitKept DEF SessionsInv
<1> QED BY <1>1, SessionsInvHolds, PTL DEF Spec, LoginKeepsLimit

=============================================================================
