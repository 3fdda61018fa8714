---------------------------- MODULE AuthSessions ----------------------------
(***************************************************************************)
(* Login sessions: refresh tokens, their rotation and their end.           *)
(*                                                                         *)
(* A device is one cookie jar; the tabs of a browser send requests with    *)
(* the same jar at the same time.  A handler makes several statements, each *)
(* on its own: no transaction holds a rotation or a login together.  A     *)
(* request may die between two of them, and its response may be lost or    *)
(* overtake another, so the jar need not hold the newest token.            *)
(*                                                                         *)
(* Abstractions: token identities grow in the order of creation and a      *)
(* family is named by its first token; an access token is what is left of  *)
(* its life; labels, addresses, CSRF and logging are left out, except the  *)
(* audit rows of failed logins, which the lockout counts.                  *)
(***************************************************************************)
EXTENDS Naturals, Sequences, FiniteSets

CONSTANTS
  Req,        \* requests that may be underway at the same time
  Device,     \* cookie jars
  User,       \* accounts
  MaxToken,   \* bound: refresh tokens ever created
  MaxTime,    \* bound: the clock
  Life,       \* JWT_REFRESH_EXPIRES
  AccessLife, \* JWT_ACCESS_EXPIRES
  Grace,      \* REFRESH_GRACE_MS
  Retention,  \* how long a revoked token is kept
  MaxActive,  \* MAX_ACTIVE_REFRESH_TOKENS
  FailWindow, \* LOGIN_FAIL_WINDOW_MS
  FailMax,    \* LOGIN_FAIL_MAX
  ScanMax     \* failures the lockout looks at

ASSUME SessionConstants ==
  /\ {MaxToken, Life, AccessLife, Grace, Retention, FailWindow, FailMax} \subseteq Nat
  /\ {MaxTime, MaxActive, ScanMax} \subseteq Nat \ {0}

\* 30 seconds and 30 days.
ASSUME GraceWithinRetention == Grace <= Retention

Token == 1..MaxToken
NoToken == 0
Never == 0

VARIABLES
  now,        \* the time
  made,       \* tokens created so far: 1..made
  row,        \* tokens whose row exists
  owner,      \* the user of each
  family,     \* its familyId
  expires,    \* its expiresAt
  revokedAt,  \* its revokedAt
  jar,        \* the refresh cookie of each device
  access,     \* until when its access cookie is valid
  standing,   \* of each user: active, inactive, or of a suspended company
  failures,   \* the newest audit rows of failed logins
  req,        \* the requests underway
  ended,      \* families of which a session was ended on purpose
  troubled    \* families of which two requests overlapped or one was cut off

tokenVars == <<made, row, owner, family, expires, revokedAt>>
clientVars == <<jar, access>>
accountVars == <<standing, failures>>
ghostVars == <<ended, troubled>>
vars == <<now, made, row, owner, family, expires, revokedAt, jar, access,
          standing, failures, req, ended, troubled>>

\* What a request underway has: its device, its user, the token it presented and
\* then replaces or revokes, the token it has created, those it will revoke, and
\* whether no other request has overlapped it.
Request == [at : {"password", "prune", "list", "excess", "issue", "tip", "replace",
                  "revoke", "revokeOther", "respond", "cleared"},
            dev : Device, user : User, old : 0..MaxToken, new : 0..MaxToken,
            excess : SUBSET Token, alone : BOOLEAN]
NoRequest == [at |-> "idle"]

SessionInit ==
  /\ now = 1
  /\ made = 0
  /\ row = {}
  /\ owner = [t \in Token |-> CHOOSE u \in User : TRUE]
  /\ family = [t \in Token |-> NoToken]
  /\ expires = [t \in Token |-> 0]
  /\ revokedAt = [t \in Token |-> Never]
  /\ jar = [d \in Device |-> NoToken]
  /\ access = [d \in Device |-> 0]
  /\ standing = [u \in User |-> "active"]
  /\ failures = <<>>
  /\ req = [r \in Req |-> NoRequest]
  /\ ended = {}
  /\ troubled = {}

----------------------------------------------------------------------------
(* What the statements select. *)

\* revokedAt: null, expiresAt: gt now.
Active(t) == t \in row /\ revokedAt[t] = Never /\ expires[t] > now

ActiveOf(u) == {t \in row : owner[t] = u /\ Active(t)}

\* listSessions: what a user can see, and choose to revoke.
Sessions(u) == ActiveOf(u)

\* The active token of a family that was created last.
Tip(f) == {t \in row : /\ family[t] = f /\ Active(t)
                       /\ \A s \in row : family[s] = f /\ Active(s) => s <= t}

\* Variant: one more, and the login itself makes it too many.
OverflowAfter(u) ==
  {t \in ActiveOf(u) : Cardinality({s \in ActiveOf(u) : s >= t}) > MaxActive}

\* The oldest active tokens, as many as leave room for one more.
Overflow(u) ==
  {t \in ActiveOf(u) :
     Cardinality({s \in ActiveOf(u) : s >= t}) > MaxActive - 1}

\* What pruneTokens deletes.
Stale(u) ==
  {t \in row : owner[t] = u /\ \/ expires[t] < now
                               \/ revokedAt[t] # Never /\ revokedAt[t] + Retention < now}

InWindow(f, time) == f.time + FailWindow >= time

\* assertNotLockedOut: of the newest failures of everyone, those of the user.
LockedOut(u) ==
  FailMax <= Cardinality({i \in DOMAIN failures :
                            failures[i].user = u /\ InWindow(failures[i], now)})

At(r, place) == req[r].at = place
Idle(r) == At(r, "idle")
Issuing == {r \in Req : req[r].at \in {"password", "prune", "list", "excess", "tip", "issue"}}
Room == made + Cardinality(Issuing) < MaxToken

Handles(r) ==
  IF Idle(r) THEN {}
  ELSE ({req[r].old, req[r].new} \ {NoToken})
         \cup (IF At(r, "excess") THEN req[r].excess ELSE {})
FamiliesOf(r) == {family[t] : t \in Handles(r)}
\* Those of the families F that another request is at work on.
Shared(r, F) == F \cap UNION {FamiliesOf(q) : q \in Req \ {r}}

\* A request begins, with a token if it presents one.
Arrive(r, d, u, t, place) ==
  /\ req' = [q \in Req |->
       IF q = r THEN [at |-> place, dev |-> d, user |-> u, old |-> t, new |-> NoToken,
                      excess |-> {}, alone |-> \A p \in Req \ {r} : Idle(p)]
       ELSE IF Idle(q) THEN NoRequest ELSE [req[q] EXCEPT !.alone = FALSE]]
  /\ troubled' = troubled \cup (IF t = NoToken THEN {} ELSE Shared(r, {family[t]}))

Leave(r) == req' = [req EXCEPT ![r] = NoRequest]

\* The end of sessions, by a statement of r, on purpose.
Ends(r, F) ==
  /\ ended' = ended \cup F
  /\ troubled' = troubled \cup Shared(r, F)

----------------------------------------------------------------------------
(* login *)

\* Each refusal of a login leaves an audit row.  Only the newest ScanMax are ever
\* looked at.
FailLogin(u) ==
  LET kept == IF Len(failures) < ScanMax THEN failures ELSE Tail(failures)
  IN failures' = Append(kept, [user |-> u, time |-> now])

\* assertNotLockedOut; a refusal for too many failures counts as one more.
BeginLogin(r, d, u) ==
  /\ Idle(r)
  /\ Room
  /\ IF LockedOut(u)
       THEN FailLogin(u) /\ UNCHANGED <<req, troubled>>
       ELSE Arrive(r, d, u, NoToken, "password") /\ UNCHANGED failures
  /\ UNCHANGED <<now, tokenVars, clientVars, standing, ended>>

\* The account, its company, the password.
CheckPassword(r, right) ==
  /\ At(r, "password")
  /\ IF standing[req[r].user] = "active" /\ right
       THEN req' = [req EXCEPT ![r].at = "prune"] /\ UNCHANGED failures
       ELSE Leave(r) /\ FailLogin(req[r].user)
  /\ UNCHANGED <<now, tokenVars, clientVars, standing, ghostVars>>

\* pruneTokens: deletes what is stale ...
Prune(r) ==
  /\ At(r, "prune")
  /\ row' = row \ Stale(req[r].user)
  /\ req' = [req EXCEPT ![r].at = "list"]
  /\ UNCHANGED <<now, made, owner, family, expires, revokedAt, clientVars,
                 accountVars, ghostVars>>

\* ... reads what exceeds the limit ...
FindExcess(r) ==
  /\ At(r, "list")
  /\ LET over == Overflow(req[r].user) IN
       /\ req' = [req EXCEPT ![r].excess = over,
                             ![r].at = IF over = {} THEN "issue" ELSE "excess"]
       /\ troubled' = troubled \cup Shared(r, {family[t] : t \in over})
  /\ UNCHANGED <<now, tokenVars, clientVars, accountVars, ended>>

\* ... and revokes it.
RevokeExcess(r) ==
  /\ At(r, "excess")
  /\ revokedAt' = [t \in Token |-> IF t \in req[r].excess \cap row THEN now ELSE revokedAt[t]]
  /\ Ends(r, {family[t] : t \in req[r].excess})
  /\ req' = [req EXCEPT ![r].at = "issue", ![r].excess = {}]
  /\ UNCHANGED <<now, made, row, owner, family, expires, clientVars, accountVars>>

\* Variant: a token without a family.
NoFamily(r, t) == NoToken

\* Variant: each token is of a family of its own.
FreshFamily(r, t) == t

\* A login starts a family, a rotation continues the one it has.
FamilyFor(r, t) == IF req[r].old = NoToken THEN t ELSE family[req[r].old]

\* issueTokens.
Issue(r) ==
  /\ At(r, "issue")
  /\ made < MaxToken
  /\ LET t == made + 1 IN
       /\ made' = t
       /\ row' = row \cup {t}
       /\ owner' = [owner EXCEPT ![t] = req[r].user]
       /\ family' = [family EXCEPT ![t] = FamilyFor(r, t)]
       /\ expires' = [expires EXCEPT ![t] = now + Life]
       /\ req' = [req EXCEPT ![r].new = t,
                             ![r].at = IF req[r].old = NoToken THEN "respond" ELSE "replace"]
  /\ UNCHANGED <<now, revokedAt, clientVars, accountVars, ghostVars>>

----------------------------------------------------------------------------
(* refresh *)

\* The token is there, and its user active.
Known(t) == t \in row /\ standing[owner[t]] # "inactive"

\* Variant: a token that was replaced is of no use at all.
NoGrace(t) == FALSE

\* Revoked, but so recently that another tab may have done it.
WithinGrace(t) == now <= revokedAt[t] + Grace

\* Finds the token; a revoked one is only of use if it was revoked just now.
Rejected(t) ==
  \/ ~Known(t)
  \/ IF revokedAt[t] # Never THEN ~WithinGrace(t) ELSE expires[t] <= now

BeginRefresh(r, d) ==
  /\ Idle(r)
  /\ Room
  /\ jar[d] # NoToken
  /\ LET t == jar[d] IN
       /\ ~Rejected(t)
       /\ Arrive(r, d, owner[t], t, IF revokedAt[t] = Never THEN "issue" ELSE "tip")
  /\ UNCHANGED <<now, tokenVars, clientVars, accountVars, ended>>

\* The family's tip takes the place of a token revoked within the grace.
TipFor(r) == {t \in Tip(family[req[r].old]) : Known(t)}

FindTip(r) ==
  /\ At(r, "tip")
  /\ IF TipFor(r) = {}
       THEN Leave(r)
       ELSE \E t \in TipFor(r) : req' = [req EXCEPT ![r].old = t, ![r].at = "issue"]
  /\ UNCHANGED <<now, tokenVars, clientVars, accountVars, ghostVars>>

\* Variant: the replaced token stays as it is.
KeepsOld(r) == revokedAt

\* The token that is replaced is revoked, whatever has happened to it since.
RevokesOld(r) == [revokedAt EXCEPT ![req[r].old] = now]

\* rotateFromStored revokes the old token after the new one exists; it fails
\* when a login has deleted the row in between.
Replace(r) ==
  /\ At(r, "replace")
  /\ IF req[r].old \in row
       THEN /\ revokedAt' = RevokesOld(r)
            /\ req' = [req EXCEPT ![r].at = "respond"]
            /\ UNCHANGED troubled
       ELSE /\ Leave(r)
            /\ troubled' = troubled \cup FamiliesOf(r)
            /\ UNCHANGED revokedAt
  /\ UNCHANGED <<now, made, row, owner, family, expires, clientVars, accountVars,
                 ended>>

----------------------------------------------------------------------------
(* logout, logout-all, sessions/:id/revoke *)

\* JwtStrategy: an access token in date, of an active user.
Authorized(d, u) == access[d] > now /\ standing[u] # "inactive"

\* The two handlers that find an unrevoked token and then revoke it.
BeginLogout(r, d) ==
  /\ Idle(r)
  /\ jar[d] # NoToken
  /\ LET t == jar[d] IN
       Arrive(r, d, owner[t], t,
              IF t \in row /\ revokedAt[t] = Never THEN "revoke" ELSE "cleared")
  /\ UNCHANGED <<now, tokenVars, clientVars, accountVars, ended>>

BeginRevoke(r, d, t) ==
  /\ Idle(r)
  /\ jar[d] \in row /\ Authorized(d, owner[jar[d]])
  /\ t \in Sessions(owner[jar[d]])
  /\ Arrive(r, d, owner[t], t, "revokeOther")
  /\ UNCHANGED <<now, tokenVars, clientVars, accountVars, ended>>

\* The update names the token only; a deleted row makes it fail.
RevokeOne(r) ==
  /\ req[r].at \in {"revoke", "revokeOther"}
  /\ LET t == req[r].old IN
       /\ revokedAt' = [revokedAt EXCEPT ![t] = IF t \in row THEN now ELSE @]
       /\ Ends(r, {family[t]})
       /\ IF At(r, "revoke") /\ t \in row THEN req' = [req EXCEPT ![r].at = "cleared"]
                                          ELSE Leave(r)
  /\ UNCHANGED <<now, made, row, owner, family, expires, clientVars, accountVars>>

\* logoutAll: one statement, whose response clears the cookies.
LogoutAll(r, d) ==
  /\ Idle(r)
  /\ jar[d] \in row /\ Authorized(d, owner[jar[d]])
  /\ LET u == owner[jar[d]]
         mine == {t \in row : owner[t] = u /\ revokedAt[t] = Never}
     IN
       /\ revokedAt' = [t \in Token |-> IF t \in mine THEN now ELSE revokedAt[t]]
       /\ Ends(r, {family[t] : t \in mine})
       /\ req' = [req EXCEPT ![r] = [at |-> "cleared", dev |-> d, user |-> u,
                                     old |-> NoToken, new |-> NoToken, excess |-> {}, alone |-> FALSE]]
  /\ UNCHANGED <<now, made, row, owner, family, expires, clientVars, accountVars>>

----------------------------------------------------------------------------
(* Responses, failures, the rest of the world. *)

\* setAuthCookies with what the request created, clearAuthCookies.
Respond(r) ==
  /\ req[r].at \in {"respond", "cleared"}
  /\ LET t == req[r].new IN
       /\ jar' = [jar EXCEPT ![req[r].dev] = t]
       /\ access' = [access EXCEPT ![req[r].dev] =
            IF t = NoToken THEN 0 ELSE (expires[t] - Life) + AccessLife]
  /\ Leave(r)
  /\ UNCHANGED <<now, tokenVars, accountVars, ghostVars>>

\* The process stops, a statement fails, or the response is lost.
CutOff(r) ==
  /\ ~Idle(r)
  /\ Leave(r)
  /\ troubled' = troubled \cup FamiliesOf(r)
  /\ UNCHANGED <<now, tokenVars, clientVars, accountVars, ended>>

\* A user is deactivated or reactivated, or the company suspended.
SetStanding(u) ==
  /\ \E s \in {"active", "inactive", "suspended"} \ {standing[u]} :
       standing' = [standing EXCEPT ![u] = s]
  /\ UNCHANGED <<now, tokenVars, clientVars, failures, req, ghostVars>>

\* The failures still in the window at a time: the last ones, as they are in order.
InWindowAt(time) == {i \in DOMAIN failures : InWindow(failures[i], time)}

\* Time passes between requests as well as inside them.  Failures that are out of
\* the window, and cookies that are out of date, are forgotten.
Tick ==
  /\ now < MaxTime
  /\ now' = now + 1
  /\ failures' = SubSeq(failures, Len(failures) + 1 - Cardinality(InWindowAt(now + 1)), Len(failures))
  /\ access' = [d \in Device |-> IF access[d] > now + 1 THEN access[d] ELSE 0]
  /\ UNCHANGED <<tokenVars, jar, standing, req, ghostVars>>

RequestStep(r) ==
  \/ \E d \in Device, u \in User : BeginLogin(r, d, u)
  \/ \E right \in BOOLEAN : CheckPassword(r, right)
  \/ Prune(r)
  \/ FindExcess(r)
  \/ RevokeExcess(r)
  \/ Issue(r)
  \/ \E d \in Device : BeginRefresh(r, d)
  \/ FindTip(r)
  \/ Replace(r)
  \/ \E d \in Device : BeginLogout(r, d)
  \/ \E d \in Device, t \in Token : BeginRevoke(r, d, t)
  \/ RevokeOne(r)
  \/ \E d \in Device : LogoutAll(r, d)
  \/ Respond(r)
  \/ CutOff(r)

Next ==
  \/ \E r \in Req : RequestStep(r)
  \/ \E u \in User : SetStanding(u)
  \/ Tick

Spec == SessionInit /\ [][Next]_vars

----------------------------------------------------------------------------
(* Properties. *)

\* Types, and references between tokens.
SessTypeOK ==
  /\ now \in 1..MaxTime
  /\ made \in 0..MaxToken
  /\ row \subseteq 1..made
  /\ \A t \in 1..made : family[t] \in 1..t /\ revokedAt[t] \in 0..now
  /\ \A d \in Device : jar[d] \in 0..made
  /\ \A r \in Req : req[r] \in Request \cup {NoRequest} /\ Handles(r) \subseteq 1..made
  /\ Len(failures) <= ScanMax

IsNewest(t) == \A s \in 1..made : family[s] = family[t] => s <= t

\* Whatever overlaps or is cut off, a session that nobody ended keeps its newest
\* token, unrevoked and until it expires: rotateFromStored revokes only what it
\* has replaced.
NewestIsLive ==
  \A t \in 1..made :
    IsNewest(t) /\ family[t] \notin ended =>
      revokedAt[t] = Never /\ (t \in row \/ expires[t] < now)

\* A family whose requests came one after the other and were answered has one
\* unrevoked token, and none once its session was ended: a refresh leaves no
\* second token behind, and a logout leaves none.
OneTokenPerQuietFamily ==
  \A f \in {family[t] : t \in 1..made} \ troubled :
    (\A r \in Req : f \notin FamiliesOf(r)) =>
      Cardinality({t \in row : family[t] = f /\ revokedAt[t] = Never})
        <= (IF f \in ended THEN 0 ELSE 1)

\* A login that nothing overlaps leaves at most MAX_ACTIVE_REFRESH_TOKENS active,
\* however many there were.
LoginKeepsLimit ==
  [][\A r \in Req : Issue(r) /\ req[r].old = NoToken /\ req[r].alone =>
       Cardinality(ActiveOf(req[r].user)') <= MaxActive]_vars

\* Why a device may be refused a refresh: its session was ended, is over, or is
\* of an inactive user.
Over(f) ==
  \/ f \in ended
  \/ \A t \in 1..made : family[t] = f => expires[t] <= now \/ standing[owner[t]] = "inactive"

\* A refresh is refused for a cause only.  With a token that was just replaced
\* and not yet expired it still succeeds, whoever replaced it and whether or not
\* the answer arrived; a device holds an older one only if a request overlapped
\* or was lost.
RefusedForCause ==
  /\ \A r \in Req : At(r, "tip") /\ TipFor(r) = {} => Over(family[req[r].old])
  /\ \A d \in Device :
       LET t == jar[d] IN
         t # NoToken /\ Rejected(t) =>
           \/ Over(family[t])
           \/ expires[t] <= now
           \/ /\ family[t] \in troubled \cup UNION {FamiliesOf(r) : r \in Req}
              /\ revokedAt[t] + Grace < now
=============================================================================
