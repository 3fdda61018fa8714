---------------------------- MODULE CompanyUsers ----------------------------
(***************************************************************************)
(* The users of a company and what they use: accounts and their roles, the *)
(* quota of emails and of AI calls, which is checked before a call and     *)
(* charged after it.                                                       *)
(***************************************************************************)
EXTENDS Company

CONSTANTS
  DailyLimit,  \* AI_DAILY_CALL_LIMIT
  Projected,   \* the units assertAiAllowed asks for
  Units        \* the units a call to the provider may turn out to need

ASSUME UsageConstants ==
  DailyLimit \in Nat \ {0} /\ Projected \in Nat \ {0} /\ Units \subseteq Nat \ {0}

CompanyRoles == Role \ {"PLATFORM_SUPER_ADMIN"}

IsAdmin(u) == "COMPANY_ADMIN" \in user[u].roles
ActiveAdmins == {u \in User : user[u].status = "active" /\ IsAdmin(u)}

----------------------------------------------------------------------------
(* PATCH company/users/:id *)

\* Whether the call takes the right, or the account, of an administrator away.
Demotes(c) == "roles" \in DOMAIN c /\ "COMPANY_ADMIN" \notin c.roles
Deactivates(c) == c.status \notin {"unchanged", "active"}

\* assertNotLastAdmin reads the target ...
ReadTarget(r) ==
  /\ At(r, "updateUser")
  /\ LET c == CallOf(r) IN
       IF user[c.target].status = "none" \/ c.target = Platform
         THEN Refuse(r)
         ELSE Go(r, IF /\ c.target \in ActiveAdmins
                       /\ Demotes(c) \/ Deactivates(c)
                      THEN "countAdmins" ELSE "saveUser")
  /\ HasRead(r)
  /\ UNCHANGED <<tenant, series, starter, user, grants, used>>

\* Variant: the target is counted too.
WithTarget(u) == ActiveAdmins

OtherAdmins(u) == ActiveAdmins \ {u}

\* ... and counts the other active administrators ...
CountAdmins(r) ==
  /\ At(r, "countAdmins")
  /\ Go(r, IF OtherAdmins(CallOf(r).target) = {} THEN "refused" ELSE "saveUser")
  /\ Unobserved
  /\ UNCHANGED <<tenant, series, starter, user, grants, used>>

\* resolveRoleIds: no roles, or an empty list of them, make a member.  A call with a
\* role that is not a company's is refused before it writes, and is left out.
GivenRoles(c) ==
  IF "roles" \in DOMAIN c /\ c.roles # {} THEN c.roles ELSE {"COMPANY_MEMBER"}

Saved(u, c) ==
  [status |-> IF c.status = "unchanged" THEN u.status ELSE c.status,
   roles  |-> IF c.op = "updateUser" /\ "roles" \notin DOMAIN c THEN u.roles ELSE GivenRoles(c)]

\* ... before a transaction writes the status and replaces the roles.
SaveUser(r) ==
  /\ At(r, "saveUser")
  /\ LET c == CallOf(r) IN
       /\ user' = [user EXCEPT ![c.target] = Saved(user[c.target], c)]
       /\ job' = [job EXCEPT ![r] = [at |-> "done", call |-> c,
                                     raced |-> (missed[r] \cap User) \ {c.target} # {}]]
       /\ Wrote(r, {c.target})
  /\ UNCHANGED <<tenant, series, starter, grants, used>>

----------------------------------------------------------------------------
(* POST company/users *)

\* The email must be new.
CreateUser(r) ==
  /\ At(r, "createUser")
  /\ LET c == CallOf(r) IN
       IF user[c.target] = NoUser
         THEN /\ user' = [user EXCEPT ![c.target] = [status |-> "active", roles |-> GivenRoles(c)]]
              /\ Go(r, "bill")
              /\ Wrote(r, {c.target})
         ELSE Refuse(r) /\ Unobserved /\ UNCHANGED user
  /\ UNCHANGED <<tenant, series, starter, grants, used>>

----------------------------------------------------------------------------
(* The meter. *)

Billing == ResolveBilling(Settings)

\* assertWithinQuota, of n units, with the billing that was read.
Allowed(op, billing, n) ==
  IF op = "ai"
    THEN /\ billing.aiEnabled
         /\ used.calls < DailyLimit
         /\ used.tokens + n <= billing.monthlyAiTokenCap
    ELSE /\ billing.emailEnabled
         /\ used.emails + n <= billing.monthlyEmailCap

\* What a request asks for: first a projection, then what the call has cost.
Asked(r) ==
  IF CallOf(r).op # "ai" THEN 1 ELSE IF Pos(r) = 1 THEN Projected ELSE Pos(r) - 1

\* assertAiAllowed; the brief's own check comes after its answer.
BeginAi(r) ==
  /\ At(r, "ai")
  /\ Go(r, IF "ai" \in tenant.modules /\ Billing.aiEnabled THEN "bill" ELSE "refused")
  /\ Unobserved
  /\ UNCHANGED <<tenant, series, starter, user, grants, used>>

ReadBilling(r) ==
  /\ At(r, "bill")
  /\ GoWith(r, "room", Billing)
  /\ Unobserved
  /\ UNCHANGED <<tenant, series, starter, user, grants, used>>

\* Variant: what an answer has cost is not checked again.
FirstCheckOnly(r) ==
  Allowed(CallOf(r).op, Saw(r), Asked(r)) \/ (CallOf(r).op = "ai" /\ Pos(r) > 1)

HasRoom(r) == Allowed(CallOf(r).op, Saw(r), Asked(r))

\* An email that may not be sent is not an error of the request.
CheckRoom(r) ==
  /\ At(r, "room")
  /\ Go(r, CASE HasRoom(r) -> IF CallOf(r).op = "ai" /\ Pos(r) = 1 THEN "provider" ELSE "record"
             [] ~HasRoom(r) -> IF CallOf(r).op = "ai" THEN "refused" ELSE "done")
  /\ Unobserved
  /\ UNCHANGED <<tenant, series, starter, user, grants, used>>

\* The provider, or the local summary, answers at a cost.
Answer(r) ==
  /\ At(r, "provider")
  /\ \E n \in Units : job' = [job EXCEPT ![r].at = "bill", ![r].pos = n + 1]
  /\ Unobserved
  /\ UNCHANGED <<tenant, series, starter, user, grants, used>>

Record(r) ==
  /\ At(r, "record")
  /\ used' = IF CallOf(r).op = "ai"
               THEN [used EXCEPT !.calls = @ + 1, !.tokens = @ + Asked(r)]
               ELSE [used EXCEPT !.emails = @ + 1]
  /\ Done(r)
  /\ Unobserved
  /\ UNCHANGED <<tenant, series, starter, user, grants>>

\* Days and months are UTC.
NewDay ==
  /\ used.days > 0
  /\ \E month \in BOOLEAN :
       used' = [used EXCEPT !.days = @ - 1, !.calls = 0,
                            !.tokens = IF month THEN 0 ELSE @,
                            !.emails = IF month THEN 0 ELSE @]
  /\ Unobserved
  /\ UNCHANGED <<tenant, series, starter, user, grants, job>>

UsersStep(r) ==
  \/ ReadTarget(r) \/ CountAdmins(r) \/ SaveUser(r) \/ CreateUser(r)
  \/ BeginAi(r) \/ ReadBilling(r) \/ CheckRoom(r) \/ Answer(r) \/ Record(r)
=============================================================================
