------------------------------ MODULE Company ------------------------------
(***************************************************************************)
(* What the handlers of a company's administration share: the company's    *)
(* row, its users, the permissions of roles, and the requests underway.    *)
(*                                                                         *)
(* A request is one API call; it passes the guards, makes its statements   *)
(* one by one, each on its own, and is done or refused.  It may stop       *)
(* anywhere: nothing undoes what it has written.  Audit rows are left out. *)
(*                                                                         *)
(* For each request, "missed" is what others have written since it last    *)
(* read, and "later" what they have overwritten of what it has written:    *)
(* they observe, and decide nothing.                                       *)
(***************************************************************************)
EXTENDS CompanyPolicy

CONSTANTS
  Req,       \* the requests
  Mix0,      \* what may be at work together: the company, the call of each
             \* request, how often the seed script runs, and the days that pass
  User,      \* accounts, those that may be created included
  Platform,  \* the platform administrator
  Role, Permission,
  Declared,  \* the permissions the seed gives to each role, in its order
  Grants0,   \* those of an earlier release
  Series,    \* the document types, in the order of the catalog
  SeriesDefault

ASSUME CompanyConstants ==
  /\ Platform \in User
  /\ Declared \in [Role -> Seq(Permission)]
  /\ Grants0 \subseteq [Role -> SUBSET Permission]

VARIABLES
  tenant,  \* the company's row
  series,  \* its document series
  starter, \* its categories, warehouse, locations, materials and BOM
  user,    \* the accounts
  grants,  \* role_permissions
  used,    \* its usage today and this month
  job,     \* the requests
  missed, later

NoCompany == [slug |-> "none"]
NoCall == [op |-> "none"]
NoUser == [status |-> "none"]
Exists == tenant.slug # "none"
Settings == tenant.settings

At(r, place) == job[r].at = place
Underway(r) == job[r].at \notin {"waiting", "done", "refused"}
CallOf(r) == job[r].call
Saw(r) == job[r].saw
Pos(r) == job[r].pos

Refuse(r) == job' = [job EXCEPT ![r] = [at |-> "refused"]]
Done(r) == job' = [job EXCEPT ![r] = [at |-> "done", call |-> @.call, raced |-> @.raced]]
Go(r, place) ==
  CASE place = "refused" -> Refuse(r)
    [] place = "done" -> Done(r)
    [] OTHER -> job' = [job EXCEPT ![r].at = place]
Advance(r) == job' = [job EXCEPT ![r].pos = @ + 1]
GoWith(r, place, x) == job' = [job EXCEPT ![r].at = place, ![r].saw = x]

\* r has read what it decides on, or writes back.
HasRead(r) == missed' = [missed EXCEPT ![r] = {}] /\ UNCHANGED later

Watched(q) == Underway(q) \/ At(q, "done")

\* r sets these cells and, writing back what it read before, undoes others;
\* or the seed sets them.
Rewrote(r, set, undone) ==
  /\ missed' = [q \in Req |-> IF q # r /\ Underway(q) THEN missed[q] \cup set \cup undone ELSE {}]
  /\ later' = [q \in Req |-> IF q = r THEN later[q] \ set
                             ELSE IF Watched(q) THEN later[q] \cup set \cup undone ELSE {}]

Wrote(r, set) == Rewrote(r, set, {})

SeedWrote(cells) ==
  /\ missed' = [q \in Req |-> IF Underway(q) THEN missed[q] \cup cells ELSE {}]
  /\ later' = [q \in Req |-> IF Watched(q) THEN later[q] \cup cells ELSE {}]

Unobserved == UNCHANGED <<missed, later>>

----------------------------------------------------------------------------
(* The guards. *)

PermissionsOf(u) == UNION {grants[x] : x \in user[u].roles}

\* The permission of each operation, and the module of its controller.
Requires(op) ==
  CASE op \in {"settings", "series"}           -> "company.settings.write"
    [] op \in {"createUser", "updateUser"}     -> "company.users.write"
    [] op \in {"create", "company", "billing"} -> "admin.companies.write"
    [] op = "ai"                               -> "store.stock.read"

ModuleEnabled(m) == Exists /\ tenant.status # "suspended" /\ m \in tenant.modules

\* Authentication, permission, company, module: read afresh for every request.
Admitted(c) ==
  /\ user[c.by].status = "active"
  /\ Requires(c.op) \in PermissionsOf(c.by)
  /\ IF c.op \in {"create", "company", "billing"}
       THEN "PLATFORM_SUPER_ADMIN" \in user[c.by].roles
       ELSE c.by # Platform
  /\ c.op = "ai" => ModuleEnabled("ai")

Enter(r) ==
  /\ At(r, "waiting") /\ CallOf(r) # NoCall
  /\ LET c == CallOf(r) IN
       IF Admitted(c)
         THEN job' = [job EXCEPT ![r] = [at |-> c.op, call |-> c, saw |-> Empty, pos |-> 1,
                                         raced |-> FALSE]]
         ELSE Refuse(r)
  /\ missed' = [missed EXCEPT ![r] = {}]
  /\ later' = [later EXCEPT ![r] = {}]
  /\ UNCHANGED <<tenant, series, starter, user, grants, used>>
=============================================================================
