-------------------------------- MODULE Seed --------------------------------
(***************************************************************************)
(* The seed script: it rewrites the permissions of the roles and restores  *)
(* the demonstration company, statement by statement, while the service    *)
(* may be running.  It may be cut off anywhere, and is then run again.     *)
(***************************************************************************)
EXTENDS Company

CONSTANTS
  RoleOrder,  \* ROLES
  DemoAdmin,  \* admin@acme.com
  DemoItems,  \* the demonstration data, in order
  DemoCap     \* the monthly quota of the demonstration company

ASSUME SeedConstants ==
  RoleOrder \in Seq(Role) /\ DemoCap \in Nat /\ DemoAdmin \in User

VARIABLE seed

NotRunning(n) == [at |-> "off", pos |-> 0, item |-> 0, left |-> n, done |-> FALSE]

DemoModules ==
  {"store", "purchase", "qc", "production", "ppc", "accounts", "ai", "dispatch"}
DemoSettings == [aiEnabled |-> TRUE, monthlyAiTokenCap |-> DemoCap]
DemoSeries == {"purchase_order", "goods_receipt", "batch", "material_issue",
               "material_return", "stock_transfer", "qc_inspection",
               "production_order", "material_request"}

SeedAt(place) == seed.at = place
SeedGoes(place) == seed' = [seed EXCEPT !.at = place, !.pos = 1, !.item = 1]
Current == RoleOrder[seed.pos]

StartSeed ==
  /\ SeedAt("off")
  /\ seed.left > 0
  /\ seed' = [at |-> "clear", pos |-> 1, item |-> 1, left |-> seed.left - 1, done |-> FALSE]
  /\ Unobserved
  /\ UNCHANGED <<tenant, series, starter, user, grants, used, job>>

\* Variant: the permissions that a role has stay.
KeepGrants == grants

ClearedGrants == [grants EXCEPT ![Current] = {}]

\* The role's row, and all its permissions deleted ...
ClearRole ==
  /\ SeedAt("clear")
  /\ grants' = ClearedGrants
  /\ seed' = [seed EXCEPT !.at = "grant", !.item = 1]
  /\ Unobserved
  /\ UNCHANGED <<tenant, series, starter, user, used, job>>

\* ... and created again one by one.
Grant ==
  /\ SeedAt("grant")
  /\ IF seed.item <= Len(Declared[Current])
       THEN /\ grants' = [grants EXCEPT ![Current] = @ \cup {Declared[Current][seed.item]}]
            /\ seed' = [seed EXCEPT !.item = @ + 1]
       ELSE /\ UNCHANGED grants
            /\ IF seed.pos < Len(RoleOrder)
                 THEN seed' = [seed EXCEPT !.at = "clear", !.pos = @ + 1]
                 ELSE SeedGoes("platform")
  /\ Unobserved
  /\ UNCHANGED <<tenant, series, starter, user, used, job>>

RolesOf(u) == IF user[u] = NoUser THEN {} ELSE user[u].roles

\* The platform administrator is active again.
SeedPlatform ==
  /\ SeedAt("platform")
  /\ user' = [user EXCEPT ![Platform] =
       [status |-> "active", roles |-> RolesOf(Platform) \cup {"PLATFORM_SUPER_ADMIN"}]]
  /\ SeedGoes("demo")
  /\ SeedWrote({Platform})
  /\ UNCHANGED <<tenant, series, starter, grants, used, job>>

\* The demonstration company: its settings are replaced, not merged.
SeedCompany ==
  /\ SeedAt("demo")
  /\ IF tenant.slug = "acme-corp"
       THEN /\ tenant' = [tenant EXCEPT !.status = "active", !.modules = DemoModules,
                                        !.settings = DemoSettings]
            /\ SeedGoes("series")
            /\ SeedWrote(SettingsKey \cup {"modules", "status"})
       ELSE /\ SeedGoes("finish")
            /\ Unobserved /\ UNCHANGED tenant
  /\ UNCHANGED <<series, starter, user, grants, used, job>>

\* Its series, where missing, and its administrator.
SeedSeries ==
  /\ SeedAt("series")
  /\ \/ \E t \in (DemoSeries \cap ToSet(Series)) \ DOMAIN series :
          series' = SetAt(series, t, SeriesDefault) /\ UNCHANGED seed
     \/ /\ DemoSeries \cap ToSet(Series) \subseteq DOMAIN series
        /\ SeedGoes("admin") /\ UNCHANGED series
  /\ Unobserved
  /\ UNCHANGED <<tenant, starter, user, grants, used, job>>

SeedAdmin ==
  /\ SeedAt("admin")
  /\ user' = [user EXCEPT ![DemoAdmin] =
       [status |-> "active",
        roles |-> RolesOf(DemoAdmin) \cup {"COMPANY_ADMIN", "STORE_MANAGER"}]]
  /\ SeedGoes("items")
  /\ SeedWrote({DemoAdmin})
  /\ UNCHANGED <<tenant, series, starter, grants, used, job>>

\* Categories, warehouse, locations, materials, supplier and orders, where missing.
SeedItems ==
  /\ SeedAt("items")
  /\ IF seed.pos <= Len(DemoItems)
       THEN starter' = starter \cup {DemoItems[seed.pos]} /\ seed' = [seed EXCEPT !.pos = @ + 1]
       ELSE SeedGoes("finish") /\ UNCHANGED starter
  /\ Unobserved
  /\ UNCHANGED <<tenant, series, user, grants, used, job>>

Finish ==
  /\ SeedAt("finish")
  /\ seed' = [seed EXCEPT !.at = "off", !.pos = 0, !.item = 0, !.done = TRUE]
  /\ Unobserved
  /\ UNCHANGED <<tenant, series, starter, user, grants, used, job>>

CutOffSeed ==
  /\ seed.at # "off"
  /\ seed' = [seed EXCEPT !.at = "off", !.pos = 0, !.item = 0]
  /\ Unobserved
  /\ UNCHANGED <<tenant, series, starter, user, grants, used, job>>

SeedStep ==
  \/ StartSeed \/ ClearRole \/ Grant \/ SeedPlatform \/ SeedCompany \/ SeedSeries
  \/ SeedAdmin \/ SeedItems \/ Finish \/ CutOffSeed
=============================================================================
