------------------------------- MODULE Tenant -------------------------------
(***************************************************************************)
(* The administration of a company: settings, users, quotas and the seed   *)
(* script, all at work at once.                                            *)
(***************************************************************************)
EXTENDS CompanySettings, CompanyUsers, Seed

CONSTANTS
  User0  \* the accounts at the start

UserRow == [status : {"none"}]
             \cup [status : {"active", "inactive", "suspended"}, roles : SUBSET Role]

\* What the guards, the DTOs and the catalogs let through.
CallOk(c) ==
  /\ c.op \in {"settings", "billing", "series", "company", "create", "createUser",
               "updateUser", "ai"}
  /\ c.by \in User
  /\ c.op \in {"settings", "billing"} => DOMAIN c.patch \subseteq SettingsKey
  /\ c.op = "series" => c.items \in Seq(ToSet(c.items))
  /\ c.op = "company" => c.status \in {"trial", "active", "suspended"}
  /\ c.op = "create" => /\ c.slug # "none" /\ c.admin \in User
                        /\ c.template \in {"none", "cotton", "steel", "machines"}
                        /\ FirstStatus(c) \in {"trial", "active", "suspended"}
  /\ c.op \in {"createUser", "updateUser"} =>
       /\ c.target \in User /\ GivenRoles(c) \subseteq CompanyRoles
       /\ c.status \in {"unchanged", "active", "inactive", "suspended"}
  /\ c.op = "createUser" => c.status = "active"

TenantOk(t) ==
  /\ DOMAIN t = {"slug", "status", "modules", "settings"} /\ t.slug # "none"
  /\ t.status \in {"trial", "active", "suspended"}
  /\ DOMAIN t.settings \subseteq SettingsKey \ {"defaultWarehouseId"}

HasAdmin(users) ==
  \E u \in User : users[u].status = "active" /\ "COMPANY_ADMIN" \in users[u].roles

\* A company that is there at the start has an active administrator.
ASSUME TenantConstants ==
  /\ User0 \in [User -> UserRow]
  /\ {"PLATFORM_SUPER_ADMIN", "COMPANY_ADMIN", "COMPANY_MEMBER", "STORE_MANAGER"} \subseteq Role
  /\ Series \in Seq(ToSet(Series)) /\ Series # <<>>
  /\ \A mix \in Mix0 :
       /\ mix.tenant = NoCompany \/ (TenantOk(mix.tenant) /\ HasAdmin(User0))
       /\ \A r \in Req : mix.call[r] = NoCall \/ CallOk(mix.call[r])

vars == <<tenant, series, starter, user, grants, used, job, missed, later, seed>>

TenantInit ==
  /\ \E mix \in Mix0 :
       /\ tenant = mix.tenant
       /\ job = [r \in Req |-> [at |-> "waiting", call |-> mix.call[r]]]
       /\ used = [calls |-> 0, tokens |-> 0, emails |-> 0, days |-> mix.days]
       /\ seed = NotRunning(mix.runs)
  /\ \E older \in (IF Exists THEN {Series, Tail(Series)} ELSE {<<>>}) :
       series = [t \in ToSet(older) |-> SeriesDefault]
  /\ starter = IF Exists THEN {"WH-A"} ELSE {}
  /\ user = [u \in User |-> IF Exists \/ u = Platform THEN User0[u] ELSE NoUser]
  /\ grants \in Grants0
  /\ missed = [r \in Req |-> {}]
  /\ later = [r \in Req |-> {}]

RequestStep(r) ==
  /\ Enter(r) \/ SettingsStep(r) \/ UsersStep(r)
  /\ UNCHANGED seed

Next ==
  \/ \E r \in Req : RequestStep(r)
  \/ SeedStep
  \/ NewDay /\ UNCHANGED seed

Spec == TenantInit /\ [][Next]_vars

----------------------------------------------------------------------------
(* Properties. *)

\* Types, and references: settings have known keys, users known roles, and a
\* default warehouse is one of the company's, or null.
TenantTypeOK ==
  /\ Exists => /\ DOMAIN Settings \subseteq SettingsKey
               /\ "defaultWarehouseId" \in DOMAIN Settings =>
                    Settings.defaultWarehouseId \in starter \cup {NoWarehouse}
               /\ tenant.status \in {"trial", "active", "suspended"}
  /\ DOMAIN series \subseteq ToSet(Series)
  /\ user \in [User -> UserRow]
  /\ grants \in [Role -> SUBSET Permission]
  /\ ~Exists => series = Empty /\ starter = {}

\* The value of a cell agrees with what r was asked to write.
Holds(r, patch) == \A k \in DOMAIN patch \ later[r] : k \in DOMAIN Settings /\ Settings[k] = patch[k]
HoldsSeries(r) ==
  \A i \in DOMAIN Items(r) :
    LET item == Items(r)[i] IN
      item.type \notin later[r] /\ (\A j \in DOMAIN Items(r) : j > i => Items(r)[j].type # item.type)
        => series[item.type] = item.prefix
HoldsTemplate(r, code) ==
  /\ Holds(r, Overlay(TemplateDefaults(code), TemplateSettings(code)))
  /\ ToSet(StarterItems(code) \o Template(code).bom) \subseteq starter
  /\ "modules" \notin later[r] => tenant.modules = Template(code).modules

\* A change that was acknowledged is there, until another request overwrites the
\* same setting, series or account, or writes back settings that it had read
\* before: what a later request did read, it does not undo.
AcknowledgedIsKept ==
  \A r \in Req : At(r, "done") =>
    LET c == CallOf(r) IN
      /\ c.op \in {"settings", "billing"} => Holds(r, c.patch)
      /\ c.op = "series" => HoldsSeries(r)
      /\ c.op = "company" /\ "modules" \notin later[r] => tenant.modules = c.modules
      /\ c.op = "create" =>
           /\ DOMAIN series = ToSet(Series)
           /\ c.template # "none" => HoldsTemplate(r, c.template)
      /\ c.op \in {"createUser", "updateUser"} /\ c.target \notin later[r] =>
           user[c.target] = Saved(user[c.target], c)

\* A company has an active administrator, unless a user was saved after another
\* account had changed since it was checked.
AdminRemains ==
  Exists /\ ActiveAdmins = {} =>
    \E r \in Req : At(r, "done") /\ job[r].raced

\* The settings at the start, the patches, and those of the seed.
Given ==
  {DemoSettings}
    \cup {mix.tenant.settings : mix \in {m \in Mix0 : m.tenant # NoCompany}}
    \cup {c.patch : c \in {d \in {mix.call[r] : mix \in Mix0, r \in Req} : d.op \in {"settings", "billing"}}}

\* The caps that are ever in force: those given, and the default where a feature
\* may be switched on without one.
Caps(switch, k) ==
  {b[k] : b \in {g \in Given : k \in DOMAIN g}}
    \cup {DefaultBilling[k] : b \in {g \in Given : switch \in DOMAIN g /\ g[switch] /\ k \notin DOMAIN g}}
TokenCaps == Caps("aiEnabled", "monthlyAiTokenCap")
EmailCaps == Caps("emailEnabled", "monthlyEmailCap")

\* What an answer that was let through may have cost.
Costs == {AtMost(cap, n) : cap \in TokenCaps, n \in Units}

ASSUME QuotaConstants == IsFiniteSet(Req) /\ TokenCaps \subseteq Nat /\ EmailCaps \subseteq Nat

Others == Cardinality(Req) - 1

\* A quota is exceeded by what ran at the same time at most: by one call, email
\* or answer for each other request, never by an answer that is larger than the
\* quota itself.
QuotaBound ==
  /\ used.calls <= DailyLimit + Others
  /\ used.tokens = 0 \/ \E cap \in TokenCaps, most \in Costs : used.tokens <= cap + Others * most
  /\ used.emails = 0 \/ \E cap \in EmailCaps : used.emails <= cap + Others

\* After a run of the seed that came to its end, each role has the permissions
\* declared for it, no more and no less, whatever earlier runs left behind.
SeedRestores ==
  seed.done => \A x \in ToSet(RoleOrder) : grants[x] = ToSet(Declared[x])
=============================================================================
