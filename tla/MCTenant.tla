------------------------------ MODULE MCTenant ------------------------------
(* A demonstration company with two administrators, or a company that is yet *)
(* to be created from a template, and the seed script.                       *)
EXTENDS Tenant

CONSTANTS r1, r2, r3, root, a1, a2, n1

MCRole == {"PLATFORM_SUPER_ADMIN", "COMPANY_ADMIN", "STORE_MANAGER", "COMPANY_MEMBER"}
MCPermission == {"admin.companies.write", "company.settings.write", "company.users.write",
                 "store.stock.read", "store.retired"}
MCDeclared ==
  [x \in MCRole |->
     CASE x = "PLATFORM_SUPER_ADMIN" -> <<"admin.companies.write">>
       [] x = "COMPANY_ADMIN" ->
            <<"company.users.write", "company.settings.write", "store.stock.read">>
       [] x = "STORE_MANAGER" -> <<"store.stock.read">>
       [] OTHER -> <<>>]
MCOlder == [x \in MCRole |-> ToSet(MCDeclared[x]) \cup
              (IF x = "COMPANY_ADMIN" THEN {"store.retired"} ELSE {})]
MCGrants0 == {MCOlder}
MCRoleOrder == <<"COMPANY_ADMIN", "STORE_MANAGER">>

MCUser0 == [u \in User |->
  CASE u = root -> NewUser("PLATFORM_SUPER_ADMIN")
    [] u \in {a1, a2} -> NewUser("COMPANY_ADMIN")
    [] OTHER -> NoUser]

MCSeries == <<"goods_receipt", "dispatch">>
MCDemoItems == <<"WH-A">>
Acme ==
  [slug |-> "acme-corp", status |-> "active", modules |-> {"store", "ai"},
   settings |-> [aiEnabled |-> TRUE, monthlyAiTokenCap |-> 2, emailEnabled |-> TRUE,
                 monthlyEmailCap |-> 1, nearExpiryDays |-> 7]]

Patch(u, p) == [op |-> "settings", by |-> u, patch |-> p]
Bill(p) == [op |-> "billing", by |-> root, patch |-> p]
Put(u, items) == [op |-> "series", by |-> u, items |-> items]
Row(t, p) == [type |-> t, prefix |-> p]
Ai(u) == [op |-> "ai", by |-> u]
Create(code) ==
  [op |-> "create", by |-> root, slug |-> "mill", admin |-> a1, template |-> code,
   modules |-> {"store"}]
\* Update names no roles; Assign names them, or an empty list.
Update(u, x, s) == [op |-> "updateUser", by |-> u, target |-> x, status |-> s]
Assign(u, x, roles) == ("roles" :> roles) @@ Update(u, x, "unchanged")
New(u, x) == [op |-> "createUser", by |-> u, target |-> x, roles |-> {"COMPANY_ADMIN"},
              status |-> "active"]
Shut == [op |-> "company", by |-> root, modules |-> {"store"}, status |-> "suspended"]

OpenWarehouse == Patch(a1, [qcMode |-> "always", defaultWarehouseId |-> "WH-A"])
NeverQc == Patch(a2, [qcMode |-> "never", nearExpiryDays |-> 9])
NoExcess == Patch(a1, [overReceivePolicy |-> "never"])
Halve == Bill([aiEnabled |-> TRUE, monthlyAiTokenCap |-> 1])
Rename == Put(a1, <<Row("dispatch", "DSP"), Row("goods_receipt", "")>>)
NoDefault == Patch(a2, [defaultWarehouseId |-> NoWarehouse])
Bare == ("status" :> "active") @@ Create("none")
Renumber == Put(a2, <<Row("goods_receipt", "GR"), Row("dispatch", "D")>>)

Mix(t, c1, c2, c3, runs, days) ==
  [tenant |-> t, call |-> r1 :> c1 @@ r2 :> c2 @@ r3 :> c3, runs |-> runs, days |-> days]

MCMix0 ==
  \* edits of the settings and the series
  {Mix(Acme, c1, c2, c3, 0, 0) :
     c1 \in {OpenWarehouse, Rename}, c2 \in {NeverQc, NoDefault, Renumber, Shut}, c3 \in {NoExcess, Halve}}
  \* a company created, from a template or not, twice, and edited meanwhile
  \cup {Mix(NoCompany, c1, c2, c3, 0, 0) :
     c1 \in {Create("machines"), Bare}, c2 \in {Create("cotton"), Halve, Shut},
     c3 \in {NoExcess, OpenWarehouse, Rename}}
  \* administrators who take each other's rights away
  \cup {Mix(Acme, Update(a1, a2, "inactive"), c2, c3, 0, 0) :
     c2 \in {Assign(a2, a1, {"STORE_MANAGER"}), Assign(a2, a1, {}), New(a2, n1)},
     c3 \in {Update(a1, a2, "active"), New(a1, n1), Update(a1, a1, "suspended")}}
  \* quotas, and a day that ends
  \cup {Mix(Acme, Ai(a1), c2, c3, 0, 1) :
     c2 \in {Ai(a2), New(a2, n1)}, c3 \in {Ai(a1), Halve, Shut}}
  \* the seed script, beside a request and run again
  \cup {Mix(Acme, c1, c2, NoCall, 2, 0) :
     c1 \in {OpenWarehouse, Update(a1, a2, "inactive")}, c2 \in {NoCall, Renumber}}
  \cup {Mix(NoCompany, Create("none"), NoCall, NoCall, 1, 0)}
=============================================================================
