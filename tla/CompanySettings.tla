-------------------------- MODULE CompanySettings --------------------------
(***************************************************************************)
(* The settings of a company, its document series, and its creation from   *)
(* an industry template.  Every write of settings stores the whole object  *)
(* that was read before, merged with the patch.                            *)
(***************************************************************************)
EXTENDS Company

BaseModules == {"store", "purchase", "qc", "production", "accounts"}

\* The starter packs: modules, settings, and what is created, in order.
Cotton ==
  [modules |-> BaseModules, qcMode |-> "material", issueRequiresProductionOrder |-> FALSE,
   categories |-> <<"RM", "YARN", "FAB">>, warehouse |-> "WH-COTTON",
   materials |-> <<"YARN-CTN-30S", "GREIGE-CTN-58">>, bom |-> <<>>]

Steel ==
  [modules |-> BaseModules, qcMode |-> "always", issueRequiresProductionOrder |-> FALSE,
   categories |-> <<"RM", "METAL">>, warehouse |-> "WH-STEEL",
   materials |-> <<"PLT-MS-3MM", "WIR-MS-4", "FST-BOLT-M12">>, bom |-> <<>>]

Machines ==
  [modules |-> BaseModules \cup {"dispatch"}, qcMode |-> "material",
   issueRequiresProductionOrder |-> TRUE,
   categories |-> <<"COMP", "FG">>, warehouse |-> "WH-ASM",
   materials |-> <<"MOT-1HP", "FRM-ASM-01", "CTL-PANEL-A", "FG-ASM-KIT-1">>,
   bom |-> <<"FG-ASM-KIT-1 v1">>]

Template(code) ==
  CASE code = "cotton" -> Cotton [] code = "steel" -> Steel [] code = "machines" -> Machines

\* What the first write of a template stores.
TemplateSettings(code) ==
  [grnRequiresPurchaseOrder     |-> TRUE,
   qcMode                       |-> Template(code).qcMode,
   issueRequiresProductionOrder |-> Template(code).issueRequiresProductionOrder,
   accountsHandoffEnabled       |-> TRUE,
   overReceivePolicy            |-> "permission",
   industryTemplate             |-> code,
   defaultQcRequired            |-> TRUE]

\* The rows it then makes sure of, up to the second write.
StarterItems(code) ==
  Template(code).categories \o <<Template(code).warehouse, "B-01">> \o Template(code).materials

NewUser(role) == [status |-> "active", roles |-> {role}]

\* A write of the whole settings object, of what it patches and of what was read
\* before the writes it has not seen.
Rewritten(r, patch, more) ==
  Rewrote(r, DOMAIN patch \cup more, (missed[r] \cap SettingsKey) \ DOMAIN patch)

----------------------------------------------------------------------------
(* PATCH company/settings, PATCH admin/companies/:id/billing *)

\* Both read the object ...
ReadSettings(r) ==
  /\ job[r].at \in {"settings", "billing"}
  /\ IF ~Exists THEN Refuse(r) ELSE GoWith(r, "write", Settings)
  /\ HasRead(r)
  /\ UNCHANGED <<tenant, series, starter, user, grants, used>>

\* Variant: any warehouse will do.
AnyWarehouse(patch) == TRUE

NoWarehouse == "null"

\* A default warehouse must be one of the company's; null clears it.
ValidPatch(patch) ==
  "defaultWarehouseId" \in DOMAIN patch =>
    patch["defaultWarehouseId"] \in starter \cup {NoWarehouse}

\* ... and write it back.
WriteSettings(r) ==
  /\ At(r, "write")
  /\ LET patch == CallOf(r).patch IN
       IF ValidPatch(patch)
         THEN /\ tenant' = [tenant EXCEPT !.settings = Merge(Saw(r), patch)]
              /\ Done(r)
              /\ Rewritten(r, patch, {})
         ELSE Refuse(r) /\ Unobserved /\ UNCHANGED tenant
  /\ UNCHANGED <<series, starter, user, grants, used>>

----------------------------------------------------------------------------
(* PATCH admin/companies/:id: the columns it names, in one statement. *)

UpdateCompany(r) ==
  /\ At(r, "company")
  /\ IF Exists
       THEN /\ tenant' = [tenant EXCEPT !.modules = CallOf(r).modules, !.status = CallOf(r).status]
            /\ Done(r)
            /\ Wrote(r, {"modules", "status"})
       ELSE Refuse(r) /\ Unobserved /\ UNCHANGED tenant
  /\ UNCHANGED <<series, starter, user, grants, used>>

----------------------------------------------------------------------------
(* PUT company/document-series *)

\* ensureDefaults: an upsert for each type of the catalog, in order, that changes
\* nothing of a row that is there.
EnsureSeries(r, next) ==
  \/ /\ ToSet(Series) \subseteq DOMAIN series
     /\ Go(r, next) /\ Unobserved /\ UNCHANGED series
  \/ \E i \in DOMAIN Series :
        /\ Series[i] \notin DOMAIN series
        /\ \A j \in 1..(i - 1) : Series[j] \in DOMAIN series
        /\ series' = SetAt(series, Series[i], SeriesDefault)
        /\ UNCHANGED job
        /\ Wrote(r, {})

BeginSeries(r) ==
  /\ At(r, "series")
  /\ EnsureSeries(r, "items")
  /\ UNCHANGED <<tenant, starter, user, grants, used>>

Items(r) == CallOf(r).items

\* The next item is checked, and its row updated; an invalid one ends the
\* request, with the items before it applied.
ReplaceSeries(r) ==
  /\ At(r, "items")
  /\ IF Pos(r) > Len(Items(r))
         THEN Done(r) /\ Unobserved /\ UNCHANGED series
         ELSE LET item == Items(r)[Pos(r)] IN
              IF item.type \in DOMAIN series /\ item.prefix # ""
                THEN /\ series' = [series EXCEPT ![item.type] = item.prefix]
                     /\ Advance(r)
                     /\ Wrote(r, {item.type})
                ELSE Refuse(r) /\ Unobserved /\ UNCHANGED series
  /\ UNCHANGED <<tenant, starter, user, grants, used>>

----------------------------------------------------------------------------
(* POST admin/companies *)

\* The status asked for, or a trial.
FirstStatus(c) == IF "status" \in DOMAIN c THEN c.status ELSE "trial"

\* The company and its administrator, in one transaction; a slug or an email
\* in use refuses it, whenever that is noticed.
CreateCompany(r) ==
  /\ At(r, "create")
  /\ LET c == CallOf(r) IN
       IF ~Exists /\ user[c.admin] = NoUser
         THEN /\ tenant' = [slug |-> c.slug, status |-> FirstStatus(c),
                            modules |-> IF c.template = "none" THEN c.modules ELSE {},
                            settings |-> Empty]
              /\ user' = [user EXCEPT ![c.admin] = NewUser("COMPANY_ADMIN")]
              /\ Go(r, "ensure")
              /\ Wrote(r, {c.admin, "modules", "status"})
         ELSE Refuse(r) /\ Unobserved /\ UNCHANGED <<tenant, user>>
  /\ UNCHANGED <<series, starter, grants, used>>

EnsureForNew(r) ==
  /\ At(r, "ensure")
  /\ EnsureSeries(r, IF CallOf(r).template = "none" THEN "done" ELSE "template")
  /\ UNCHANGED <<tenant, starter, user, grants, used>>

\* apply: reads the settings ...
ReadForTemplate(r) ==
  /\ At(r, "template")
  /\ GoWith(r, "applyTemplate", Settings)
  /\ HasRead(r)
  /\ UNCHANGED <<tenant, series, starter, user, grants, used>>

\* ... writes them with those of the template, and the modules ...
ApplyTemplate(r) ==
  /\ At(r, "applyTemplate")
  /\ LET code == CallOf(r).template
         patch == TemplateSettings(code)
     IN /\ tenant' = [tenant EXCEPT !.modules = Template(code).modules,
                                    !.settings = Merge(Saw(r), patch)]
        /\ Rewritten(r, patch, {"modules"})
  /\ Go(r, "starter")
  /\ UNCHANGED <<series, starter, user, grants, used>>

\* ... creates what is not there yet, row by row ...
CreateStarter(r) ==
  /\ At(r, "starter")
  /\ LET items == StarterItems(CallOf(r).template) IN
       /\ starter' = starter \cup {items[Pos(r)]}
       /\ IF Pos(r) = Len(items) THEN Go(r, "again") ELSE Advance(r)
  /\ Unobserved
  /\ UNCHANGED <<tenant, series, user, grants, used>>

\* Variant: the settings that were read first are merged again.
KeepsFirstRead(r) == /\ Go(r, "defaults") /\ UNCHANGED <<missed, later>>

\* ... reads the settings again, because they may have changed meanwhile ...
Refreshes(r) == /\ GoWith(r, "defaults", Settings) /\ HasRead(r)

ReadAgain(r) ==
  /\ At(r, "again")
  /\ Refreshes(r)
  /\ UNCHANGED <<tenant, series, starter, user, grants, used>>

\* ... writes the default warehouse, and creates the BOM.
TemplateDefaults(code) ==
  [defaultWarehouseId |-> Template(code).warehouse,
   defaultQcRequired  |-> TRUE,
   industryTemplate   |-> code]

WriteDefaults(r) ==
  /\ At(r, "defaults")
  /\ LET patch == TemplateDefaults(CallOf(r).template) IN
       /\ tenant' = [tenant EXCEPT !.settings = Overlay(patch, Saw(r))]
       /\ Rewritten(r, patch, {})
  /\ Go(r, "bom")
  /\ UNCHANGED <<series, starter, user, grants, used>>

CreateBom(r) ==
  /\ At(r, "bom")
  /\ starter' = starter \cup ToSet(Template(CallOf(r).template).bom)
  /\ Done(r)
  /\ Unobserved
  /\ UNCHANGED <<tenant, series, user, grants, used>>

SettingsStep(r) ==
  \/ ReadSettings(r) \/ WriteSettings(r) \/ UpdateCompany(r)
  \/ BeginSeries(r) \/ ReplaceSeries(r)
  \/ CreateCompany(r) \/ EnsureForNew(r) \/ ReadForTemplate(r) \/ ApplyTemplate(r)
  \/ CreateStarter(r) \/ ReadAgain(r) \/ WriteDefaults(r) \/ CreateBom(r)
=============================================================================
