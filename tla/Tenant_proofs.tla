--------------------------- MODULE Tenant_proofs ---------------------------
(***************************************************************************)
(* What is acknowledged stays, a company keeps an administrator, its       *)
(* quotas hold but for what ran at once, and the seed script restores the  *)
(* permissions of the roles, for all companies, accounts, catalogs and     *)
(* requests that the guards let through.                                   *)
(*                                                                         *)
(* The invariant has six parts.  JobsOk: the operation of a request is     *)
(* known from its place.  Typed: what is stored, and what a request read   *)
(* of it, is well formed.  SeedInv: what the script has passed is restored.*)
(* Observed: who missed a write is known.  AdminsOk: a save underway that  *)
(* nothing overtook leaves an administrator.  Kept: what a request wrote,  *)
(* done or not, is there or was overwritten, and whoever is about to write *)
(* settings back has it in hand, or missed it.                             *)
(* The quotas have one of their own, QuotaInv: every cap that is stored or *)
(* was read is one that was given, what a request was let through with     *)
(* fits under such a cap, and what is let through and not charged yet is   *)
(* no more than one call for each request.                                 *)
(***************************************************************************)
EXTENDS Tenant, SequenceTheorems, FiniteSetTheorems, TLAPS

----------------------------------------------------------------------------
(* The requests. *)

JobFields == {"at", "call", "saw", "pos", "raced"}
Applying == {"template", "applyTemplate", "starter", "again", "defaults", "bom"}
Creating == {"create", "ensure"} \cup Applying
Saving == {"updateUser", "countAdmins", "saveUser"}
Metered == {"bill", "room", "record"}
Places == {"settings", "billing", "write", "company", "series", "items", "createUser",
           "ai", "provider"} \cup Creating \cup Saving \cup Metered

\* The places at which settings that were read are about to be written back.
Writing == {"write", "applyTemplate", "defaults"}

\* The operation of a request is known from its place.
Fits(at, c, pos) ==
  /\ at \in {"settings", "billing", "company", "createUser", "ai"} => c.op = at
  /\ at = "write" => c.op \in {"settings", "billing"}
  /\ at \in {"series", "items"} => c.op = "series"
  /\ at \in Creating => c.op = "create"
  /\ at \in Applying => c.template # "none"
  /\ at \in Saving => c.op = "updateUser"
  /\ at = "provider" => c.op = "ai"
  /\ at \in Metered => c.op \in {"ai", "createUser"}
  /\ at \in {"create", "ensure", "template", "applyTemplate", "series"} => pos = 1

JobOk(j) ==
  /\ j.at \in Places \cup {"waiting", "done", "refused"}
  /\ j.at = "waiting" => j.call = NoCall \/ CallOk(j.call)
  /\ j.at = "done" => CallOk(j.call)
  /\ j.at \in Places => DOMAIN j = JobFields /\ CallOk(j.call) /\ Fits(j.at, j.call, j.pos)

JobsOk == DOMAIN job = Req /\ \A r \in Req : JobOk(job[r])

\* A request goes on, ends, is refused or stays where it is; the others stay.
OthersStay(r) == DOMAIN job' = Req /\ \A q \in Req \ {r} : job'[q] = job[q]
Moves(r, at, saw, pos) ==
  /\ OthersStay(r) /\ DOMAIN job'[r] = JobFields /\ job'[r].at = at /\ job'[r].call = job[r].call
  /\ job'[r].saw = saw /\ job'[r].pos = pos
EndsWell(r) == OthersStay(r) /\ job'[r].at = "done" /\ job'[r].call = job[r].call
EndsBadly(r) == OthersStay(r) /\ job'[r].at = "refused"

LEMMA PlaceOk ==
  ASSUME JobsOk, NEW r \in Req, job[r].at \in Places
  PROVE  JobOk(job[r]) /\ DOMAIN job[r] = JobFields /\ CallOk(CallOf(r)) /\ DOMAIN job = Req
BY DEF JobsOk, JobOk, CallOf

LEMMA RefuseEnds == ASSUME JobsOk, NEW r \in Req, Refuse(r) PROVE EndsBadly(r)
BY DEF JobsOk, Refuse, EndsBadly, OthersStay

LEMMA DoneEnds == ASSUME JobsOk, NEW r \in Req, Done(r) PROVE EndsWell(r)
BY DEF JobsOk, Done, EndsWell, OthersStay

LEMMA GoMoves ==
  ASSUME JobsOk, NEW r \in Req, job[r].at \in Places, NEW p, p \in Places, Go(r, p)
  PROVE  Moves(r, p, Saw(r), Pos(r))
<1>1. job' = [job EXCEPT ![r].at = p]
  BY DEF Go, Places, Creating, Applying, Saving, Metered
<1> QED BY <1>1, PlaceOk DEF Moves, OthersStay, JobFields, Saw, Pos

LEMMA GoWithMoves ==
  ASSUME JobsOk, NEW r \in Req, job[r].at \in Places, NEW p, NEW STATE x, GoWith(r, p, x)
  PROVE  Moves(r, p, x, Pos(r))
<1>1. job' = [job EXCEPT ![r].at = p, ![r].saw = x]
  BY DEF GoWith
<1> QED BY <1>1, PlaceOk DEF Moves, OthersStay, JobFields, Pos

LEMMA AdvanceMoves ==
  ASSUME JobsOk, NEW r \in Req, job[r].at \in Places, Advance(r)
  PROVE  Moves(r, job[r].at, Saw(r), Pos(r) + 1)
<1>1. job' = [job EXCEPT ![r].pos = @ + 1]
  BY DEF Advance
<1> QED BY <1>1, PlaceOk DEF Moves, OthersStay, JobFields, Saw, Pos

LEMMA GoEnds ==
  ASSUME JobsOk, NEW r \in Req
  PROVE  (Go(r, "refused") => EndsBadly(r)) /\ (Go(r, "done") => EndsWell(r))
BY RefuseEnds, DoneEnds DEF Go

----------------------------------------------------------------------------
(* The step of each action, for the request that takes it. *)

LEMMA EnterMoves ==
  ASSUME JobsOk, NEW r \in Req, Enter(r)
  PROVE  /\ At(r, "waiting")
         /\ \/ EndsBadly(r)
            \/ Moves(r, CallOf(r).op, Empty, 1) /\ Admitted(CallOf(r)) /\ CallOk(CallOf(r))
<1>1. At(r, "waiting") /\ CallOf(r) # NoCall /\ JobOk(job[r])
  BY DEF Enter, JobsOk
<1>2. CallOk(CallOf(r))
  BY <1>1 DEF JobOk, At, CallOf
<1>3. CASE Admitted(CallOf(r))
  <2>1. job' = [job EXCEPT ![r] = [at |-> CallOf(r).op, call |-> CallOf(r), saw |-> Empty, pos |-> 1,
                                   raced |-> FALSE]]
    BY <1>3 DEF Enter
  <2>2. Moves(r, CallOf(r).op, Empty, 1)
    BY <2>1 DEF JobsOk, Moves, OthersStay, JobFields, CallOf
  <2> QED BY <1>1, <1>2, <1>3, <2>2
<1>4. CASE ~Admitted(CallOf(r))
  BY <1>1, <1>4, RefuseEnds DEF Enter
<1> QED BY <1>3, <1>4

LEMMA ReadSettingsMoves ==
  ASSUME JobsOk, NEW r \in Req, ReadSettings(r)
  PROVE  /\ job[r].at \in {"settings", "billing"}
         /\ EndsBadly(r) \/ (Exists /\ Moves(r, "write", Settings, Pos(r)))
BY RefuseEnds, GoWithMoves DEF ReadSettings, Places

LEMMA WriteSettingsMoves ==
  ASSUME JobsOk, NEW r \in Req, WriteSettings(r)
  PROVE  /\ At(r, "write")
         /\ \/ ValidPatch(CallOf(r).patch) /\ EndsWell(r)
            \/ ~ValidPatch(CallOf(r).patch) /\ EndsBadly(r) /\ UNCHANGED tenant /\ Unobserved
BY RefuseEnds, DoneEnds DEF WriteSettings

LEMMA UpdateCompanyMoves ==
  ASSUME JobsOk, NEW r \in Req, UpdateCompany(r)
  PROVE  /\ At(r, "company")
         /\ \/ Exists /\ EndsWell(r)
            \/ ~Exists /\ EndsBadly(r) /\ UNCHANGED tenant /\ Unobserved
BY RefuseEnds, DoneEnds DEF UpdateCompany

LEMMA BeginSeriesMoves ==
  ASSUME JobsOk, NEW r \in Req, BeginSeries(r)
  PROVE  /\ At(r, "series")
         /\ \/ UNCHANGED job
            \/ Moves(r, "items", Saw(r), Pos(r)) /\ UNCHANGED series /\ Unobserved
BY GoMoves DEF BeginSeries, EnsureSeries, At, Places

LEMMA ReplaceSeriesMoves ==
  ASSUME JobsOk, NEW r \in Req, ReplaceSeries(r)
  PROVE  /\ At(r, "items")
         /\ \/ EndsBadly(r) /\ UNCHANGED series /\ Unobserved
            \/ Pos(r) > Len(Items(r)) /\ EndsWell(r) /\ UNCHANGED series /\ Unobserved
            \/ Moves(r, "items", Saw(r), Pos(r) + 1) /\ ~(Pos(r) > Len(Items(r)))
BY RefuseEnds, DoneEnds, AdvanceMoves DEF ReplaceSeries, At, Places

LEMMA CreateCompanyMoves ==
  ASSUME JobsOk, NEW r \in Req, CreateCompany(r)
  PROVE  /\ At(r, "create")
         /\ \/ EndsBadly(r) /\ Unobserved /\ UNCHANGED <<tenant, user>>
            \/ ~Exists /\ Moves(r, "ensure", Saw(r), Pos(r))
BY RefuseEnds, GoMoves DEF CreateCompany, At, Places, Creating

LEMMA EnsureForNewMoves ==
  ASSUME JobsOk, NEW r \in Req, EnsureForNew(r)
  PROVE  /\ At(r, "ensure")
         /\ \/ UNCHANGED job
            \/ /\ ToSet(Series) \subseteq DOMAIN series
               /\ UNCHANGED series /\ Unobserved
               /\ \/ CallOf(r).template = "none" /\ EndsWell(r)
                  \/ CallOf(r).template # "none" /\ Moves(r, "template", Saw(r), Pos(r))
<1>1. At(r, "ensure") /\ job[r].at \in Places
  BY DEF EnsureForNew, At, Places, Creating
<1>2. CASE CallOf(r).template = "none"
  BY <1>1, <1>2, GoEnds DEF EnsureForNew, EnsureSeries
<1>3. CASE CallOf(r).template # "none"
  BY <1>1, <1>3, GoMoves DEF EnsureForNew, EnsureSeries, Places, Creating, Applying
<1> QED BY <1>2, <1>3

LEMMA ReadForTemplateMoves ==
  ASSUME JobsOk, NEW r \in Req, ReadForTemplate(r)
  PROVE  At(r, "template") /\ Moves(r, "applyTemplate", Settings, Pos(r))
BY GoWithMoves DEF ReadForTemplate, At, Places, Creating, Applying

LEMMA ApplyTemplateMoves ==
  ASSUME JobsOk, NEW r \in Req, ApplyTemplate(r)
  PROVE  At(r, "applyTemplate") /\ Moves(r, "starter", Saw(r), Pos(r))
BY GoMoves DEF ApplyTemplate, At, Places, Creating, Applying

LEMMA CreateStarterMoves ==
  ASSUME JobsOk, NEW r \in Req, CreateStarter(r)
  PROVE  /\ At(r, "starter")
         /\ \/ Pos(r) = Len(StarterItems(CallOf(r).template)) /\ Moves(r, "again", Saw(r), Pos(r))
            \/ /\ Pos(r) # Len(StarterItems(CallOf(r).template))
               /\ Moves(r, "starter", Saw(r), Pos(r) + 1)
BY GoMoves, AdvanceMoves DEF CreateStarter, At, Places, Creating, Applying

LEMMA ReadAgainMoves ==
  ASSUME JobsOk, NEW r \in Req, ReadAgain(r)
  PROVE  At(r, "again") /\ Moves(r, "defaults", Settings, Pos(r)) /\ HasRead(r)
BY GoWithMoves DEF ReadAgain, Refreshes, At, Places, Creating, Applying

LEMMA WriteDefaultsMoves ==
  ASSUME JobsOk, NEW r \in Req, WriteDefaults(r)
  PROVE  At(r, "defaults") /\ Moves(r, "bom", Saw(r), Pos(r))
BY GoMoves DEF WriteDefaults, At, Places, Creating, Applying

LEMMA CreateBomMoves ==
  ASSUME JobsOk, NEW r \in Req, CreateBom(r)
  PROVE  At(r, "bom") /\ EndsWell(r)
BY DoneEnds DEF CreateBom

LEMMA ReadTargetMoves ==
  ASSUME JobsOk, NEW r \in Req, ReadTarget(r)
  PROVE  LET c == CallOf(r)
             last == c.target \in ActiveAdmins /\ (Demotes(c) \/ Deactivates(c)) IN
         /\ At(r, "updateUser")
         /\ \/ EndsBadly(r)
            \/ user[c.target].status # "none" /\ last /\ Moves(r, "countAdmins", Saw(r), Pos(r))
            \/ user[c.target].status # "none" /\ ~last /\ Moves(r, "saveUser", Saw(r), Pos(r))
<1>1. At(r, "updateUser") /\ job[r].at \in Places
  BY DEF ReadTarget, At, Places, Saving
<1>2. {"countAdmins", "saveUser"} \subseteq Places
  BY DEF Places, Saving
<1> QED BY <1>1, <1>2, RefuseEnds, GoMoves DEF ReadTarget

LEMMA CountAdminsMoves ==
  ASSUME JobsOk, NEW r \in Req, CountAdmins(r)
  PROVE  /\ At(r, "countAdmins")
         /\ \/ EndsBadly(r)
            \/ OtherAdmins(CallOf(r).target) # {} /\ Moves(r, "saveUser", Saw(r), Pos(r))
BY GoEnds, GoMoves DEF CountAdmins, At, Places, Saving

LEMMA SaveUserMoves ==
  ASSUME JobsOk, NEW r \in Req, SaveUser(r)
  PROVE  /\ At(r, "saveUser") /\ EndsWell(r)
         /\ job'[r].raced <=> (missed[r] \cap User) \ {CallOf(r).target} # {}
BY DEF SaveUser, EndsWell, OthersStay, JobsOk, CallOf

LEMMA CreateUserMoves ==
  ASSUME JobsOk, NEW r \in Req, CreateUser(r)
  PROVE  /\ At(r, "createUser")
         /\ \/ EndsBadly(r) /\ Unobserved /\ UNCHANGED user
            \/ user[CallOf(r).target] = NoUser /\ Moves(r, "bill", Saw(r), Pos(r))
BY RefuseEnds, GoMoves DEF CreateUser, At, Places, Metered

LEMMA BeginAiMoves ==
  ASSUME JobsOk, NEW r \in Req, BeginAi(r)
  PROVE  At(r, "ai") /\ (EndsBadly(r) \/ Moves(r, "bill", Saw(r), Pos(r)))
BY GoEnds, GoMoves DEF BeginAi, At, Places, Metered

LEMMA ReadBillingMoves ==
  ASSUME JobsOk, NEW r \in Req, ReadBilling(r)
  PROVE  At(r, "bill") /\ Moves(r, "room", Billing, Pos(r))
BY GoWithMoves DEF ReadBilling, At, Places, Metered

LEMMA CheckRoomMoves ==
  ASSUME JobsOk, NEW r \in Req, CheckRoom(r)
  PROVE  /\ At(r, "room")
         /\ \/ EndsBadly(r) \/ EndsWell(r)
            \/ CallOf(r).op = "ai" /\ Moves(r, "provider", Saw(r), Pos(r))
            \/ Moves(r, "record", Saw(r), Pos(r))
<1>1. At(r, "room") /\ job[r].at \in Places
  BY DEF CheckRoom, At, Places, Metered
<1>2. {"provider", "record"} \subseteq Places
  BY DEF Places, Metered
<1>3. CASE HasRoom(r)
  BY <1>1, <1>2, <1>3, GoMoves DEF CheckRoom
<1>4. CASE ~HasRoom(r)
  BY <1>1, <1>4, GoEnds DEF CheckRoom
<1> QED BY <1>3, <1>4

LEMMA AnswerMoves ==
  ASSUME JobsOk, NEW r \in Req, Answer(r)
  PROVE  At(r, "provider") /\ \E n \in Units : Moves(r, "bill", Saw(r), n + 1)
<1>1. PICK n \in Units : job' = [job EXCEPT ![r].at = "bill", ![r].pos = n + 1]
  BY DEF Answer
<1>2. At(r, "provider") /\ job[r].at \in Places
  BY DEF Answer, At, Places
<1>3. Moves(r, "bill", Saw(r), n + 1)
  BY <1>1, <1>2, PlaceOk DEF Moves, OthersStay, JobFields, Saw
<1> QED BY <1>2, <1>3

LEMMA RecordMoves ==
  ASSUME JobsOk, NEW r \in Req, Record(r)
  PROVE  At(r, "record") /\ EndsWell(r)
BY DoneEnds DEF Record

\* One request steps; it is as it may be at its place.
LEMMA JobsStep ==
  ASSUME JobsOk, NEW r \in Req, RequestStep(r)
  PROVE  (UNCHANGED job \/ OthersStay(r)) /\ JobsOk'
<1> DEFINE Goal == (UNCHANGED job \/ OthersStay(r)) /\ JobsOk'
           Fine(at, pos) == CallOk(CallOf(r)) /\ Fits(at, CallOf(r), pos)
<1>1. JobOk(job[r]) /\ (job[r].at \in Places => Fine(job[r].at, Pos(r)))
  BY DEF JobsOk, JobOk, CallOf, Pos
<1>2. ASSUME UNCHANGED job PROVE Goal
  BY <1>2 DEF JobsOk, JobOk
<1>3. ASSUME OthersStay(r), JobOk(job'[r]) PROVE Goal
  BY <1>3 DEF JobsOk, OthersStay, JobOk
<1>4. ASSUME EndsBadly(r) PROVE Goal
  <2>1. JobOk(job'[r])
    BY <1>4 DEF EndsBadly, JobOk, Places, Creating, Applying, Saving, Metered
  <2> QED BY <1>3, <1>4, <2>1 DEF EndsBadly
<1>5. ASSUME EndsWell(r), job[r].at \in Places PROVE Goal
  <2>1. JobOk(job'[r])
    BY <1>1, <1>5 DEF EndsWell, JobOk, CallOf, Places, Creating, Applying, Saving, Metered
  <2> QED BY <1>3, <1>5, <2>1 DEF EndsWell
<1>6. ASSUME NEW p \in Places, NEW STATE x, NEW STATE n, Moves(r, p, x, n), Fine(p, n) PROVE Goal
  <2>1. JobOk(job'[r])
    BY <1>1, <1>6 DEF Moves, JobOk, CallOf, Places, Creating, Applying, Saving, Metered
  <2> QED BY <1>3, <1>6, <2>1 DEF Moves
<1>7. ASSUME NEW p \in Places, NEW STATE x, Moves(r, p, x, Pos(r)), job[r].at \in Places,
             Fine(job[r].at, Pos(r)) => Fine(p, Pos(r))
      PROVE  Goal
  BY <1>1, <1>6, <1>7
<1> HIDE DEF Goal
<1>8. ASSUME Enter(r) PROVE Goal
  <2>1. Moves(r, CallOf(r).op, Empty, 1) /\ CallOk(CallOf(r)) => CallOf(r).op \in Places /\ Fine(CallOf(r).op, 1)
    BY DEF CallOk, Fits, Places, Creating, Applying, Saving, Metered
  <2>2. Moves(r, CallOf(r).op, Empty, 1) /\ CallOk(CallOf(r)) => Goal
    BY <1>6, <2>1
  <2> QED BY <1>4, <1>8, <2>2, EnterMoves
<1>9. ASSUME ReadSettings(r) PROVE Goal
  <2>1. Fine(job[r].at, Pos(r)) /\ job[r].at \in {"settings", "billing"} => Fine("write", Pos(r))
    BY DEF Fits, Creating, Applying, Saving, Metered
  <2>2. "write" \in Places /\ {"settings", "billing"} \subseteq Places
    BY DEF Places
  <2> QED BY <1>4, <1>7, <1>9, <2>1, <2>2, ReadSettingsMoves
<1>10. ASSUME WriteSettings(r) \/ UpdateCompany(r) \/ CreateBom(r) \/ SaveUser(r) \/ Record(r) PROVE Goal
  BY <1>4, <1>5, <1>10, WriteSettingsMoves, UpdateCompanyMoves, CreateBomMoves, SaveUserMoves,
     RecordMoves DEF At, Places, Creating, Applying, Saving, Metered
<1>11. ASSUME BeginSeries(r) \/ ReplaceSeries(r) PROVE Goal
  <2>1. {"series", "items"} \subseteq Places
    BY DEF Places
  <2>2. \A n : Fine(job[r].at, Pos(r)) /\ job[r].at \in {"series", "items"} => Fine("items", n)
    BY DEF Fits, Creating, Applying, Saving, Metered
  <2> QED BY <1>1, <1>2, <1>4, <1>5, <1>6, <1>11, <2>1, <2>2, BeginSeriesMoves, ReplaceSeriesMoves DEF At
<1>12. Creating \subseteq Places
  BY DEF Places
<1>13. ASSUME CreateCompany(r) PROVE Goal
  <2>1. Fine("create", Pos(r)) => Fine("ensure", Pos(r))
    BY DEF Fits, Creating, Applying, Saving, Metered
  <2>2. {"create", "ensure"} \subseteq Creating
    BY DEF Creating
  <2> QED BY <1>4, <1>7, <1>12, <1>13, <2>1, <2>2, CreateCompanyMoves DEF At
<1>14. ASSUME EnsureForNew(r) PROVE Goal
  <2>1. Fine("ensure", Pos(r)) /\ CallOf(r).template # "none" => Fine("template", Pos(r))
    BY DEF Fits, Creating, Applying, Saving, Metered
  <2>2. {"ensure", "template"} \subseteq Creating
    BY DEF Creating, Applying
  <2> QED BY <1>2, <1>4, <1>5, <1>7, <1>12, <1>14, <2>1, <2>2, EnsureForNewMoves DEF At
<1>15. Applying \subseteq Creating
  BY DEF Creating
<1>16. ASSUME NEW p \in Applying \ {"bom"}, NEW q \in Applying \ {"template"},
              Fine(p, Pos(r)), p \notin {"template"} => q # "applyTemplate"
       PROVE  Fine(q, Pos(r))
  BY <1>16 DEF Fits, Creating, Applying, Saving, Metered
<1>17. ASSUME ReadForTemplate(r) \/ ApplyTemplate(r) \/ ReadAgain(r) \/ WriteDefaults(r) PROVE Goal
  <2>1. PICK p \in Applying \ {"bom"}, q \in Applying \ {"template"} :
          At(r, p) /\ (p # "template" => q # "applyTemplate") /\ \E x : Moves(r, q, x, Pos(r))
    <3>1. {"template", "applyTemplate", "starter", "again", "defaults", "bom"} = Applying
      BY DEF Applying
    <3>2. CASE ReadForTemplate(r)
      BY <3>1, <3>2, ReadForTemplateMoves
    <3>3. CASE ApplyTemplate(r)
      BY <3>1, <3>3, ApplyTemplateMoves
    <3>4. CASE ReadAgain(r)
      BY <3>1, <3>4, ReadAgainMoves
    <3>5. CASE WriteDefaults(r)
      BY <3>1, <3>5, WriteDefaultsMoves
    <3> QED BY <1>17, <3>2, <3>3, <3>4, <3>5
  <2>2. PICK x : Moves(r, q, x, Pos(r))
    BY <2>1
  <2> QED BY <1>7, <1>12, <1>15, <1>16, <2>1, <2>2 DEF At
<1>18. ASSUME CreateStarter(r) PROVE Goal
  <2>1. \A n : Fine("starter", Pos(r)) => Fine("starter", n) /\ Fine("again", n)
    BY DEF Fits, Creating, Applying, Saving, Metered
  <2>2. {"starter", "again"} \subseteq Applying
    BY DEF Applying
  <2> QED BY <1>1, <1>6, <1>12, <1>15, <1>18, <2>1, <2>2, CreateStarterMoves DEF At
<1>19. ASSUME ReadTarget(r) \/ CountAdmins(r) PROVE Goal
  <2>1. \A p, q \in Saving : Fine(p, Pos(r)) => Fine(q, Pos(r))
    BY DEF Fits, Creating, Applying, Saving, Metered
  <2>2. {"updateUser", "countAdmins", "saveUser"} \subseteq Saving /\ Saving \subseteq Places
    BY DEF Saving, Places
  <2> QED BY <1>4, <1>7, <1>19, <2>1, <2>2, ReadTargetMoves, CountAdminsMoves DEF At
<1>20. {"bill", "room", "record", "provider", "createUser", "ai"} \subseteq Places
  BY DEF Metered, Places
<1>21. ASSUME NEW p \in {"bill", "room", "record", "provider", "createUser", "ai"},
              NEW q \in {"bill", "room", "record", "provider"}, NEW n,
              Fine(p, Pos(r)), q = "provider" => CallOf(r).op = "ai"
       PROVE  Fine(q, n)
  BY <1>21 DEF Fits, Creating, Applying, Saving, Metered
<1>22. ASSUME CreateUser(r) \/ BeginAi(r) \/ ReadBilling(r) \/ CheckRoom(r) \/ Answer(r) PROVE Goal
  <2>1. PICK p \in {"bill", "room", "record", "provider", "createUser", "ai"} :
          /\ At(r, p)
          /\ \/ EndsBadly(r) \/ EndsWell(r)
             \/ \E q \in {"bill", "room", "record", "provider"} : \E x, n :
                  Moves(r, q, x, n) /\ (q = "provider" => CallOf(r).op = "ai")
    <3>1. CASE CreateUser(r)
      BY <3>1, CreateUserMoves
    <3>2. CASE BeginAi(r)
      BY <3>2, BeginAiMoves
    <3>3. CASE ReadBilling(r)
      BY <3>3, ReadBillingMoves
    <3>4. CASE CheckRoom(r)
      BY <3>4, CheckRoomMoves
    <3>5. CASE Answer(r)
      BY <3>5, AnswerMoves
    <3> QED BY <1>22, <3>1, <3>2, <3>3, <3>4, <3>5
  <2> QED BY <1>1, <1>4, <1>5, <1>6, <1>20, <1>21, <2>1 DEF At
<1>23. Goal
  BY <1>8, <1>9, <1>10, <1>11, <1>13, <1>14, <1>17, <1>18, <1>19, <1>22
     DEF RequestStep, SettingsStep, UsersStep
<1> QED BY <1>23 DEF Goal

\* The seed and the days leave the requests.
LEMMA JobsNext == JobsOk /\ [Next]_vars => JobsOk'
<1> SUFFICES ASSUME JobsOk, [Next]_vars PROVE JobsOk'
  OBVIOUS
<1>1. ASSUME UNCHANGED job PROVE JobsOk'
  BY <1>1 DEF JobsOk, JobOk
<1>2. SeedStep => UNCHANGED job
  BY DEF SeedStep, StartSeed, ClearRole, Grant, SeedPlatform, SeedCompany, SeedSeries, SeedAdmin,
         SeedItems, Finish, CutOffSeed
<1>3. NewDay \/ UNCHANGED vars => UNCHANGED job
  BY DEF NewDay, vars
<1> QED BY <1>1, <1>2, <1>3, JobsStep DEF Next

LEMMA JobsInit == TenantInit => JobsOk
<1> SUFFICES ASSUME TenantInit PROVE JobsOk
  OBVIOUS
<1>1. PICK mix \in Mix0 : job = [r \in Req |-> [at |-> "waiting", call |-> mix.call[r]]]
  BY DEF TenantInit
<1>2. \A r \in Req : mix.call[r] = NoCall \/ CallOk(mix.call[r])
  BY TenantConstants
<1> QED BY <1>1, <1>2 DEF JobsOk, JobOk, Places, Creating, Applying, Saving, Metered

----------------------------------------------------------------------------
(* The types. *)

\* Settings of a company with these warehouses.
SettingsIn(s, places) ==
  /\ DOMAIN s \subseteq SettingsKey
  /\ "defaultWarehouseId" \in DOMAIN s => s["defaultWarehouseId"] \in places \cup {NoWarehouse}

\* What a request has read, and what it has created of its template.
ReadOk(r) ==
  LET items == StarterItems(CallOf(r).template) IN
  /\ job[r].at \in Writing => SettingsIn(Saw(r), starter)
  /\ job[r].at \in {"countAdmins", "saveUser"} => user[CallOf(r).target].status # "none"
  /\ At(r, "starter") => Pos(r) \in 1..Len(items) /\ \A i \in 1..(Pos(r) - 1) : items[i] \in starter
  /\ job[r].at \in {"again", "defaults", "bom"} => ToSet(items) \subseteq starter

\* A company that is there, and one that is not.
PresentOk ==
  /\ DOMAIN tenant = {"slug", "status", "modules", "settings"}
  /\ tenant.status \in {"trial", "active", "suspended"}
  /\ SettingsIn(Settings, starter)
AbsentOk ==
  /\ series = Empty /\ starter = {}
  /\ \A u \in User \ {Platform} : user[u] = NoUser
  /\ \A r \in Req : job[r].at \in {"waiting", "refused", "create", "company", "billing"}
  /\ seed.at \notin {"series", "admin", "items"}
CompanyOk == IF Exists THEN PresentOk ELSE AbsentOk

RowsOk ==
  /\ DOMAIN series \subseteq ToSet(Series)
  /\ user \in [User -> UserRow]

Typed == CompanyOk /\ RowsOk /\ \A r \in Req : ReadOk(r)

LEMMA UserRows ==
  /\ NoUser \in UserRow
  /\ \A x \in UserRow : x.status # "none" =>
       /\ x.status \in {"active", "inactive", "suspended"} /\ x.roles \subseteq Role
  /\ \A x \in UserRow : x.status = "none" => x = NoUser
  /\ \A s \in {"active", "inactive", "suspended"}, R \in SUBSET Role :
       [status |-> s, roles |-> R] \in UserRow
BY DEF UserRow, NoUser

\* One account is saved, and it is there.
LEMMA OneUser ==
  ASSUME user \in [User -> UserRow], NEW u \in User, NEW s, NEW R,
         user' = [user EXCEPT ![u] = [status |-> s, roles |-> R]],
         s \in {"active", "inactive", "suspended"}, R \subseteq Role
  PROVE  /\ user' \in [User -> UserRow]
         /\ \A x \in User : user[x].status # "none" => user'[x].status # "none"
BY UserRows

LEMMA UserTyped ==
  ASSUME JobsOk, user \in [User -> UserRow], NEW r \in Req, ReadOk(r), RequestStep(r)
  PROVE  /\ user' \in [User -> UserRow]
         /\ \A x \in User : user[x].status # "none" => user'[x].status # "none"
<1> DEFINE Goal == /\ user' \in [User -> UserRow]
                   /\ \A x \in User : user[x].status # "none" => user'[x].status # "none"
           c == CallOf(r)
<1>1. ASSUME UNCHANGED user PROVE Goal
  BY <1>1
<1>2. ASSUME NEW u \in User, NEW s, NEW R, s \in {"active", "inactive", "suspended"}, R \subseteq Role,
             user' = [user EXCEPT ![u] = [status |-> s, roles |-> R]]
      PROVE  Goal
  BY <1>2, OneUser
<1> HIDE DEF Goal
<1>3. {"COMPANY_ADMIN", "COMPANY_MEMBER"} \subseteq Role
  BY TenantConstants
<1>4. job[r].at \in Places => CallOk(c) /\ JobOk(job[r])
  BY PlaceOk
<1>5. ASSUME CreateCompany(r), ~UNCHANGED user PROVE Goal
  <2>1. user' = [user EXCEPT ![c.admin] = [status |-> "active", roles |-> {"COMPANY_ADMIN"}]]
    BY <1>5 DEF CreateCompany, NewUser
  <2>2. c.admin \in User
    <3>1. At(r, "create") /\ job[r].at \in Places
      BY <1>5 DEF CreateCompany, At, Places, Creating
    <3> QED BY <1>4, <3>1 DEF JobOk, Fits, At, CallOk, CallOf, Creating
  <2> DEFINE R == {"COMPANY_ADMIN"}
  <2>3. R \subseteq Role
    BY <1>3
  <2>4. PICK u \in User : u = c.admin
    BY <2>2
  <2>5. user' = [user EXCEPT ![u] = [status |-> "active", roles |-> R]]
    BY <2>1, <2>4
  <2> HIDE DEF R, c
  <2>6. \A s \in {"active"} : user' = [user EXCEPT ![u] = [status |-> s, roles |-> R]]
    BY <2>5
  <2> QED BY <1>2, <2>3, <2>6
<1>6. ASSUME SaveUser(r) PROVE Goal
  <2>1. /\ user' = [user EXCEPT ![c.target] = Saved(user[c.target], c)] /\ At(r, "saveUser")
        /\ job[r].at \in Places
    BY <1>6 DEF SaveUser, At, Places, Saving
  <2>2. /\ c.target \in User /\ GivenRoles(c) \subseteq Role
        /\ c.status \in {"unchanged", "active", "inactive", "suspended"}
    BY <1>4, <2>1 DEF JobOk, Fits, At, CallOk, CallOf, Saving, CompanyRoles
  <2>3. user[c.target] \in UserRow /\ user[c.target].status # "none"
    BY <2>1, <2>2 DEF ReadOk, At
  <2>4. /\ user[c.target].status \in {"active", "inactive", "suspended"}
        /\ user[c.target].roles \subseteq Role
    BY <2>3, UserRows
  <2> DEFINE s == IF c.status = "unchanged" THEN user[c.target].status ELSE c.status
             R == IF c.op = "updateUser" /\ "roles" \notin DOMAIN c THEN user[c.target].roles
                  ELSE GivenRoles(c)
  <2>5. s \in {"active", "inactive", "suspended"} /\ R \subseteq Role
    BY <2>2, <2>4
  <2>6. user' = [user EXCEPT ![c.target] = [status |-> s, roles |-> R]]
    BY <2>1 DEF Saved
  <2>7. PICK u \in User : u = c.target
    BY <2>2
  <2> HIDE DEF s, R
  <2>8. PICK S, Q : S = s /\ Q = R
    OBVIOUS
  <2>9. /\ user' = [user EXCEPT ![u] = [status |-> S, roles |-> Q]]
        /\ S \in {"active", "inactive", "suspended"} /\ Q \subseteq Role
    BY <2>5, <2>6, <2>7, <2>8
  <2> HIDE DEF c
  <2> QED BY <2>9, OneUser DEF Goal
<1>7. ASSUME CreateUser(r), ~UNCHANGED user PROVE Goal
  <2> DEFINE R == GivenRoles(c)
  <2>1. /\ user' = [user EXCEPT ![c.target] = [status |-> "active", roles |-> R]]
        /\ At(r, "createUser") /\ job[r].at \in Places
    BY <1>7 DEF CreateUser, At, Places
  <2>2. c.target \in User /\ R \subseteq CompanyRoles
    BY <1>4, <2>1 DEF JobOk, Fits, At, CallOk, CallOf
  <2>3. R \subseteq Role
    BY <1>3, <2>2 DEF CompanyRoles
  <2> HIDE DEF R, c
  <2>4. \A s \in {"active"} : user' = [user EXCEPT ![c.target] = [status |-> s, roles |-> R]]
    BY <2>1
  <2> QED BY <1>2, <2>2, <2>3, <2>4
<1>8. ASSUME ~CreateCompany(r), ~SaveUser(r), ~CreateUser(r) PROVE UNCHANGED user
  BY <1>8 DEF RequestStep, Enter, SettingsStep, ReadSettings, WriteSettings, UpdateCompany, BeginSeries,
       ReplaceSeries, EnsureForNew, ReadForTemplate, ApplyTemplate, CreateStarter, ReadAgain,
       WriteDefaults, CreateBom, UsersStep, ReadTarget, CountAdmins, BeginAi, ReadBilling, CheckRoom,
       Answer, Record
<1>9. Goal
  BY <1>1, <1>5, <1>6, <1>7, <1>8
<1> QED BY <1>9 DEF Goal

LEMMA UserSeeded ==
  ASSUME user \in [User -> UserRow], SeedStep
  PROVE  /\ user' \in [User -> UserRow]
         /\ \A x \in User : user[x].status # "none" => user'[x].status # "none"
<1>1. {"PLATFORM_SUPER_ADMIN", "COMPANY_ADMIN", "STORE_MANAGER"} \subseteq Role
  BY TenantConstants
<1>2. \A u \in User : RolesOf(u) \subseteq Role
  BY UserRows DEF RolesOf
<1>3. Platform \in User /\ DemoAdmin \in User
  BY CompanyConstants, SeedConstants
<1>4. CASE SeedPlatform
  <2>1. user' = [user EXCEPT ![Platform] = [status |-> "active",
                                            roles |-> RolesOf(Platform) \cup {"PLATFORM_SUPER_ADMIN"}]]
    BY <1>4 DEF SeedPlatform
  <2>2. RolesOf(Platform) \cup {"PLATFORM_SUPER_ADMIN"} \subseteq Role
    BY <1>1, <1>2, <1>3
  <2> QED BY <1>3, <2>1, <2>2, OneUser
<1>5. CASE SeedAdmin
  <2>1. user' = [user EXCEPT ![DemoAdmin] =
                   [status |-> "active", roles |-> RolesOf(DemoAdmin) \cup {"COMPANY_ADMIN", "STORE_MANAGER"}]]
    BY <1>5 DEF SeedAdmin
  <2>2. RolesOf(DemoAdmin) \cup {"COMPANY_ADMIN", "STORE_MANAGER"} \subseteq Role
    BY <1>1, <1>2, <1>3
  <2> QED BY <1>3, <2>1, <2>2, OneUser
<1>6. CASE ~SeedPlatform /\ ~SeedAdmin
  BY <1>6 DEF SeedStep, StartSeed, ClearRole, Grant, SeedCompany, SeedSeries, SeedItems, Finish, CutOffSeed
<1> QED BY <1>4, <1>5, <1>6

\* A write keeps what it does not name.
LEMMA MergeIs ==
  ASSUME NEW blob, NEW patch, NEW k
  PROVE  /\ k \in DOMAIN patch => k \in DOMAIN Merge(blob, patch) /\ Merge(blob, patch)[k] = patch[k]
         /\ k \in DOMAIN blob /\ k \notin DOMAIN patch =>
              k \in DOMAIN Merge(blob, patch) /\ Merge(blob, patch)[k] = blob[k]
         /\ k \in DOMAIN Merge(blob, patch) =>
              k \in DOMAIN patch \/ k \in DOMAIN blob \/ k \in WorkflowKey \cup BillingKey
<1> DEFINE d == Overlay(Explicit(patch, DefaultWorkflow), Explicit(patch, DefaultBilling))
<1>1. DOMAIN d \subseteq WorkflowKey \cup BillingKey
  BY DEF Overlay, Explicit, Empty, WorkflowKey, BillingKey
<1> HIDE DEF d
<1>2. Merge(blob, patch) = Overlay(patch, Overlay(blob, d))
  BY DEF Merge, d
<1> QED BY <1>1, <1>2 DEF Overlay

LEMMA MergeIn ==
  ASSUME NEW blob, NEW patch, NEW places, SettingsIn(blob, places), SettingsIn(patch, places)
  PROVE  SettingsIn(Merge(blob, patch), places)
<1>1. "defaultWarehouseId" \notin WorkflowKey \cup BillingKey
  BY DEF WorkflowKey, BillingKey, DefaultWorkflow, DefaultBilling
<1>2. WorkflowKey \cup BillingKey \subseteq SettingsKey
  BY DEF SettingsKey
<1>3. DOMAIN Merge(blob, patch) \subseteq SettingsKey
  BY <1>2, MergeIs DEF SettingsIn
<1>4. "defaultWarehouseId" \in DOMAIN Merge(blob, patch) =>
        Merge(blob, patch)["defaultWarehouseId"] \in places \cup {NoWarehouse}
  BY <1>1, MergeIs DEF SettingsIn
<1> QED BY <1>3, <1>4 DEF SettingsIn

LEMMA OverlayIn ==
  ASSUME NEW blob, NEW patch, NEW places, SettingsIn(blob, places), SettingsIn(patch, places)
  PROVE  SettingsIn(Overlay(patch, blob), places)
BY DEF SettingsIn, Overlay

\* What the templates write and create.
TemplateCode == {"cotton", "steel", "machines"}

StarterName ==
  {"RM", "YARN", "FAB", "METAL", "COMP", "FG", "WH-COTTON", "WH-STEEL", "WH-ASM", "B-01",
   "YARN-CTN-30S", "GREIGE-CTN-58", "PLT-MS-3MM", "WIR-MS-4", "FST-BOLT-M12",
   "MOT-1HP", "FRM-ASM-01", "CTL-PANEL-A", "FG-ASM-KIT-1", "FG-ASM-KIT-1 v1"}

LEMMA Pair == ASSUME NEW S, NEW x \in S, NEW y \in S
              PROVE  <<x, y>> \in Seq(S) /\ Len(<<x, y>>) = 2 /\ <<x, y>>[1] = x
OBVIOUS

LEMMA Triple == ASSUME NEW S, NEW x \in S, NEW y \in S, NEW z \in S PROVE <<x, y, z>> \in Seq(S)
OBVIOUS

LEMMA Quadruple ==
  ASSUME NEW S, NEW x \in S, NEW y \in S, NEW z \in S, NEW v \in S PROVE <<x, y, z, v>> \in Seq(S)
OBVIOUS

LEMMA Chain ==
  ASSUME NEW S, NEW a \in Seq(S), NEW b \in Seq(S)
  PROVE  /\ a \o b \in Seq(S) /\ Len(a \o b) = Len(a) + Len(b)
         /\ \A i \in 1..(Len(a) + Len(b)) : (a \o b)[i] = IF i <= Len(a) THEN a[i] ELSE b[i - Len(a)]
BY ConcatProperties

LEMMA TemplateItems ==
  ASSUME NEW code \in TemplateCode
  PROVE  LET items == StarterItems(code) IN
         /\ Len(items) \in Nat \ {0} /\ ToSet(items) = {items[i] : i \in 1..Len(items)}
         /\ Template(code).warehouse \in ToSet(items) /\ items \in Seq(StarterName)
<1> DEFINE t == Template(code)
           S == StarterName
<1>1. t.categories \in Seq(S) /\ t.warehouse \in S /\ t.materials \in Seq(S)
  <2>1. CASE code = "cotton"
    <3>1. t = Cotton
      BY <2>1 DEF Template
    <3>2. <<"RM", "YARN", "FAB">> \in Seq(S)
      BY Triple DEF StarterName
    <3>3. <<"YARN-CTN-30S", "GREIGE-CTN-58">> \in Seq(S)
      BY Pair DEF StarterName
    <3>4. "WH-COTTON" \in S
      BY DEF StarterName
    <3> QED BY <3>1, <3>2, <3>3, <3>4 DEF Cotton
  <2>2. CASE code = "steel"
    <3>1. t = Steel
      BY <2>2 DEF Template
    <3>2. <<"RM", "METAL">> \in Seq(S)
      BY Pair DEF StarterName
    <3>3. <<"PLT-MS-3MM", "WIR-MS-4", "FST-BOLT-M12">> \in Seq(S)
      BY Triple DEF StarterName
    <3>4. "WH-STEEL" \in S
      BY DEF StarterName
    <3> QED BY <3>1, <3>2, <3>3, <3>4 DEF Steel
  <2>3. CASE code = "machines"
    <3>1. t = Machines
      BY <2>3 DEF Template
    <3>2. <<"COMP", "FG">> \in Seq(S)
      BY Pair DEF StarterName
    <3>3. <<"MOT-1HP", "FRM-ASM-01", "CTL-PANEL-A", "FG-ASM-KIT-1">> \in Seq(S)
      BY Quadruple DEF StarterName
    <3>4. "WH-ASM" \in S
      BY DEF StarterName
    <3>5. Machines.categories = <<"COMP", "FG">>
      BY DEF Machines
    <3>6. Machines.warehouse = "WH-ASM"
      BY DEF Machines
    <3>7. Machines.materials = <<"MOT-1HP", "FRM-ASM-01", "CTL-PANEL-A", "FG-ASM-KIT-1">>
      BY DEF Machines
    <3> HIDE DEF t, S
    <3> QED BY <3>1, <3>2, <3>3, <3>4, <3>5, <3>6, <3>7
  <2> QED BY <2>1, <2>2, <2>3 DEF TemplateCode
<1> HIDE DEF t
<1>2. PICK a, b, m : a = t.categories /\ b = <<t.warehouse, "B-01">> /\ m = t.materials
  OBVIOUS
<1>3. StarterItems(code) = (a \o b) \o m
  BY <1>2 DEF StarterItems, t
<1>4. "B-01" \in S
  BY DEF StarterName
<1> HIDE DEF S
<1>5. a \in Seq(S) /\ b \in Seq(S) /\ m \in Seq(S) /\ Len(b) = 2 /\ b[1] = t.warehouse
  BY <1>1, <1>2, <1>4, Pair
<1>6. Len(a) \in Nat /\ Len(m) \in Nat
  BY <1>5, LenProperties
<1>7. \A x, y \in Seq(S) :
        /\ x \o y \in Seq(S) /\ Len(x \o y) = Len(x) + Len(y)
        /\ \A i \in 1..(Len(x) + Len(y)) : (x \o y)[i] = IF i <= Len(x) THEN x[i] ELSE y[i - Len(x)]
  BY Chain
<1>8. a \o b \in Seq(S) /\ Len(a \o b) = Len(a) + 2
  <2>1. a \o b \in Seq(S) /\ Len(a \o b) = Len(a) + Len(b)
    BY <1>5, <1>7
  <2> QED BY <1>5, <2>1
<1>9. (a \o b)[Len(a) + 1] = t.warehouse
  <2>1. Len(a) + 1 \in 1..(Len(a) + Len(b)) /\ ~(Len(a) + 1 <= Len(a)) /\ Len(a) + 1 - Len(a) = 1
    BY <1>5, <1>6
  <2> QED BY <1>5, <2>1, <1>7
<1> DEFINE n == Len(a) + 2 + Len(m)
           items == (a \o b) \o m
<1>10. items \in Seq(S) /\ Len(items) = n
  <2>1. items \in Seq(S) /\ Len(items) = Len(a \o b) + Len(m)
    BY <1>5, <1>8, Chain
  <2> QED BY <1>8, <2>1
<1>11. items[Len(a) + 1] = t.warehouse
  <2>1. Len(a) + 1 \in 1..(Len(a \o b) + Len(m)) /\ Len(a) + 1 <= Len(a \o b)
    BY <1>6, <1>8
  <2> QED BY <1>5, <1>8, <1>9, <2>1, <1>7
<1>12. Len(items) \in Nat \ {0} /\ DOMAIN items = 1..Len(items) /\ Len(a) + 1 \in 1..Len(items)
  BY <1>6, <1>10, LenProperties
<1>13. items \in Seq(StarterName)
  BY <1>10 DEF S
<1> HIDE DEF items
<1> QED BY <1>3, <1>11, <1>12, <1>13 DEF ToSet, t, items

LEMMA TemplateBom == ASSUME NEW code \in TemplateCode PROVE Template(code).bom \in Seq(StarterName)
<1>1. Cotton.bom = <<>> /\ Steel.bom = <<>> /\ Machines.bom = <<"FG-ASM-KIT-1 v1">>
  BY DEF Cotton, Steel, Machines
<1>2. "FG-ASM-KIT-1 v1" \in StarterName
  BY DEF StarterName
<1>3. <<>> \in Seq(StarterName)
  OBVIOUS
<1>4. <<"FG-ASM-KIT-1 v1">> \in Seq(StarterName)
  <2>1. \A S : \A x \in S : <<x>> \in Seq(S)
    OBVIOUS
  <2> QED BY <1>2, <2>1
<1>5. Template(code) \in {Cotton, Steel, Machines}
  BY DEF Template, TemplateCode
<1> QED BY <1>1, <1>3, <1>4, <1>5

\* Both together.
LEMMA TemplateRows ==
  ASSUME NEW code \in TemplateCode
  PROVE  ToSet(StarterItems(code) \o Template(code).bom)
           \subseteq ToSet(StarterItems(code)) \cup ToSet(Template(code).bom)
<1>1. PICK S, a, b : S = StarterName /\ a = StarterItems(code) /\ b = Template(code).bom
  OBVIOUS
<1>2. a \in Seq(S) /\ b \in Seq(S)
  BY <1>1, TemplateItems, TemplateBom
<1>3. /\ a \o b \in Seq(S) /\ Len(a \o b) = Len(a) + Len(b)
      /\ \A i \in 1..(Len(a) + Len(b)) : (a \o b)[i] = IF i <= Len(a) THEN a[i] ELSE b[i - Len(a)]
  BY <1>2, Chain
<1>4. /\ Len(a) \in Nat /\ Len(b) \in Nat /\ DOMAIN a = 1..Len(a) /\ DOMAIN b = 1..Len(b)
      /\ DOMAIN (a \o b) = 1..Len(a \o b)
  BY <1>2, <1>3, LenProperties
<1>5. ASSUME NEW i \in DOMAIN (a \o b) PROVE (a \o b)[i] \in ToSet(a) \cup ToSet(b)
  <2>1. i \in 1..(Len(a) + Len(b))
    BY <1>3, <1>4
  <2>2. CASE i <= Len(a)
    <3>1. i \in DOMAIN a /\ (a \o b)[i] = a[i]
      BY <1>3, <1>4, <2>1, <2>2
    <3> QED BY <3>1 DEF ToSet
  <2>3. CASE ~(i <= Len(a))
    <3>1. i - Len(a) \in DOMAIN b
      BY <1>4, <2>1, <2>3
    <3>2. (a \o b)[i] = b[i - Len(a)]
      BY <1>3, <2>1, <2>3
    <3> QED BY <3>1, <3>2 DEF ToSet
  <2> QED BY <2>2, <2>3
<1> QED BY <1>1, <1>5 DEF ToSet

LEMMA TemplateWrites ==
  ASSUME NEW code \in TemplateCode, NEW places
  PROVE  /\ SettingsIn(TemplateSettings(code), places)
         /\ Template(code).warehouse \in places => SettingsIn(TemplateDefaults(code), places)
<1>1. /\ DOMAIN TemplateSettings(code) \subseteq SettingsKey
      /\ "defaultWarehouseId" \notin DOMAIN TemplateSettings(code)
  BY DEF TemplateSettings, SettingsKey, WorkflowKey, BillingKey, StoreKey, DefaultWorkflow
<1>2. /\ DOMAIN TemplateDefaults(code) \subseteq SettingsKey
      /\ TemplateDefaults(code)["defaultWarehouseId"] = Template(code).warehouse
  BY DEF TemplateDefaults, SettingsKey, WorkflowKey, BillingKey, StoreKey
<1> QED BY <1>1, <1>2 DEF SettingsIn

LEMMA StarterGrows == ASSUME NEW r \in Req, RequestStep(r) PROVE starter \subseteq starter'
BY DEF RequestStep, Enter, SettingsStep, ReadSettings, WriteSettings, UpdateCompany, BeginSeries,
       ReplaceSeries, CreateCompany, EnsureForNew, ReadForTemplate, ApplyTemplate, CreateStarter,
       ReadAgain, WriteDefaults, CreateBom, UsersStep, ReadTarget, CountAdmins, SaveUser, CreateUser,
       BeginAi, ReadBilling, CheckRoom, Answer, Record

LEMMA PresentWritten ==
  ASSUME Exists, PresentOk, starter \subseteq starter', tenant'.slug = tenant.slug,
         DOMAIN tenant' = DOMAIN tenant, tenant'.status \in {"trial", "active", "suspended"},
         SettingsIn(tenant'.settings, starter)
  PROVE  Exists' /\ PresentOk'
BY DEF Exists, PresentOk, SettingsIn, Settings

LEMMA PresentRequest ==
  ASSUME JobsOk, Typed, Exists, NEW r \in Req, RequestStep(r)
  PROVE  Exists' /\ PresentOk'
<1>1. PresentOk /\ ReadOk(r)
  BY DEF Typed, CompanyOk
<1>2. starter \subseteq starter'
  BY StarterGrows
<1>3. ASSUME UNCHANGED tenant PROVE Exists' /\ PresentOk'
  BY <1>1, <1>2, <1>3, PresentWritten DEF PresentOk, Settings
<1>4. ASSUME NEW s, SettingsIn(s, starter), tenant' = [tenant EXCEPT !.settings = s]
      PROVE  Exists' /\ PresentOk'
  <2>1. /\ tenant'.slug = tenant.slug /\ DOMAIN tenant' = DOMAIN tenant
        /\ tenant'.status = tenant.status /\ tenant'.settings = s
    BY <1>1, <1>4 DEF PresentOk
  <2> QED BY <1>1, <1>2, <1>4, <2>1, PresentWritten DEF PresentOk
<1>5. ASSUME WriteSettings(r), ~UNCHANGED tenant PROVE Exists' /\ PresentOk'
  <2>1. tenant' = [tenant EXCEPT !.settings = Merge(Saw(r), CallOf(r).patch)]
    BY <1>5 DEF WriteSettings
  <2>2. At(r, "write") /\ ValidPatch(CallOf(r).patch)
    BY <1>5, WriteSettingsMoves
  <2>3. SettingsIn(Saw(r), starter)
    BY <1>1, <2>2 DEF ReadOk, At, Writing
  <2>4. job[r].at \in Places
    BY <2>2 DEF At, Places
  <2>5. CallOf(r).op \in {"settings", "billing"} /\ CallOk(CallOf(r))
    BY <2>2, <2>4, PlaceOk DEF JobOk, Fits, At, CallOf
  <2>6. SettingsIn(CallOf(r).patch, starter)
    BY <2>2, <2>5 DEF CallOk, ValidPatch, SettingsIn
  <2>7. SettingsIn(Merge(Saw(r), CallOf(r).patch), starter)
    BY <2>3, <2>6, MergeIn
  <2> QED BY <1>4, <2>1, <2>7
<1>6. ASSUME UpdateCompany(r), ~UNCHANGED tenant PROVE Exists' /\ PresentOk'
  <2>1. /\ tenant' = [tenant EXCEPT !.modules = CallOf(r).modules, !.status = CallOf(r).status]
        /\ At(r, "company") /\ job[r].at \in Places
    BY <1>6 DEF UpdateCompany, At, Places
  <2>2. CallOf(r).status \in {"trial", "active", "suspended"}
    BY <2>1, PlaceOk DEF JobOk, Fits, At, CallOf, CallOk
  <2>3. /\ tenant'.slug = tenant.slug /\ DOMAIN tenant' = DOMAIN tenant
        /\ tenant'.status = CallOf(r).status /\ tenant'.settings = tenant.settings
    BY <1>1, <2>1 DEF PresentOk
  <2> QED BY <1>1, <1>2, <2>2, <2>3, PresentWritten DEF PresentOk, Settings
<1>7. ASSUME CreateCompany(r), ~UNCHANGED tenant PROVE FALSE
  BY <1>7 DEF CreateCompany
<1>8. ASSUME NEW p \in Applying, At(r, p) PROVE CallOf(r).template \in TemplateCode
  <2>1. job[r].at \in Places
    BY <1>8 DEF At, Places, Creating
  <2> QED BY <1>8, <2>1, PlaceOk DEF JobOk, Fits, At, CallOf, CallOk, TemplateCode, Creating
<1>9. ASSUME ApplyTemplate(r) PROVE Exists' /\ PresentOk'
  <2> DEFINE code == CallOf(r).template
             s == Merge(Saw(r), TemplateSettings(code))
  <2>1. /\ tenant' = [tenant EXCEPT !.modules = Template(code).modules, !.settings = s]
        /\ At(r, "applyTemplate")
    BY <1>9 DEF ApplyTemplate
  <2>2. code \in TemplateCode
    BY <1>8, <2>1 DEF Applying
  <2>3. SettingsIn(Saw(r), starter)
    BY <1>1, <2>1 DEF ReadOk, At, Writing
  <2>4. SettingsIn(TemplateSettings(code), starter)
    BY <2>2, TemplateWrites
  <2>5. SettingsIn(s, starter)
    BY <2>3, <2>4, MergeIn
  <2> HIDE DEF s
  <2>6. /\ tenant'.slug = tenant.slug /\ DOMAIN tenant' = DOMAIN tenant
        /\ tenant'.status = tenant.status /\ tenant'.settings = s
    BY <1>1, <2>1 DEF PresentOk
  <2> QED BY <1>1, <1>2, <2>5, <2>6, PresentWritten DEF PresentOk
<1>10. ASSUME WriteDefaults(r) PROVE Exists' /\ PresentOk'
  <2> DEFINE code == CallOf(r).template
             s == Overlay(TemplateDefaults(code), Saw(r))
  <2>1. tenant' = [tenant EXCEPT !.settings = s] /\ At(r, "defaults")
    BY <1>10 DEF WriteDefaults
  <2>2. code \in TemplateCode
    BY <1>8, <2>1 DEF Applying
  <2>3. SettingsIn(Saw(r), starter) /\ ToSet(StarterItems(code)) \subseteq starter
    BY <1>1, <2>1 DEF ReadOk, At, Writing
  <2>4. SettingsIn(TemplateDefaults(code), starter)
    BY <2>2, <2>3, TemplateItems, TemplateWrites
  <2>5. SettingsIn(s, starter)
    BY <2>3, <2>4, OverlayIn
  <2> QED BY <1>4, <2>1, <2>5
<1>11. ASSUME ~WriteSettings(r), ~UpdateCompany(r), ~CreateCompany(r), ~ApplyTemplate(r), ~WriteDefaults(r)
       PROVE  UNCHANGED tenant
  BY <1>11 DEF RequestStep, Enter, SettingsStep, ReadSettings, BeginSeries, ReplaceSeries,
       EnsureForNew, ReadForTemplate, CreateStarter, ReadAgain, CreateBom, UsersStep, ReadTarget,
       CountAdmins, SaveUser, CreateUser, BeginAi, ReadBilling, CheckRoom, Answer, Record
<1> QED BY <1>3, <1>5, <1>6, <1>7, <1>9, <1>10, <1>11

\* Without a company, the platform administrator can only create one.
LEMMA AbsentRequest ==
  ASSUME JobsOk, Typed, ~Exists, NEW r \in Req, RequestStep(r)
  PROVE  CompanyOk'
<1>1. AbsentOk
  BY DEF Typed, CompanyOk
<1>2. job[r].at \in {"waiting", "refused", "create", "company", "billing"}
  BY <1>1 DEF AbsentOk
<1>3. Enter(r) \/ ReadSettings(r) \/ UpdateCompany(r) \/ CreateCompany(r)
  BY <1>2 DEF RequestStep, SettingsStep, WriteSettings, BeginSeries, ReplaceSeries, EnsureForNew,
       ReadForTemplate, ApplyTemplate, CreateStarter, ReadAgain, WriteDefaults, CreateBom, UsersStep,
       ReadTarget, CountAdmins, SaveUser, CreateUser, BeginAi, ReadBilling, CheckRoom, Answer, Record, At
<1>4. UNCHANGED seed
  BY DEF RequestStep
<1>5. ASSUME OthersStay(r), job'[r].at \in {"refused", "create", "company", "billing"},
             UNCHANGED <<tenant, series, starter, user>>
      PROVE  CompanyOk'
  <2>1. ~Exists'
    BY <1>5 DEF Exists
  <2>2. \A q \in Req : job'[q].at \in {"waiting", "refused", "create", "company", "billing"}
    BY <1>1, <1>5 DEF OthersStay, AbsentOk
  <2> QED BY <1>1, <1>4, <1>5, <2>1, <2>2 DEF CompanyOk, AbsentOk
<1>6. CASE Enter(r)
  <2>1. UNCHANGED <<tenant, series, starter, user>>
    BY <1>6 DEF Enter
  <2>2. CASE EndsBadly(r)
    BY <1>5, <2>1, <2>2 DEF EndsBadly
  <2>3. CASE Moves(r, CallOf(r).op, Empty, 1) /\ Admitted(CallOf(r)) /\ CallOk(CallOf(r))
    <3>1. CallOf(r).by = Platform
      BY <1>1, <2>3 DEF Admitted, CallOk, AbsentOk, NoUser
    <3>2. CallOf(r).op \in {"create", "company", "billing"}
      BY <2>3, <3>1 DEF Admitted
    <3> QED BY <1>5, <2>1, <2>3, <3>2 DEF Moves
  <2> QED BY <1>6, <2>2, <2>3, EnterMoves
<1>7. CASE ReadSettings(r)
  BY <1>5, <1>7, ReadSettingsMoves DEF ReadSettings, EndsBadly
<1>8. CASE UpdateCompany(r)
  BY <1>5, <1>8, UpdateCompanyMoves DEF UpdateCompany, EndsBadly
<1>9. CASE CreateCompany(r)
  <2>1. CASE user[CallOf(r).admin] # NoUser
    BY <1>5, <1>9, <2>1, RefuseEnds DEF CreateCompany, EndsBadly
  <2>2. CASE user[CallOf(r).admin] = NoUser
    <3>1. PICK M : tenant' = [slug |-> CallOf(r).slug, status |-> FirstStatus(CallOf(r)),
                              modules |-> M, settings |-> Empty]
      BY <1>9, <2>2 DEF CreateCompany
    <3>2. CallOf(r).slug # "none" /\ FirstStatus(CallOf(r)) \in {"trial", "active", "suspended"}
      <4>1. At(r, "create") /\ job[r].at \in Places
        BY <1>9 DEF CreateCompany, At, Places, Creating
      <4> QED BY <4>1, PlaceOk DEF JobOk, Fits, At, CallOk, CallOf, Creating
    <3>3. SettingsIn(Empty, starter')
      BY DEF SettingsIn, Empty
    <3>4. Exists' /\ PresentOk'
      BY <3>1, <3>2, <3>3 DEF Exists, PresentOk, Settings
    <3> QED BY <3>4 DEF CompanyOk
  <2> QED BY <2>1, <2>2
<1> QED BY <1>3, <1>6, <1>7, <1>8, <1>9

\* What every step of the seed leaves of its record.
SeedShape == DOMAIN seed = {"at", "pos", "item", "left", "done"}

LEMMA CompanySeeded ==
  ASSUME CompanyOk, SeedShape, SeedStep
  PROVE  CompanyOk' /\ starter \subseteq starter' /\ (Exists => Exists')
<1>1. UNCHANGED job
  BY DEF SeedStep, StartSeed, ClearRole, Grant, SeedPlatform, SeedCompany, SeedSeries, SeedAdmin,
         SeedItems, Finish, CutOffSeed
<1>2. starter \subseteq starter'
  BY DEF SeedStep, StartSeed, ClearRole, Grant, SeedPlatform, SeedCompany, SeedSeries, SeedAdmin,
         SeedItems, Finish, CutOffSeed
<1>3. CASE Exists
  <2>1. CASE UNCHANGED tenant
    BY <1>2, <1>3, <2>1, PresentWritten DEF CompanyOk, PresentOk, Settings
  <2>2. CASE ~UNCHANGED tenant
    <3>1. SeedCompany
      BY <2>2 DEF SeedStep, StartSeed, ClearRole, Grant, SeedPlatform, SeedSeries, SeedAdmin,
           SeedItems, Finish, CutOffSeed
    <3>2. tenant' = [tenant EXCEPT !.status = "active", !.modules = DemoModules,
                                   !.settings = DemoSettings]
      BY <2>2, <3>1 DEF SeedCompany
    <3>3. SettingsIn(DemoSettings, starter)
      BY DEF SettingsIn, DemoSettings, SettingsKey, BillingKey, DefaultBilling
    <3>4. PresentOk
      BY <1>3 DEF CompanyOk
    <3>5. /\ tenant'.slug = tenant.slug /\ DOMAIN tenant' = DOMAIN tenant
          /\ tenant'.status = "active" /\ tenant'.settings = DemoSettings
      BY <3>2, <3>4 DEF PresentOk
    <3> QED BY <1>2, <1>3, <3>3, <3>4, <3>5, PresentWritten DEF CompanyOk
  <2> QED BY <2>1, <2>2
<1>4. CASE ~Exists
  <2>1. AbsentOk
    BY <1>4 DEF CompanyOk
  <2>2. /\ UNCHANGED <<tenant, series, starter>> /\ seed'.at \notin {"series", "admin", "items"}
        /\ \A u \in User \ {Platform} : user'[u] = user[u]
    <3>1. CASE StartSeed \/ ClearRole \/ Grant \/ Finish \/ CutOffSeed
      <4>1. UNCHANGED <<tenant, series, starter, user>>
        BY <3>1 DEF StartSeed, ClearRole, Grant, Finish, CutOffSeed
      <4>2. StartSeed \/ ClearRole \/ Finish \/ CutOffSeed => seed'.at \in {"clear", "grant", "off"}
        <5>1. StartSeed => seed'.at = "clear"
          BY DEF StartSeed
        <5>2. ClearRole => seed'.at = "grant"
          BY DEF ClearRole, SeedShape
        <5>3. Finish \/ CutOffSeed => seed'.at = "off"
          BY DEF Finish, CutOffSeed, SeedShape
        <5> QED BY <5>1, <5>2, <5>3
      <4>3. Grant => seed'.at \in {"clear", "grant", "platform"}
        BY DEF Grant, SeedGoes, SeedShape, SeedAt
      <4> QED BY <3>1, <4>1, <4>2, <4>3
    <3>2. CASE SeedPlatform
      BY <2>1, <3>2 DEF SeedPlatform, SeedGoes, SeedShape
    <3>3. CASE SeedCompany
      BY <1>4, <3>3 DEF SeedCompany, SeedGoes, SeedShape, Exists
    <3>4. CASE SeedSeries \/ SeedAdmin \/ SeedItems
      BY <2>1, <3>4 DEF SeedSeries, SeedAdmin, SeedItems, SeedAt, AbsentOk
    <3> QED BY <3>1, <3>2, <3>3, <3>4 DEF SeedStep
  <2>3. ~Exists'
    BY <1>4, <2>2 DEF Exists
  <2> QED BY <1>1, <1>2, <1>4, <2>1, <2>2, <2>3 DEF CompanyOk, AbsentOk
<1> QED BY <1>2, <1>3, <1>4

\* Only types of the catalog have a series.
LEMMA SeriesTyped ==
  ASSUME DOMAIN series \subseteq ToSet(Series), NEW r \in Req, RequestStep(r)
  PROVE  DOMAIN series' \subseteq ToSet(Series) /\ DOMAIN series \subseteq DOMAIN series'
<1>1. ASSUME NEW next, EnsureSeries(r, next)
      PROVE  DOMAIN series' \subseteq ToSet(Series) /\ DOMAIN series \subseteq DOMAIN series'
  <2>1. CASE UNCHANGED series
    BY <2>1
  <2>2. CASE \E i \in DOMAIN Series : series' = SetAt(series, Series[i], SeriesDefault)
    BY <2>2 DEF SetAt, ToSet
  <2> QED BY <1>1, <2>1, <2>2 DEF EnsureSeries
<1>2. CASE BeginSeries(r) \/ EnsureForNew(r)
  BY <1>1, <1>2 DEF BeginSeries, EnsureForNew
<1>3. CASE ReplaceSeries(r)
  BY <1>3 DEF ReplaceSeries
<1>4. ASSUME ~BeginSeries(r), ~EnsureForNew(r), ~ReplaceSeries(r) PROVE UNCHANGED series
  BY <1>4 DEF RequestStep, Enter, SettingsStep, ReadSettings, WriteSettings, UpdateCompany,
       CreateCompany, ReadForTemplate, ApplyTemplate, CreateStarter, ReadAgain, WriteDefaults, CreateBom,
       UsersStep, ReadTarget, CountAdmins, SaveUser, CreateUser, BeginAi, ReadBilling, CheckRoom,
       Answer, Record
<1> QED BY <1>2, <1>3, <1>4

LEMMA SeriesSeeded ==
  ASSUME DOMAIN series \subseteq ToSet(Series), SeedStep
  PROVE  DOMAIN series' \subseteq ToSet(Series) /\ DOMAIN series \subseteq DOMAIN series'
<1>1. CASE SeedSeries
  <2>1. CASE UNCHANGED series
    BY <2>1
  <2>2. CASE \E t \in ToSet(Series) : series' = SetAt(series, t, SeriesDefault)
    BY <2>2 DEF SetAt
  <2> QED BY <1>1, <2>1, <2>2 DEF SeedSeries
<1>2. CASE ~SeedSeries
  BY <1>2 DEF SeedStep, StartSeed, ClearRole, Grant, SeedPlatform, SeedCompany, SeedAdmin,
       SeedItems, Finish, CutOffSeed
<1> QED BY <1>1, <1>2

LEMMA ReadStays ==
  ASSUME JobsOk, NEW q \in Req, ReadOk(q), job'[q] = job[q], starter \subseteq starter',
         \A x \in User : user[x].status # "none" => user'[x].status # "none"
  PROVE  ReadOk(q)'
<1> DEFINE items == StarterItems(CallOf(q).template)
<1>1. job'[q].at \in Writing => SettingsIn(job'[q].saw, starter')
  BY DEF ReadOk, Saw, SettingsIn
<1>2. job'[q].at \in {"countAdmins", "saveUser"} => user'[job'[q].call.target].status # "none"
  <2> SUFFICES ASSUME job[q].at \in {"countAdmins", "saveUser"} PROVE user'[CallOf(q).target].status # "none"
    BY DEF CallOf
  <2>1. job[q].at \in Places
    BY DEF Places, Saving
  <2>2. CallOf(q).target \in User
    BY <2>1, PlaceOk DEF JobOk, Fits, CallOf, CallOk, Saving
  <2> QED BY <2>2 DEF ReadOk
<1>3. job'[q].at = "starter" =>
        job'[q].pos \in 1..Len(items) /\ \A i \in 1..(job'[q].pos - 1) : items[i] \in starter'
  BY DEF ReadOk, At, Pos
<1>4. job'[q].at \in {"again", "defaults", "bom"} => ToSet(items) \subseteq starter'
  BY DEF ReadOk
<1> QED BY <1>1, <1>2, <1>3, <1>4 DEF ReadOk, Saw, CallOf, At, Pos

LEMMA OwnRead ==
  ASSUME JobsOk, Typed, NEW r \in Req, RequestStep(r)
  PROVE  ReadOk(r)'
<1> DEFINE items == StarterItems(CallOf(r).template)
           Busy == Writing \cup {"countAdmins", "saveUser", "starter", "again", "bom"}
           Goal == ReadOk(r)'
<1>1. ReadOk(r) /\ user \in [User -> UserRow]
  BY DEF Typed, RowsOk
<1>2. \A x \in User : user[x].status # "none" => user'[x].status # "none"
  BY <1>1, UserTyped
<1>3. starter \subseteq starter'
  BY StarterGrows
<1>4. ASSUME job'[r].at \notin Busy PROVE Goal
  BY <1>4 DEF ReadOk, Writing, At
<1>5. ASSUME UNCHANGED job PROVE Goal
  BY <1>1, <1>2, <1>3, <1>5, ReadStays
<1>6. ASSUME EndsBadly(r) \/ EndsWell(r) PROVE Goal
  BY <1>4, <1>6 DEF EndsBadly, EndsWell, Writing
<1>7. ASSUME NEW p, p \notin Busy, NEW STATE x, NEW STATE n, Moves(r, p, x, n) PROVE Goal
  BY <1>4, <1>7 DEF Moves
<1>8. ASSUME NEW p \in Applying, At(r, p) PROVE Exists /\ CallOf(r).template \in TemplateCode
  <2>1. job[r].at \in Places
    BY <1>8 DEF At, Places, Creating
  <2>2. CallOf(r).template \in TemplateCode
    BY <1>8, <2>1, PlaceOk DEF JobOk, Fits, At, CallOf, CallOk, TemplateCode, Creating
  <2>3. p \notin {"waiting", "refused", "create", "company", "billing"}
    BY <1>8 DEF Applying
  <2> QED BY <1>8, <2>2, <2>3 DEF Typed, CompanyOk, AbsentOk, At
<1>9. ASSUME Moves(r, "write", Settings, Pos(r)), Exists PROVE Goal
  <2>1. SettingsIn(Settings, starter')
    BY <1>3, <1>9 DEF Typed, CompanyOk, PresentOk, SettingsIn
  <2> QED BY <1>9, <2>1 DEF ReadOk, Moves, Saw, At, Writing
<1>10. ASSUME ReadForTemplate(r) PROVE Goal
  <2>1. At(r, "template") /\ Moves(r, "applyTemplate", Settings, Pos(r))
    BY <1>10, ReadForTemplateMoves
  <2>2. SettingsIn(Settings, starter')
    BY <1>3, <1>8, <2>1 DEF Typed, CompanyOk, PresentOk, SettingsIn, Applying
  <2> QED BY <2>1, <2>2 DEF ReadOk, Moves, Saw, At, Writing
<1>11. ASSUME ApplyTemplate(r) PROVE Goal
  <2>1. At(r, "applyTemplate") /\ Moves(r, "starter", Saw(r), Pos(r))
    BY <1>11, ApplyTemplateMoves
  <2>2. Pos(r) = 1
    <3>1. job[r].at \in Places
      BY <2>1 DEF At, Places, Creating, Applying
    <3> QED BY <2>1, <3>1, PlaceOk DEF JobOk, Fits, At, Pos
  <2>3. Len(items) \in Nat \ {0}
    BY <1>8, <2>1, TemplateItems DEF Applying
  <2>4. job'[r].at = "starter" /\ job'[r].pos = 1 /\ job'[r].call = CallOf(r)
    BY <2>1, <2>2 DEF Moves, CallOf
  <2> HIDE DEF items
  <2>5. 1 \in 1..Len(items) /\ \A i \in 1..(1 - 1) : items[i] \in starter'
    BY <2>3
  <2> QED BY <2>4, <2>5 DEF ReadOk, CallOf, Pos, At, Writing, items
<1>12. ASSUME CreateStarter(r) PROVE Goal
  <2>1. At(r, "starter") /\ starter' = starter \cup {items[Pos(r)]}
    BY <1>12 DEF CreateStarter
  <2>2. Len(items) \in Nat \ {0} /\ ToSet(items) = {items[i] : i \in 1..Len(items)}
    BY <1>8, <2>1, TemplateItems DEF Applying
  <2>3. Pos(r) \in 1..Len(items) /\ \A i \in 1..(Pos(r) - 1) : items[i] \in starter
    BY <1>1, <2>1 DEF ReadOk
  <2> DEFINE n == Pos(r)
  <2> HIDE DEF items, n
  <2>4. \A i \in 1..n : items[i] \in starter'
    <3>1. n \in Nat
      BY <2>2, <2>3 DEF n
    <3>2. \A i \in 1..n : i = n \/ i \in 1..(n - 1)
      BY <3>1
    <3> QED BY <2>1, <2>3, <3>2 DEF n
  <2>5. CASE n = Len(items) /\ Moves(r, "again", Saw(r), n)
    <3>1. ToSet(items) \subseteq starter'
      BY <2>2, <2>4, <2>5
    <3>2. job'[r].at = "again" /\ job'[r].call = CallOf(r)
      BY <2>5 DEF Moves, CallOf
    <3> QED BY <3>1, <3>2 DEF ReadOk, CallOf, At, Writing, items
  <2>6. CASE n # Len(items) /\ Moves(r, "starter", Saw(r), n + 1)
    <3>1. job'[r].at = "starter" /\ job'[r].pos = n + 1 /\ job'[r].call = CallOf(r)
      BY <2>6 DEF Moves, CallOf
    <3>2. n + 1 \in 1..Len(items) /\ (n + 1) - 1 = n
      BY <2>2, <2>3, <2>6 DEF n
    <3> QED BY <2>4, <3>1, <3>2 DEF ReadOk, CallOf, Pos, At, Writing, items
  <2> QED BY <1>12, <2>5, <2>6, CreateStarterMoves DEF n, items
<1>13. ASSUME ReadAgain(r) PROVE Goal
  <2>1. At(r, "again") /\ Moves(r, "defaults", Settings, Pos(r))
    BY <1>13, ReadAgainMoves
  <2>2. SettingsIn(Settings, starter')
    BY <1>3, <1>8, <2>1 DEF Typed, CompanyOk, PresentOk, SettingsIn, Applying
  <2>3. ToSet(items) \subseteq starter'
    BY <1>1, <1>3, <2>1 DEF ReadOk, At
  <2>4. job'[r].at = "defaults" /\ job'[r].call = CallOf(r) /\ job'[r].saw = Settings
    BY <2>1 DEF Moves, CallOf
  <2> HIDE DEF items
  <2> QED BY <2>2, <2>3, <2>4 DEF ReadOk, CallOf, Saw, At, Writing, items
<1>14. ASSUME WriteDefaults(r) PROVE Goal
  <2>1. At(r, "defaults") /\ Moves(r, "bom", Saw(r), Pos(r))
    BY <1>14, WriteDefaultsMoves
  <2>2. ToSet(items) \subseteq starter'
    BY <1>1, <1>3, <2>1 DEF ReadOk, At
  <2>3. job'[r].at = "bom" /\ job'[r].call = CallOf(r)
    BY <2>1 DEF Moves, CallOf
  <2> HIDE DEF items
  <2> QED BY <2>2, <2>3 DEF ReadOk, CallOf, At, Writing, items
<1>15. ASSUME NEW p \in {"countAdmins", "saveUser"}, NEW STATE x, NEW STATE n, Moves(r, p, x, n),
              user'[CallOf(r).target].status # "none"
       PROVE  Goal
  BY <1>15 DEF ReadOk, Moves, CallOf, At, Writing
<1>16. ASSUME ReadTarget(r) PROVE Goal
  BY <1>6, <1>15, <1>16, ReadTargetMoves DEF ReadTarget
<1>17. ASSUME CountAdmins(r) PROVE Goal
  <2>1. user'[CallOf(r).target].status # "none"
    BY <1>1, <1>17 DEF CountAdmins, ReadOk, At
  <2> QED BY <1>6, <1>15, <1>17, <2>1, CountAdminsMoves
<1> HIDE DEF Goal
<1>18. ASSUME ReadSettings(r) PROVE Goal
  BY <1>6, <1>9, <1>18, ReadSettingsMoves
<1>19. ASSUME WriteSettings(r) \/ UpdateCompany(r) \/ CreateBom(r) \/ SaveUser(r) \/ Record(r) PROVE Goal
  BY <1>6, <1>19, WriteSettingsMoves, UpdateCompanyMoves, CreateBomMoves, SaveUserMoves, RecordMoves
<1>20. \A p \in {"items", "ensure", "template", "bill", "room", "provider", "record"} : p \notin Busy
  BY DEF Writing
<1>21. \A c : CallOk(c) => c.op \notin Busy
  BY DEF Writing, CallOk
<1> HIDE DEF Busy
<1>22. ASSUME Enter(r) PROVE Goal
  <2>1. ASSUME Moves(r, CallOf(r).op, Empty, 1), CallOk(CallOf(r)) PROVE Goal
    BY <1>7, <1>21, <2>1
  <2> QED BY <1>6, <1>22, <2>1, EnterMoves
<1>23. ASSUME BeginSeries(r) PROVE Goal
  BY <1>5, <1>7, <1>20, <1>23, BeginSeriesMoves
<1>24. ASSUME ReplaceSeries(r) PROVE Goal
  BY <1>6, <1>7, <1>20, <1>24, ReplaceSeriesMoves
<1>25. ASSUME CreateCompany(r) PROVE Goal
  BY <1>6, <1>7, <1>20, <1>25, CreateCompanyMoves
<1>26. ASSUME EnsureForNew(r) PROVE Goal
  BY <1>5, <1>6, <1>7, <1>20, <1>26, EnsureForNewMoves
<1>27. ASSUME CreateUser(r) \/ BeginAi(r) PROVE Goal
  BY <1>6, <1>7, <1>20, <1>27, CreateUserMoves, BeginAiMoves
<1>28. ASSUME ReadBilling(r) PROVE Goal
  BY <1>7, <1>20, <1>28, ReadBillingMoves
<1>29. ASSUME CheckRoom(r) PROVE Goal
  BY <1>6, <1>7, <1>20, <1>29, CheckRoomMoves
<1>30. ASSUME Answer(r) PROVE Goal
  <2>1. PICK n \in Units : Moves(r, "bill", Saw(r), n + 1)
    BY <1>30, AnswerMoves
  <2>2. job'[r].at = "bill"
    BY <2>1 DEF Moves
  <2> QED BY <1>4, <1>20, <2>2
<1>31. Goal
  BY <1>10, <1>11, <1>12, <1>13, <1>14, <1>16, <1>17, <1>18, <1>19, <1>22, <1>23, <1>24, <1>25, <1>26,
     <1>27, <1>28, <1>29, <1>30 DEF RequestStep, SettingsStep, UsersStep
<1> QED BY <1>31 DEF Goal

----------------------------------------------------------------------------
(* The administrators. *)

Raced == \E r \in Req : At(r, "done") /\ job[r].raced

\* What r was told when it looked still holds, as far as it depends on accounts
\* that nobody has changed since: its change leaves an administrator.
SafeToSave(r) ==
  LET c == CallOf(r) IN
  At(r, "saveUser") /\ missed[r] \cap User \subseteq {c.target} =>
    \/ OtherAdmins(c.target) # {}
    \/ Raced
    \/ c.target \in ActiveAdmins /\ ~Demotes(c) /\ ~Deactivates(c)

AdminsOk == AdminRemains /\ \A r \in Req : SafeToSave(r)

\* What others have written since r last read has overwritten what r has written.
Observed ==
  /\ DOMAIN missed = Req /\ DOMAIN later = Req
  /\ \A r \in Req : Underway(r) => missed[r] \subseteq later[r]

LEMMA NotEnded == ASSUME NEW r \in Req, RequestStep(r) PROVE job[r].at \notin {"done", "refused"}
BY DEF RequestStep, SettingsStep, ReadSettings, WriteSettings, UpdateCompany, BeginSeries, ReplaceSeries,
       CreateCompany, EnsureForNew, ReadForTemplate, ApplyTemplate, CreateStarter, ReadAgain, WriteDefaults,
       CreateBom, UsersStep, ReadTarget, CountAdmins, SaveUser, CreateUser, BeginAi, ReadBilling, CheckRoom,
       Answer, Record, Enter, At

LEMMA AtWork ==
  ASSUME NEW r \in Req, RequestStep(r), ~Enter(r)
  PROVE  Underway(r)
BY DEF RequestStep, SettingsStep, ReadSettings, WriteSettings, UpdateCompany, BeginSeries, ReplaceSeries,
       CreateCompany, EnsureForNew, ReadForTemplate, ApplyTemplate, CreateStarter, ReadAgain, WriteDefaults,
       CreateBom, UsersStep, ReadTarget, CountAdmins, SaveUser, CreateUser, BeginAi, ReadBilling, CheckRoom,
       Answer, Record, At, Underway

\* What a step leaves of what q has missed, and of what was overwritten.
StillMissed(q) ==
  /\ Underway(q) => missed[q] \subseteq missed'[q]
  /\ Watched(q) => later[q] \subseteq later'[q]

LEMMA Misses ==
  ASSUME JobsOk, Observed, NEW r \in Req, RequestStep(r)
  PROVE  Observed' /\ \A q \in Req \ {r} : StillMissed(q)
<1> DEFINE Goal == Observed' /\ \A q \in Req \ {r} : StillMissed(q)
<1>1. \A q \in Req \ {r} : Underway(q)' <=> Underway(q)
  BY JobsStep DEF Underway, OthersStay
<1>2. ASSUME Unobserved, ~Enter(r) PROVE Goal
  <2>1. Underway(r)
    BY <1>2, AtWork
  <2> QED BY <1>1, <1>2, <2>1 DEF Unobserved, Observed, StillMissed
<1>3. ASSUME HasRead(r) PROVE Goal
  BY <1>1, <1>3 DEF HasRead, Observed, StillMissed
<1>4. ASSUME NEW STATE S, NEW STATE U, Rewrote(r, S, U) PROVE Goal
  <2>1. \A q \in Req \ {r} :
          /\ Underway(q) => missed'[q] = missed[q] \cup S \cup U
          /\ Watched(q) => later'[q] = later[q] \cup S \cup U
    BY <1>4 DEF Rewrote
  <2>2. missed'[r] = {} /\ DOMAIN missed' = Req /\ DOMAIN later' = Req
    BY <1>4 DEF Rewrote
  <2>3. \A q \in Req : Underway(q) => Watched(q)
    BY DEF Watched
  <2> QED BY <1>1, <2>1, <2>2, <2>3 DEF Observed, StillMissed
<1>5. ASSUME Enter(r) PROVE Goal
  BY <1>1, <1>5 DEF Enter, Observed, StillMissed
<1> HIDE DEF Goal
<1>6. ASSUME NEW STATE S, Wrote(r, S) PROVE Goal
  BY <1>4, <1>6 DEF Wrote
<1>7. ASSUME NEW STATE p, NEW STATE S, Rewritten(r, p, S) PROVE Goal
  BY <1>4, <1>7 DEF Rewritten
<1>8. SUFFICES ASSUME ~Enter(r) PROVE Goal
  BY <1>5 DEF Goal
<1>9. ASSUME NEW STATE next, EnsureSeries(r, next) PROVE Goal
  BY <1>2, <1>6, <1>8, <1>9 DEF EnsureSeries
<1>10. ASSUME ReadSettings(r) \/ ReadForTemplate(r) \/ ReadAgain(r) \/ ReadTarget(r) PROVE Goal
  BY <1>3, <1>10 DEF ReadSettings, ReadForTemplate, ReadAgain, Refreshes, ReadTarget
<1>11. ASSUME WriteSettings(r) \/ ApplyTemplate(r) \/ WriteDefaults(r) PROVE Goal
  BY <1>2, <1>7, <1>8, <1>11 DEF WriteSettings, ApplyTemplate, WriteDefaults
<1>12. ASSUME UpdateCompany(r) \/ ReplaceSeries(r) \/ CreateCompany(r) \/ SaveUser(r) \/ CreateUser(r)
       PROVE  Goal
  BY <1>2, <1>6, <1>8, <1>12 DEF UpdateCompany, ReplaceSeries, CreateCompany, SaveUser, CreateUser
<1>13. ASSUME BeginSeries(r) \/ EnsureForNew(r) PROVE Goal
  BY <1>9, <1>13 DEF BeginSeries, EnsureForNew
<1>14. ASSUME CreateStarter(r) \/ CreateBom(r) \/ CountAdmins(r) \/ BeginAi(r) \/ ReadBilling(r)
                \/ CheckRoom(r) \/ Answer(r) \/ Record(r)
       PROVE  Goal
  BY <1>2, <1>8, <1>14 DEF CreateStarter, CreateBom, CountAdmins, BeginAi, ReadBilling, CheckRoom, Answer,
       Record
<1> QED BY <1>8, <1>10, <1>11, <1>12, <1>13, <1>14 DEF RequestStep, SettingsStep, UsersStep

LEMMA SeedMisses ==
  ASSUME Observed, SeedStep
  PROVE  Observed' /\ \A q \in Req : StillMissed(q)
<1> DEFINE Goal == Observed' /\ \A q \in Req : StillMissed(q)
<1>1. \A q \in Req : Underway(q)' <=> Underway(q)
  BY DEF Underway, SeedStep, StartSeed, ClearRole, Grant, SeedPlatform, SeedCompany, SeedSeries, SeedAdmin,
       SeedItems, Finish, CutOffSeed
<1>2. ASSUME Unobserved PROVE Goal
  BY <1>1, <1>2 DEF Unobserved, Observed, StillMissed
<1>3. ASSUME NEW STATE S, SeedWrote(S) PROVE Goal
  BY <1>1, <1>3 DEF SeedWrote, Observed, StillMissed, Watched
<1> HIDE DEF Goal
<1>4. Goal
  BY <1>2, <1>3 DEF SeedStep, StartSeed, ClearRole, Grant, SeedPlatform, SeedCompany, SeedSeries, SeedAdmin,
       SeedItems, Finish, CutOffSeed
<1> QED BY <1>4 DEF Goal

LEMMA RacedStays == ASSUME JobsOk, Raced, NEW r \in Req, RequestStep(r) PROVE Raced'
<1>1. PICK q \in Req : At(q, "done") /\ job[q].raced
  BY DEF Raced
<1>2. job'[q] = job[q]
  BY <1>1, JobsStep, NotEnded DEF At, OthersStay
<1> QED BY <1>1, <1>2 DEF Raced, At

AdminRow(x) == x.status = "active" /\ "COMPANY_ADMIN" \in x.roles

\* One account changes: the administrators that are not it are the same.
LEMMA OneChanges ==
  ASSUME user \in [User -> UserRow], NEW u \in User, NEW x, user' = [user EXCEPT ![u] = x]
  PROVE  /\ \A v \in User \ {u} : v \in ActiveAdmins' <=> v \in ActiveAdmins
         /\ AdminRow(x) => u \in ActiveAdmins'
BY DEF ActiveAdmins, IsAdmin, AdminRow

\* A change of user u that leaves an administrator, or a race: whoever saves the
\* same account later is as safe as before, and whoever saves another has missed it.
LEMMA AdminsAfter ==
  ASSUME JobsOk, Typed, Observed, AdminsOk, NEW u \in User, NEW x, user' = [user EXCEPT ![u] = x],
         AdminRemains', Exists', Raced => Raced',
         NEW q \in Req, job'[q] = job[q],
         Underway(q) => missed[q] \cup {u} \subseteq missed'[q]
  PROVE  SafeToSave(q)'
<1>1. PICK t : t = CallOf(q).target
  OBVIOUS
<1>2. SUFFICES ASSUME job[q].at = "saveUser", missed'[q] \cap User \subseteq {t}
               PROVE  \/ ActiveAdmins' \ {t} # {}
                      \/ Raced'
                      \/ t \in ActiveAdmins' /\ ~Demotes(CallOf(q)) /\ ~Deactivates(CallOf(q))
  BY <1>1 DEF SafeToSave, At, CallOf, OtherAdmins
<1>3. u = t /\ missed[q] \cap User \subseteq {t}
  BY <1>2 DEF Underway
<1>4. \/ ActiveAdmins \ {t} # {}
      \/ Raced
      \/ t \in ActiveAdmins /\ ~Demotes(CallOf(q)) /\ ~Deactivates(CallOf(q))
  BY <1>1, <1>2, <1>3 DEF AdminsOk, SafeToSave, At, OtherAdmins
<1>5. \A v \in User \ {u} : v \in ActiveAdmins' <=> v \in ActiveAdmins
  BY OneChanges DEF Typed, RowsOk
<1>6. CASE ActiveAdmins \ {t} # {}
  BY <1>3, <1>5, <1>6 DEF ActiveAdmins
<1>7. CASE Raced
  BY <1>7
<1>8. CASE t \in ActiveAdmins /\ ~Demotes(CallOf(q)) /\ ~Deactivates(CallOf(q))
  <2>1. ActiveAdmins' # {} \/ Raced'
    BY DEF AdminRemains, Raced
  <2> QED BY <1>8, <2>1
<1> QED BY <1>4, <1>6, <1>7, <1>8

\* Accounts that nobody touches, and a request that does not come to save one.
LEMMA AdminsSame ==
  ASSUME JobsOk, Typed, AdminsOk, UNCHANGED user, NEW q \in Req, job'[q] = job[q], Raced => Raced',
         Underway(q) => missed[q] \subseteq missed'[q]
  PROVE  SafeToSave(q)'
<1>1. PICK t : t = CallOf(q).target
  OBVIOUS
<1>2. ActiveAdmins' = ActiveAdmins
  BY DEF ActiveAdmins, IsAdmin
<1>3. SUFFICES ASSUME job[q].at = "saveUser", missed'[q] \cap User \subseteq {t}
               PROVE  \/ ActiveAdmins \ {t} # {}
                      \/ Raced'
                      \/ t \in ActiveAdmins /\ ~Demotes(CallOf(q)) /\ ~Deactivates(CallOf(q))
  BY <1>1, <1>2 DEF SafeToSave, At, CallOf, OtherAdmins
<1>4. missed[q] \cap User \subseteq {t}
  BY <1>3 DEF Underway
<1> QED BY <1>1, <1>3, <1>4 DEF AdminsOk, SafeToSave, At, OtherAdmins

LEMMA AdminRemainsSame ==
  ASSUME AdminRemains, UNCHANGED user, Exists' => Exists, Raced => Raced'
  PROVE  AdminRemains'
<1>1. ActiveAdmins' = ActiveAdmins
  BY DEF ActiveAdmins, IsAdmin
<1> QED BY <1>1 DEF AdminRemains, Raced

LEMMA ComesToSave ==
  ASSUME JobsOk, NEW r \in Req, RequestStep(r), job'[r].at = "saveUser"
  PROVE  ReadTarget(r) \/ CountAdmins(r)
<1> DEFINE Goal == job'[r].at # "saveUser"
<1>1. ASSUME EndsWell(r) \/ EndsBadly(r) PROVE Goal
  BY <1>1 DEF EndsWell, EndsBadly
<1>2. ASSUME NEW p, p # "saveUser", NEW STATE x, NEW STATE n, Moves(r, p, x, n) PROVE Goal
  BY <1>2 DEF Moves
<1>3. ASSUME UNCHANGED job, ~At(r, "saveUser") PROVE Goal
  BY <1>3 DEF At
<1> HIDE DEF Goal
<1>4. ASSUME Enter(r) PROVE Goal
  <2>1. ASSUME Moves(r, CallOf(r).op, Empty, 1), CallOk(CallOf(r)) PROVE Goal
    <3>1. CallOf(r).op # "saveUser"
      BY <2>1 DEF CallOk
    <3> QED BY <1>2, <2>1, <3>1
  <2> QED BY <1>1, <1>4, <2>1, EnterMoves
<1>5. ASSUME ReadSettings(r) PROVE Goal
  BY <1>1, <1>2, <1>5, ReadSettingsMoves
<1>6. ASSUME WriteSettings(r) \/ UpdateCompany(r) \/ CreateBom(r) \/ SaveUser(r) \/ Record(r) PROVE Goal
  BY <1>1, <1>6, WriteSettingsMoves, UpdateCompanyMoves, CreateBomMoves, SaveUserMoves, RecordMoves
<1>7. ASSUME BeginSeries(r) \/ EnsureForNew(r) PROVE Goal
  BY <1>1, <1>2, <1>3, <1>7, BeginSeriesMoves, EnsureForNewMoves DEF At
<1>8. ASSUME ReplaceSeries(r) PROVE Goal
  BY <1>1, <1>2, <1>8, ReplaceSeriesMoves
<1>9. ASSUME CreateCompany(r) PROVE Goal
  BY <1>1, <1>2, <1>9, CreateCompanyMoves
<1>10. ASSUME ReadForTemplate(r) \/ ApplyTemplate(r) \/ ReadAgain(r) \/ WriteDefaults(r) PROVE Goal
  BY <1>2, <1>10, ReadForTemplateMoves, ApplyTemplateMoves, ReadAgainMoves, WriteDefaultsMoves
<1>11. ASSUME CreateStarter(r) PROVE Goal
  BY <1>2, <1>11, CreateStarterMoves
<1>12. ASSUME CreateUser(r) \/ BeginAi(r) PROVE Goal
  BY <1>1, <1>2, <1>12, CreateUserMoves, BeginAiMoves
<1>13. ASSUME ReadBilling(r) PROVE Goal
  BY <1>2, <1>13, ReadBillingMoves
<1>14. ASSUME CheckRoom(r) PROVE Goal
  BY <1>1, <1>2, <1>14, CheckRoomMoves
<1>15. ASSUME Answer(r) PROVE Goal
  <2>1. PICK n \in Units : Moves(r, "bill", Saw(r), n + 1)
    BY <1>15, AnswerMoves
  <2> QED BY <2>1 DEF Moves, Goal
<1> QED BY <1>4, <1>5, <1>6, <1>7, <1>8, <1>9, <1>10, <1>11, <1>12, <1>13, <1>14, <1>15
        DEF RequestStep, SettingsStep, UsersStep, Goal

\* What the writers of accounts write.
LEMMA SavedWrites ==
  ASSUME JobsOk, Typed, NEW r \in Req, SaveUser(r)
  PROVE  LET c == CallOf(r) IN
         /\ c.target \in User /\ CallOk(c)
         /\ user' = [user EXCEPT ![c.target] = Saved(user[c.target], c)] /\ Wrote(r, {c.target})
         /\ AdminRow(user[c.target]) /\ ~Demotes(c) /\ ~Deactivates(c) => AdminRow(Saved(user[c.target], c))
<1>1. At(r, "saveUser") /\ job[r].at \in Places
  BY DEF SaveUser, At, Places, Saving
<1>2. CallOf(r).target \in User /\ CallOk(CallOf(r)) /\ CallOf(r).op = "updateUser"
  BY <1>1, PlaceOk DEF JobOk, Fits, At, CallOk, CallOf, Saving
<1> QED BY <1>2 DEF SaveUser, Saved, GivenRoles, AdminRow, Demotes, Deactivates, CallOf

LEMMA AdminsRequest ==
  ASSUME JobsOk, Typed, Observed, AdminsOk, NEW r \in Req, RequestStep(r)
  PROVE  AdminsOk'
<1>1. Raced => Raced'
  BY RacedStays
<1>2. \A q \in Req \ {r} : Underway(q) => missed[q] \subseteq missed'[q]
  BY Misses DEF StillMissed
<1>3. \A q \in Req \ {r} : job'[q] = job[q]
  BY JobsStep DEF OthersStay
<1>4. AdminRemains
  BY DEF AdminsOk
<1>5. CASE UNCHANGED user /\ (Exists' => Exists)
  <2>1. \A q \in Req \ {r} : SafeToSave(q)'
    BY <1>1, <1>2, <1>3, <1>5, AdminsSame
  <2>2. AdminRemains'
    BY <1>1, <1>4, <1>5, AdminRemainsSame
  <2>3. ActiveAdmins' = ActiveAdmins
    BY <1>5 DEF ActiveAdmins, IsAdmin
  <2>4. ASSUME ReadTarget(r), job'[r].at = "saveUser" PROVE SafeToSave(r)'
    <3> DEFINE c == CallOf(r)
    <3>1. At(r, "updateUser") /\ ~(c.target \in ActiveAdmins /\ (Demotes(c) \/ Deactivates(c)))
      BY <2>4, ReadTargetMoves DEF Moves, EndsBadly
    <3>2. job'[r].call = c
      BY <2>4, ReadTargetMoves DEF Moves, EndsBadly, CallOf
    <3>3. Exists
      BY <3>1 DEF Typed, CompanyOk, AbsentOk, At
    <3>4. c.target \in ActiveAdmins \/ ActiveAdmins \ {c.target} # {} \/ Raced
      BY <1>4, <3>3 DEF AdminRemains, Raced
    <3>5. PICK d : d = c
      OBVIOUS
    <3>6. /\ d.target \in ActiveAdmins \/ ActiveAdmins \ {d.target} # {} \/ Raced
          /\ ~(d.target \in ActiveAdmins /\ (Demotes(d) \/ Deactivates(d)))
          /\ CallOf(r)' = d
      BY <3>1, <3>2, <3>4, <3>5 DEF CallOf
    <3> HIDE DEF c
    <3> QED BY <1>1, <2>3, <3>6 DEF SafeToSave, OtherAdmins
  <2>5. ASSUME CountAdmins(r), job'[r].at = "saveUser" PROVE SafeToSave(r)'
    <3>1. OtherAdmins(CallOf(r).target) # {} /\ job'[r].call = CallOf(r)
      BY <2>5, CountAdminsMoves DEF Moves, EndsBadly, CallOf
    <3>2. PICK t : t = CallOf(r).target /\ t = job'[r].call.target
      BY <3>1
    <3>3. OtherAdmins(t) # {}
      BY <3>1, <3>2
    <3> QED BY <2>3, <3>2, <3>3 DEF SafeToSave, OtherAdmins, CallOf
  <2>6. SafeToSave(r)'
    BY <2>4, <2>5, ComesToSave DEF SafeToSave, At
  <2> QED BY <2>1, <2>2, <2>6 DEF AdminsOk
<1>6. ASSUME NEW u \in User, NEW x, user' = [user EXCEPT ![u] = x], NEW STATE S, u \in S, Wrote(r, S),
             AdminRemains', Exists', job'[r].at # "saveUser"
      PROVE  AdminsOk'
  <2>1. \A q \in Req \ {r} : Underway(q) => missed[q] \cup {u} \subseteq missed'[q]
    BY <1>6 DEF Wrote, Rewrote
  <2>2. \A q \in Req \ {r} : SafeToSave(q)'
    BY <1>1, <1>3, <1>6, <2>1, AdminsAfter
  <2>3. SafeToSave(r)'
    BY <1>6 DEF SafeToSave, At
  <2> QED BY <1>6, <2>2, <2>3 DEF AdminsOk
<1>7. user \in [User -> UserRow]
  BY DEF Typed, RowsOk
<1>8. Exists => Exists'
  BY PresentRequest
<1>9. CASE SaveUser(r)
  <2>1. PICK c : c = CallOf(r)
    OBVIOUS
  <2>2. PICK u \in User : u = c.target
    BY <1>9, <2>1, SavedWrites
  <2>3. PICK x : x = Saved(user[u], c)
    OBVIOUS
  <2>4. /\ user' = [user EXCEPT ![u] = x] /\ Wrote(r, {u})
        /\ AdminRow(user[u]) /\ ~Demotes(c) /\ ~Deactivates(c) => AdminRow(x)
    BY <1>9, <2>1, <2>2, <2>3, SavedWrites
  <2>5. Exists /\ At(r, "saveUser")
    BY <1>9 DEF SaveUser, Typed, CompanyOk, AbsentOk, At
  <2>6. job'[r].at = "done" /\ (job'[r].raced <=> (missed[r] \cap User) \ {u} # {})
    BY <1>9, <2>1, <2>2, SaveUserMoves DEF EndsWell
  <2>7. /\ \A v \in User \ {u} : v \in ActiveAdmins' <=> v \in ActiveAdmins
        /\ AdminRow(x) => u \in ActiveAdmins'
    BY <1>7, <2>4, OneChanges
  <2>8. ActiveAdmins' # {} \/ Raced'
    <3>1. CASE (missed[r] \cap User) \ {u} # {}
      BY <2>6, <3>1 DEF Raced, At
    <3>2. CASE (missed[r] \cap User) \ {u} = {}
      <4>1. OtherAdmins(u) # {} \/ Raced \/ (u \in ActiveAdmins /\ ~Demotes(c) /\ ~Deactivates(c))
        BY <2>1, <2>2, <2>5, <3>2 DEF AdminsOk, SafeToSave
      <4>2. OtherAdmins(u) # {} => ActiveAdmins' # {}
        BY <2>7 DEF OtherAdmins, ActiveAdmins
      <4>3. u \in ActiveAdmins => AdminRow(user[u])
        BY DEF ActiveAdmins, IsAdmin, AdminRow
      <4> QED BY <1>1, <2>4, <2>7, <4>1, <4>2, <4>3
    <3> QED BY <3>1, <3>2
  <2>9. AdminRemains'
    BY <2>8 DEF AdminRemains, Raced
  <2> QED BY <1>6, <1>8, <2>4, <2>5, <2>6, <2>9
<1>10. CASE CreateUser(r) /\ ~UNCHANGED user
  <2>1. At(r, "createUser") /\ job[r].at \in Places /\ Exists
    BY <1>10 DEF CreateUser, At, Places, Typed, CompanyOk, AbsentOk
  <2>2. PICK u \in User : u = CallOf(r).target
    BY <2>1, PlaceOk DEF JobOk, Fits, At, CallOk, CallOf
  <2>3. PICK x : user' = [user EXCEPT ![u] = x]
    BY <1>10, <2>2 DEF CreateUser
  <2>4. user[u] = NoUser /\ Wrote(r, {u})
    BY <1>10, <2>2 DEF CreateUser
  <2>5. u \notin ActiveAdmins
    BY <2>4 DEF ActiveAdmins, NoUser
  <2>6. ActiveAdmins \subseteq ActiveAdmins'
    <3>1. \A v \in User \ {u} : v \in ActiveAdmins' <=> v \in ActiveAdmins
      BY <1>7, <2>3, OneChanges
    <3> QED BY <2>5, <3>1 DEF ActiveAdmins
  <2>7. AdminRemains'
    BY <1>1, <1>4, <2>1, <2>6 DEF AdminRemains, Raced
  <2>8. job'[r].at # "saveUser"
    BY <1>10, ComesToSave, <2>1 DEF ReadTarget, CountAdmins, At
  <2> QED BY <1>6, <1>8, <2>1, <2>3, <2>4, <2>7, <2>8
<1>11. CASE CreateCompany(r) /\ ~(UNCHANGED user /\ (Exists' => Exists))
  <2>1. At(r, "create") /\ job[r].at \in Places
    BY <1>11 DEF CreateCompany, At, Places, Creating
  <2>2. CallOf(r).admin \in User /\ CallOf(r).slug # "none"
    BY <2>1, PlaceOk DEF JobOk, Fits, At, CallOk, CallOf, Creating
  <2>3. PICK u \in User : u = CallOf(r).admin
    BY <2>2
  <2>4. /\ user' = [user EXCEPT ![u] = NewUser("COMPANY_ADMIN")]
        /\ tenant'.slug = CallOf(r).slug /\ Wrote(r, {CallOf(r).admin, "modules", "status"})
    BY <1>11, <2>3 DEF CreateCompany, Exists
  <2>5. Exists'
    BY <2>2, <2>4 DEF Exists
  <2>6. AdminRow(NewUser("COMPANY_ADMIN"))
    BY DEF AdminRow, NewUser
  <2>7. u \in ActiveAdmins'
    BY <1>7, <2>4, <2>6, OneChanges
  <2>8. AdminRemains'
    BY <2>7 DEF AdminRemains
  <2>9. job'[r].at # "saveUser"
    BY <1>11, ComesToSave, <2>1 DEF ReadTarget, CountAdmins, At
  <2> QED BY <1>6, <2>3, <2>4, <2>5, <2>8, <2>9
<1>12. CASE ~SaveUser(r) /\ ~CreateUser(r) /\ ~CreateCompany(r)
  <2>1. UNCHANGED user
    BY <1>12 DEF RequestStep, Enter, SettingsStep, ReadSettings, WriteSettings, UpdateCompany, BeginSeries,
       ReplaceSeries, EnsureForNew, ReadForTemplate, ApplyTemplate, CreateStarter, ReadAgain,
       WriteDefaults, CreateBom, UsersStep, ReadTarget, CountAdmins, BeginAi, ReadBilling, CheckRoom,
       Answer, Record
  <2>2. Exists' => Exists
    <3> SUFFICES ASSUME ~Exists PROVE ~Exists'
      OBVIOUS
    <3>1. job[r].at \in {"waiting", "refused", "create", "company", "billing"}
      BY DEF Typed, CompanyOk, AbsentOk
    <3>2. UNCHANGED tenant
      BY <1>12, <3>1 DEF RequestStep, Enter, SettingsStep, ReadSettings, WriteSettings, UpdateCompany,
         BeginSeries, ReplaceSeries, EnsureForNew, ReadForTemplate, ApplyTemplate, CreateStarter, ReadAgain,
         WriteDefaults, CreateBom, UsersStep, ReadTarget, CountAdmins, BeginAi, ReadBilling, CheckRoom,
         Answer, Record, At
    <3> QED BY <3>2 DEF Exists
  <2> QED BY <1>5, <2>1, <2>2
<1>13. CreateUser(r) => (Exists' => Exists)
  BY DEF CreateUser, Exists
<1> QED BY <1>5, <1>9, <1>10, <1>11, <1>12, <1>13

LEMMA AdminsSeeded ==
  ASSUME JobsOk, Typed, SeedShape, Observed, AdminsOk, SeedStep
  PROVE  AdminsOk'
<1>1. UNCHANGED job
  BY DEF SeedStep, StartSeed, ClearRole, Grant, SeedPlatform, SeedCompany, SeedSeries, SeedAdmin,
         SeedItems, Finish, CutOffSeed
<1>2. Raced => Raced'
  BY <1>1 DEF Raced, At
<1>3. Exists' => Exists
  <2> SUFFICES ASSUME ~Exists PROVE ~Exists'
    OBVIOUS
  <2>1. UNCHANGED tenant
    BY DEF Exists, SeedStep, StartSeed, ClearRole, Grant, SeedPlatform, SeedCompany, SeedSeries, SeedAdmin,
         SeedItems, Finish, CutOffSeed
  <2> QED BY <2>1 DEF Exists
<1>4. \A q \in Req : Underway(q) => missed[q] \subseteq missed'[q]
  BY SeedMisses DEF StillMissed
<1>5. AdminRemains
  BY DEF AdminsOk
<1>6. user \in [User -> UserRow]
  BY DEF Typed, RowsOk
<1>7. CASE UNCHANGED user
  BY <1>1, <1>2, <1>3, <1>4, <1>5, <1>7, AdminsSame, AdminRemainsSame DEF AdminsOk
<1>8. ASSUME NEW u \in User, NEW x, user' = [user EXCEPT ![u] = x], SeedWrote({u}),
             u \in ActiveAdmins => AdminRow(x)
      PROVE  AdminsOk'
  <2>1. /\ \A v \in User \ {u} : v \in ActiveAdmins' <=> v \in ActiveAdmins
        /\ AdminRow(x) => u \in ActiveAdmins'
    BY <1>6, <1>8, OneChanges
  <2>2. ActiveAdmins \subseteq ActiveAdmins'
    BY <1>8, <2>1 DEF ActiveAdmins
  <2>3. AdminRemains'
    BY <1>2, <1>3, <1>5, <2>2 DEF AdminRemains, Raced
  <2>4. \A q \in Req : Underway(q) => missed[q] \cup {u} \subseteq missed'[q]
    BY <1>8 DEF SeedWrote
  <2>5. \A q \in Req : SafeToSave(q)'
    <3>1. CASE Exists'
      BY <1>1, <1>2, <1>8, <2>3, <2>4, <3>1, AdminsAfter
    <3>2. CASE ~Exists'
      <4>1. ~Exists
        BY <3>2, CompanySeeded DEF Typed
      <4>2. \A q \in Req : job'[q].at # "saveUser"
        BY <1>1, <4>1 DEF Typed, CompanyOk, AbsentOk
      <4> QED BY <4>2 DEF SafeToSave, At
    <3> QED BY <3>1, <3>2
  <2> QED BY <2>3, <2>5 DEF AdminsOk
<1>9. \A u \in User : u \in ActiveAdmins => "COMPANY_ADMIN" \in RolesOf(u)
  BY DEF ActiveAdmins, IsAdmin, RolesOf, NoUser
<1>10. CASE SeedPlatform
  <2>1. PICK x : x = [status |-> "active", roles |-> RolesOf(Platform) \cup {"PLATFORM_SUPER_ADMIN"}]
    OBVIOUS
  <2>2. Platform \in ActiveAdmins => AdminRow(x)
    BY <1>9, <2>1, CompanyConstants DEF AdminRow
  <2>3. user' = [user EXCEPT ![Platform] = x] /\ SeedWrote({Platform})
    BY <1>10, <2>1 DEF SeedPlatform
  <2> QED BY <1>8, <2>2, <2>3, CompanyConstants
<1>11. CASE SeedAdmin
  <2>1. PICK x : x = [status |-> "active", roles |-> RolesOf(DemoAdmin) \cup {"COMPANY_ADMIN", "STORE_MANAGER"}]
    OBVIOUS
  <2>2. AdminRow(x)
    BY <2>1 DEF AdminRow
  <2>3. user' = [user EXCEPT ![DemoAdmin] = x] /\ SeedWrote({DemoAdmin})
    BY <1>11, <2>1 DEF SeedAdmin
  <2> QED BY <1>8, <2>2, <2>3, SeedConstants
<1>12. CASE ~SeedPlatform /\ ~SeedAdmin
  <2>1. UNCHANGED user
    BY <1>12 DEF SeedStep, StartSeed, ClearRole, Grant, SeedCompany, SeedSeries, SeedItems, Finish, CutOffSeed
  <2> QED BY <1>7, <2>1
<1> QED BY <1>10, <1>11, <1>12

LEMMA AdminsNext ==
  JobsOk /\ Typed /\ SeedShape /\ Observed /\ AdminsOk /\ [Next]_vars => Observed' /\ AdminsOk'
<1> SUFFICES ASSUME JobsOk, Typed, SeedShape, Observed, AdminsOk, [Next]_vars PROVE Observed' /\ AdminsOk'
  OBVIOUS
<1>1. CASE \E r \in Req : RequestStep(r)
  BY <1>1, Misses, AdminsRequest
<1>2. CASE SeedStep
  BY <1>2, SeedMisses, AdminsSeeded
<1>3. CASE (NewDay /\ UNCHANGED seed) \/ UNCHANGED vars
  <2>1. UNCHANGED <<tenant, user, job, missed, later>>
    BY <1>3 DEF NewDay, Unobserved, vars
  <2>2. (Raced => Raced') /\ (Exists' => Exists) /\ Observed'
    BY <2>1 DEF Raced, At, Exists, Observed, Underway
  <2>3. AdminRemains' /\ \A q \in Req : SafeToSave(q)'
    BY <2>1, <2>2, AdminsSame, AdminRemainsSame DEF AdminsOk
  <2> QED BY <2>2, <2>3 DEF AdminsOk
<1> QED BY <1>1, <1>2, <1>3 DEF Next

LEMMA AdminsInit == TenantInit => Observed /\ AdminsOk
<1> SUFFICES ASSUME TenantInit PROVE Observed /\ AdminsOk
  OBVIOUS
<1>1. PICK mix \in Mix0 : tenant = mix.tenant /\ job = [r \in Req |-> [at |-> "waiting", call |-> mix.call[r]]]
  BY DEF TenantInit
<1>2. ASSUME Exists PROVE ActiveAdmins # {}
  <2>1. HasAdmin(User0)
    BY <1>1, <1>2, TenantConstants DEF Exists, NoCompany
  <2>2. user = [u \in User |-> User0[u]]
    BY <1>2 DEF TenantInit
  <2> QED BY <2>1, <2>2 DEF HasAdmin, ActiveAdmins, IsAdmin
<1>3. \A r \in Req : SafeToSave(r)
  BY <1>1 DEF SafeToSave, At
<1>4. Observed
  BY <1>1 DEF TenantInit, Observed, Underway
<1> QED BY <1>2, <1>3, <1>4 DEF AdminsOk, AdminRemains

----------------------------------------------------------------------------
(* What was acknowledged. *)

CreatedFrom(r) == At(r, "done") /\ CallOf(r).op = "create" /\ CallOf(r).template # "none"

\* The settings that r has written last.
InForce(r) ==
  IF At(r, "done") /\ CallOf(r).op \in {"settings", "billing"} THEN CallOf(r).patch
  ELSE IF At(r, "bom") \/ CreatedFrom(r)
    THEN Overlay(TemplateDefaults(CallOf(r).template), TemplateSettings(CallOf(r).template))
  ELSE IF job[r].at \in {"starter", "again", "defaults"} THEN TemplateSettings(CallOf(r).template)
  ELSE Empty

\* s holds v for k.
Has(s, k, v) == k \in DOMAIN s /\ s[k] = v

\* They are there, and so they are in what others have read, unless one of the
\* two has missed a change.
SettingKept(q, k) ==
  /\ Has(Settings, k, InForce(q)[k])
  /\ \A r \in Req : job[r].at \in Writing => k \in missed[r] \/ Has(Saw(r), k, InForce(q)[k])

SettingsKept == \A q \in Req : \A k \in DOMAIN InForce(q) \ later[q] : SettingKept(q, k)

ModulesKept(r) ==
  "modules" \notin later[r] =>
    /\ At(r, "done") /\ CallOf(r).op = "company" => tenant.modules = CallOf(r).modules
    /\ job[r].at \in {"starter", "again", "defaults", "bom"} \/ CreatedFrom(r) =>
         tenant.modules = Template(CallOf(r).template).modules

\* The items that were applied; the last one of a type counts.
AppliedUpTo(r, n) ==
  \A i \in 1..n :
    LET item == Items(r)[i] IN
      /\ item.type \in DOMAIN series
      /\ item.type \notin later[r] /\ (\A j \in 1..n : j > i => Items(r)[j].type # item.type)
           => series[item.type] = item.prefix

SeriesKept(r) ==
  /\ At(r, "items") => Pos(r) \in Nat \ {0} /\ Pos(r) <= Len(Items(r)) + 1 /\ AppliedUpTo(r, Pos(r) - 1)
  /\ At(r, "done") /\ CallOf(r).op = "series" => AppliedUpTo(r, Len(Items(r)))
  /\ job[r].at \in Applying \/ (At(r, "done") /\ CallOf(r).op = "create")
       => DOMAIN series = ToSet(Series)

SavedUser(r) ==
  \/ job[r].at \in Metered \cup {"done"} /\ CallOf(r).op = "createUser"
  \/ At(r, "done") /\ CallOf(r).op = "updateUser"

UserKept(r) ==
  LET c == CallOf(r) IN
  SavedUser(r) => c.target \in later[r] \/ user[c.target] = Saved(user[c.target], c)

StarterKept(r) ==
  CreatedFrom(r) =>
    ToSet(StarterItems(CallOf(r).template)) \cup ToSet(Template(CallOf(r).template).bom) \subseteq starter

Kept == /\ SettingsKept
        /\ \A r \in Req : ModulesKept(r) /\ SeriesKept(r) /\ UserKept(r) /\ StarterKept(r)

LEMMA InForceKeys ==
  ASSUME JobsOk, NEW q \in Req, NEW k \in DOMAIN InForce(q)
  PROVE  k \in SettingsKey /\ Watched(q)
<1>1. /\ DOMAIN TemplateSettings(CallOf(q).template) \subseteq SettingsKey
      /\ DOMAIN TemplateDefaults(CallOf(q).template) \subseteq SettingsKey
  BY DEF TemplateSettings, TemplateDefaults, SettingsKey, WorkflowKey, BillingKey, StoreKey, DefaultWorkflow
<1>2. CASE At(q, "done") /\ CallOf(q).op \in {"settings", "billing"}
  <2>1. CallOk(CallOf(q))
    BY <1>2 DEF JobsOk, JobOk, CallOf, At
  <2> QED BY <1>2, <2>1 DEF InForce, Watched, CallOk
<1>3. CASE At(q, "bom") \/ CreatedFrom(q) \/ job[q].at \in {"starter", "again", "defaults"}
  <2>1. Watched(q)
    BY <1>3 DEF CreatedFrom, Watched, Underway, At
  <2> DEFINE d == TemplateDefaults(CallOf(q).template)
             s == TemplateSettings(CallOf(q).template)
  <2>2. DOMAIN Overlay(d, s) \subseteq SettingsKey
    BY <1>1 DEF Overlay
  <2>3. InForce(q) = Overlay(d, s) \/ InForce(q) = s
    BY <1>3 DEF InForce, CreatedFrom, At
  <2> HIDE DEF d
  <2> QED BY <1>1, <2>1, <2>2, <2>3
<1>4. ASSUME ~(At(q, "done") /\ CallOf(q).op \in {"settings", "billing"}), ~At(q, "bom"),
             ~CreatedFrom(q), job[q].at \notin {"starter", "again", "defaults"}
      PROVE  FALSE
  BY <1>4 DEF InForce, Empty
<1> QED BY <1>2, <1>3, <1>4

LEMMA Blank ==
  ASSUME NEW r \in Req, job'[r].at \notin {"bom", "starter", "again", "defaults"},
         job'[r].at = "done" => /\ job'[r].call.op \notin {"settings", "billing"}
                                /\ job'[r].call.op = "create" => job'[r].call.template = "none"
  PROVE  DOMAIN InForce(r)' = {}
BY DEF InForce, CreatedFrom, At, CallOf, Empty

\* A step that leaves the settings: what a request then counts on, it counted on
\* before, and what it has in hand to write back, it has just read or had before.
CountsOnNoMore(q) ==
  \A k \in DOMAIN InForce(q)' \ later'[q] :
    k \in DOMAIN InForce(q) \ later[q] /\ InForce(q)'[k] = InForce(q)[k]
HasInHand(q) ==
  job'[q].at \in Writing =>
    \/ job'[q].saw = Settings
    \/ job[q].at \in Writing /\ job'[q].saw = Saw(q) /\ missed[q] \subseteq missed'[q]

LEMMA SettingsQuiet ==
  ASSUME SettingsKept, Settings' = Settings, \A q \in Req : CountsOnNoMore(q) /\ HasInHand(q)
  PROVE  SettingsKept'
<1> SUFFICES ASSUME NEW q \in Req, NEW k \in DOMAIN InForce(q)' \ later'[q] PROVE SettingKept(q, k)'
  BY DEF SettingsKept
<1>1. k \in DOMAIN InForce(q) \ later[q] /\ InForce(q)'[k] = InForce(q)[k]
  BY DEF CountsOnNoMore
<1>2. SettingKept(q, k)
  BY <1>1 DEF SettingsKept
<1>3. PICK v : v = InForce(q)[k]
  OBVIOUS
<1>4. Has(Settings, k, v) /\ \A r \in Req : job[r].at \in Writing => k \in missed[r] \/ Has(Saw(r), k, v)
  BY <1>2, <1>3 DEF SettingKept
<1>5. ASSUME NEW r \in Req, job'[r].at \in Writing
      PROVE  k \in missed'[r] \/ Has(job'[r].saw, k, v)
  BY <1>4, <1>5 DEF HasInHand
<1>6. Has(Settings', k, v)
  BY <1>4
<1> QED BY <1>1, <1>3, <1>5, <1>6 DEF SettingKept, Saw

\* r writes what it has read, merged with its patch.
LEMMA SettingsWritten ==
  ASSUME JobsOk, Observed, SettingsKept, NEW r \in Req, job[r].at \in Writing, job'[r].at \notin Writing,
         \A q \in Req \ {r} : job'[q] = job[q],
         NEW patch, NEW more, Rewritten(r, patch, more),
         \A k, v : k \notin DOMAIN patch /\ Has(Saw(r), k, v) => Has(Settings', k, v),
         \A k \in DOMAIN patch : Has(Settings', k, patch[k]),
         \A k \in DOMAIN InForce(r)' :
            \/ k \in DOMAIN patch /\ InForce(r)'[k] = patch[k]
            \/ k \notin DOMAIN patch \cup more /\ k \in DOMAIN InForce(r) /\ InForce(r)'[k] = InForce(r)[k]
  PROVE  SettingsKept'
<1> SUFFICES ASSUME NEW q \in Req, NEW k \in DOMAIN InForce(q)' \ later'[q] PROVE SettingKept(q, k)'
  BY DEF SettingsKept
<1>1. Underway(r) /\ missed[r] \subseteq later[r]
  BY DEF Observed, Underway, Writing
<1>2. /\ \A p \in Req \ {r} : Underway(p) =>
           missed'[p] = missed[p] \cup (DOMAIN patch \cup more) \cup ((missed[r] \cap SettingsKey) \ DOMAIN patch)
      /\ \A p \in Req \ {r} : Watched(p) =>
           later'[p] = later[p] \cup (DOMAIN patch \cup more) \cup ((missed[r] \cap SettingsKey) \ DOMAIN patch)
      /\ later'[r] = later[r] \ (DOMAIN patch \cup more)
  BY DEF Rewritten, Rewrote
<1>3. PICK v : v = InForce(q)'[k]
  OBVIOUS
<1>4. SUFFICES /\ Has(Settings', k, v)
               /\ \A p \in Req : job'[p].at \in Writing => k \in missed'[p] \/ Has(job'[p].saw, k, v)
  BY <1>3 DEF SettingKept, Saw
<1>5. \A p \in Req : job'[p].at \in Writing => p # r /\ job'[p] = job[p] /\ Underway(p)
  BY DEF Underway, Writing
<1>6. CASE q = r /\ k \in DOMAIN patch /\ v = patch[k]
  <2>1. Has(Settings', k, v)
    BY <1>6
  <2>2. \A p \in Req : job'[p].at \in Writing => k \in missed'[p]
    BY <1>2, <1>5, <1>6
  <2> QED BY <2>1, <2>2
<1>7. ASSUME k \in DOMAIN InForce(q) \ later[q], v = InForce(q)[k], k \notin DOMAIN patch, k \notin missed[r]
      PROVE  /\ Has(Settings', k, v)
             /\ \A p \in Req : job'[p].at \in Writing => k \in missed'[p] \/ Has(job'[p].saw, k, v)
  <2>1. \A p \in Req : job[p].at \in Writing => k \in missed[p] \/ Has(Saw(p), k, v)
    BY <1>7 DEF SettingsKept, SettingKept
  <2>2. Has(Settings', k, v)
    BY <1>7, <2>1
  <2>3. ASSUME NEW p \in Req, job'[p].at \in Writing
        PROVE  k \in missed'[p] \/ Has(job'[p].saw, k, v)
    <3>1. p # r /\ job'[p] = job[p] /\ Underway(p)
      BY <1>5, <2>3
    <3>2. k \in missed[p] \/ Has(job[p].saw, k, v)
      BY <2>1, <2>3, <3>1 DEF Saw
    <3> QED BY <1>2, <3>1, <3>2
  <2> QED BY <2>2, <2>3
<1>8. CASE q = r /\ ~(k \in DOMAIN patch /\ v = patch[k])
  <2>1. k \notin DOMAIN patch \cup more /\ k \in DOMAIN InForce(r) /\ v = InForce(r)[k]
    BY <1>3, <1>8
  <2>2. k \notin later[r]
    BY <1>2, <1>8, <2>1
  <2> QED BY <1>1, <1>7, <1>8, <2>1, <2>2
<1>9. CASE q # r
  <2>1. InForce(q)' = InForce(q)
    BY <1>9 DEF InForce, CreatedFrom, At, CallOf
  <2>2. k \in DOMAIN InForce(q) /\ v = InForce(q)[k]
    BY <1>3, <2>1
  <2>3. k \in SettingsKey /\ Watched(q)
    BY <2>2, InForceKeys
  <2>4. k \notin later[q] /\ k \notin DOMAIN patch /\ k \notin missed[r]
    BY <1>2, <1>9, <2>3
  <2> QED BY <1>7, <2>2, <2>4
<1> QED BY <1>6, <1>8, <1>9

LEMMA OthersQuiet ==
  ASSUME JobsOk, NEW q \in Req, job'[q] = job[q], StillMissed(q)
  PROVE  CountsOnNoMore(q) /\ HasInHand(q)
<1>1. InForce(q)' = InForce(q)
  BY DEF InForce, CreatedFrom, At, CallOf
<1>2. \A k \in DOMAIN InForce(q) : Watched(q)
  BY InForceKeys
<1>3. job[q].at \in Writing => Underway(q)
  BY DEF Underway, Writing
<1> QED BY <1>1, <1>2, <1>3 DEF CountsOnNoMore, HasInHand, StillMissed, Saw

\* The operation and the template at each place.
LEMMA OpAt ==
  ASSUME JobsOk, NEW r \in Req, NEW p \in Places, At(r, p)
  PROVE  CallOk(CallOf(r)) /\ Fits(p, CallOf(r), Pos(r))
BY PlaceOk DEF JobOk, At, CallOf, Pos

LEMMA TemplateAt ==
  ASSUME JobsOk, NEW r \in Req, NEW p \in Applying, At(r, p)
  PROVE  CallOf(r).op = "create" /\ CallOf(r).template # "none" /\ CallOf(r).template \in TemplateCode
<1>1. p \in Creating /\ p \in Places
  BY DEF Creating, Places
<1> QED BY <1>1, OpAt DEF Fits, CallOk, TemplateCode

LEMMA SettingsRequest ==
  ASSUME JobsOk, Typed, Observed, SettingsKept, NEW r \in Req, RequestStep(r)
  PROVE  SettingsKept'
<1> DEFINE Goal == SettingsKept'
           Late == {"bom", "starter", "again", "defaults"}
<1>1. \A q \in Req \ {r} : job'[q] = job[q] /\ StillMissed(q)
  BY JobsStep, Misses DEF OthersStay
<1>2. ASSUME Settings' = Settings, CountsOnNoMore(r), HasInHand(r) PROVE Goal
  <2>1. \A q \in Req \ {r} : CountsOnNoMore(q) /\ HasInHand(q)
    BY <1>1, OthersQuiet
  <2> QED BY <1>2, <2>1, SettingsQuiet
<1> HIDE DEF Goal
<1>3. ASSUME Settings' = Settings, job'[r].at \notin Late,
             job'[r].at = "done" => /\ job'[r].call.op \notin {"settings", "billing"}
                                    /\ job'[r].call.op = "create" => job'[r].call.template = "none",
             job'[r].at \in Writing => job'[r].saw = Settings
      PROVE  Goal
  <2>1. DOMAIN InForce(r)' = {}
    BY <1>3, Blank
  <2> QED BY <1>2, <1>3, <2>1 DEF CountsOnNoMore, HasInHand
<1>4. ASSUME Settings' = Settings, EndsBadly(r) PROVE Goal
  BY <1>3, <1>4 DEF EndsBadly, Writing
<1>5. ASSUME Settings' = Settings, EndsWell(r), CallOf(r).op \notin {"settings", "billing"},
             CallOf(r).op = "create" => CallOf(r).template = "none"
      PROVE  Goal
  BY <1>3, <1>5 DEF EndsWell, Writing, CallOf
<1>6. ASSUME Settings' = Settings, NEW p, p \notin Late \cup {"done"}, NEW STATE x, NEW STATE n,
             Moves(r, p, x, n), p \in Writing => x = Settings
      PROVE  Goal
  BY <1>3, <1>6 DEF Moves
<1>7. ASSUME Settings' = Settings, UNCHANGED job, job[r].at \in {"series", "ensure"} PROVE Goal
  BY <1>3, <1>7 DEF Writing
<1>8. \A p \in {"items", "ensure", "template", "bill", "room", "provider", "record", "countAdmins", "saveUser"} :
        p \notin Late \cup {"done"} /\ p \notin Writing
  BY DEF Writing
<1>9. \A c : CallOk(c) => c.op \notin Late \cup {"done"} /\ c.op \notin Writing
  BY DEF Writing, CallOk
<1>10. \A p \in {"write", "applyTemplate"} : p \notin Late \cup {"done"}
  OBVIOUS
<1> HIDE DEF Late
<1>11. ASSUME Enter(r) PROVE Goal
  <2>1. Settings' = Settings
    BY <1>11 DEF Enter, Settings
  <2>2. ASSUME Moves(r, CallOf(r).op, Empty, 1), CallOk(CallOf(r)) PROVE Goal
    <3>1. CallOf(r).op \notin Late \cup {"done"} /\ CallOf(r).op \notin Writing
      BY <1>9, <2>2
    <3> QED BY <1>6, <2>1, <2>2, <3>1
  <2> QED BY <1>4, <1>11, <2>1, <2>2, EnterMoves
<1>12. ASSUME ReadSettings(r) PROVE Goal
  <2>1. Settings' = Settings
    BY <1>12 DEF ReadSettings, Settings
  <2> QED BY <1>4, <1>6, <1>10, <1>12, <2>1, ReadSettingsMoves
<1>13. ASSUME UNCHANGED tenant, WriteSettings(r), EndsBadly(r) PROVE Goal
  BY <1>4, <1>13 DEF Settings
<1>14. ASSUME WriteSettings(r), ~EndsBadly(r) PROVE Goal
  <2>1. PICK patch, saw : patch = CallOf(r).patch /\ saw = Saw(r)
    OBVIOUS
  <2>2. At(r, "write") /\ EndsWell(r) /\ ValidPatch(CallOf(r).patch)
    BY <1>14, WriteSettingsMoves
  <2>3. Exists
    BY <2>2 DEF Typed, CompanyOk, AbsentOk, At
  <2>4. tenant' = [tenant EXCEPT !.settings = Merge(saw, patch)] /\ Rewritten(r, patch, {})
    BY <1>14, <2>1, <2>2 DEF WriteSettings
  <2>5. Settings' = Merge(saw, patch)
    BY <2>3, <2>4 DEF Settings, Typed, CompanyOk, PresentOk
  <2>6. \A k, v : k \notin DOMAIN patch /\ Has(saw, k, v) => Has(Settings', k, v)
    BY <2>5, MergeIs DEF Has
  <2>7. \A k \in DOMAIN patch : Has(Settings', k, patch[k])
    BY <2>5, MergeIs DEF Has
  <2>8. CallOf(r).op \in {"settings", "billing"}
    BY <2>2, OpAt DEF Fits, Places
  <2>9. InForce(r)' = patch
    BY <2>1, <2>2, <2>8 DEF InForce, EndsWell, At, CallOf
  <2>10. job[r].at \in Writing /\ job'[r].at \notin Writing
    BY <2>2 DEF At, EndsWell, Writing
  <2>11. \A k \in DOMAIN InForce(r)' :
            \/ k \in DOMAIN patch /\ InForce(r)'[k] = patch[k]
            \/ k \notin DOMAIN patch \cup {} /\ k \in DOMAIN InForce(r) /\ InForce(r)'[k] = InForce(r)[k]
    BY <2>9
  <2> QED BY <1>1, <2>1, <2>4, <2>6, <2>7, <2>10, <2>11, SettingsWritten DEF Goal
<1>15. ASSUME UpdateCompany(r) PROVE Goal
  <2>1. Settings' = Settings
    BY <1>15 DEF UpdateCompany, Settings, Typed, CompanyOk, PresentOk
  <2>2. CallOf(r).op = "company"
    <3>1. At(r, "company") /\ "company" \in Places
      BY <1>15 DEF UpdateCompany, Places
    <3> QED BY <3>1, OpAt DEF Fits
  <2> QED BY <1>4, <1>5, <1>15, <2>1, <2>2, UpdateCompanyMoves
<1>16. ASSUME BeginSeries(r) PROVE Goal
  <2>1. Settings' = Settings
    BY <1>16 DEF BeginSeries, Settings
  <2> QED BY <1>6, <1>7, <1>8, <1>16, <2>1, BeginSeriesMoves DEF At
<1>17. ASSUME ReplaceSeries(r) PROVE Goal
  <2>1. Settings' = Settings /\ At(r, "items") /\ "items" \in Places
    BY <1>17 DEF ReplaceSeries, Settings, Places
  <2>2. CallOf(r).op = "series"
    BY <2>1, OpAt DEF Fits
  <2> QED BY <1>4, <1>5, <1>6, <1>8, <1>17, <2>1, <2>2, ReplaceSeriesMoves
<1>18. ASSUME CreateCompany(r) PROVE Goal
  <2>1. CASE EndsBadly(r) /\ UNCHANGED tenant
    BY <1>4, <2>1 DEF Settings
  <2>2. CASE ~Exists /\ Moves(r, "ensure", Saw(r), Pos(r))
    <3>1. \A q \in Req : job'[q].at \in {"waiting", "refused", "create", "company", "billing", "ensure"}
      BY <1>1, <2>2 DEF Typed, CompanyOk, AbsentOk, Moves
    <3>2. \A q \in Req : DOMAIN InForce(q)' = {}
      BY <3>1, Blank
    <3> QED BY <3>2 DEF SettingsKept, Goal
  <2> QED BY <1>18, <2>1, <2>2, CreateCompanyMoves
<1>19. ASSUME EnsureForNew(r) PROVE Goal
  <2>1. Settings' = Settings /\ At(r, "ensure") /\ "ensure" \in Places
    BY <1>19 DEF EnsureForNew, Settings, Places, Creating
  <2>2. CallOf(r).op = "create"
    BY <2>1, OpAt DEF Fits, Creating
  <2> QED BY <1>5, <1>6, <1>7, <1>8, <1>19, <2>1, <2>2, EnsureForNewMoves DEF At
<1>20. ASSUME ReadForTemplate(r) PROVE Goal
  <2>1. Settings' = Settings
    BY <1>20 DEF ReadForTemplate, Settings
  <2> QED BY <1>6, <1>10, <1>20, <2>1, ReadForTemplateMoves
<1>21. ASSUME ApplyTemplate(r) PROVE Goal
  <2>1. PICK code, saw, patch : code = CallOf(r).template /\ saw = Saw(r) /\ patch = TemplateSettings(code)
    OBVIOUS
  <2>2. At(r, "applyTemplate") /\ Moves(r, "starter", Saw(r), Pos(r))
    BY <1>21, ApplyTemplateMoves
  <2>3. Exists
    BY <2>2 DEF Typed, CompanyOk, AbsentOk, At
  <2>4. /\ tenant' = [tenant EXCEPT !.modules = Template(code).modules, !.settings = Merge(saw, patch)]
        /\ Rewritten(r, patch, {"modules"})
    BY <1>21, <2>1 DEF ApplyTemplate
  <2>5. Settings' = Merge(saw, patch)
    BY <2>3, <2>4 DEF Settings, Typed, CompanyOk, PresentOk
  <2>6. \A k, v : k \notin DOMAIN patch /\ Has(saw, k, v) => Has(Settings', k, v)
    BY <2>5, MergeIs DEF Has
  <2>7. \A k \in DOMAIN patch : Has(Settings', k, patch[k])
    BY <2>5, MergeIs DEF Has
  <2>8. InForce(r)' = patch
    BY <2>1, <2>2 DEF InForce, Moves, At, CallOf, CreatedFrom
  <2>9. job[r].at \in Writing /\ job'[r].at \notin Writing
    BY <2>2 DEF At, Moves, Writing
  <2>10. \A k \in DOMAIN InForce(r)' :
            \/ k \in DOMAIN patch /\ InForce(r)'[k] = patch[k]
            \/ k \notin DOMAIN patch \cup {"modules"} /\ k \in DOMAIN InForce(r) /\ InForce(r)'[k] = InForce(r)[k]
    BY <2>8
  <2> QED BY <1>1, <2>1, <2>4, <2>6, <2>7, <2>9, <2>10, SettingsWritten DEF Goal
<1>22. ASSUME CreateStarter(r) \/ CreateBom(r) PROVE Goal
  <2>1. Settings' = Settings /\ Unobserved
    BY <1>22 DEF CreateStarter, CreateBom, Settings
  <2>2. InForce(r)' = InForce(r) /\ job'[r].at \notin Writing
    <3>1. CASE CreateStarter(r)
      BY <3>1, CreateStarterMoves DEF Moves, InForce, At, CallOf, CreatedFrom, Writing
    <3>2. CASE CreateBom(r)
      <4>1. At(r, "bom") /\ EndsWell(r)
        BY <3>2, CreateBomMoves
      <4>2. CallOf(r).op = "create" /\ CallOf(r).template # "none"
        BY <4>1, TemplateAt DEF Applying
      <4> QED BY <4>1, <4>2 DEF EndsWell, InForce, At, CallOf, CreatedFrom, Writing
    <3> QED BY <1>22, <3>1, <3>2
  <2> QED BY <1>2, <2>1, <2>2 DEF CountsOnNoMore, HasInHand, Unobserved
<1>23. ASSUME ReadAgain(r) PROVE Goal
  <2>1. Settings' = Settings
    BY <1>23 DEF ReadAgain, Settings
  <2>2. At(r, "again") /\ Moves(r, "defaults", Settings, Pos(r)) /\ UNCHANGED later
    BY <1>23, ReadAgainMoves DEF HasRead
  <2>3. InForce(r)' = InForce(r) /\ job'[r].saw = Settings
    BY <2>2 DEF Moves, InForce, At, CallOf, CreatedFrom
  <2> QED BY <1>2, <2>1, <2>2, <2>3 DEF CountsOnNoMore, HasInHand
<1>24. ASSUME WriteDefaults(r) PROVE Goal
  <2>1. PICK code, saw, patch : code = CallOf(r).template /\ saw = Saw(r) /\ patch = TemplateDefaults(code)
    OBVIOUS
  <2>2. At(r, "defaults") /\ Moves(r, "bom", Saw(r), Pos(r))
    BY <1>24, WriteDefaultsMoves
  <2>3. Exists
    BY <2>2 DEF Typed, CompanyOk, AbsentOk, At
  <2>4. tenant' = [tenant EXCEPT !.settings = Overlay(patch, saw)] /\ Rewritten(r, patch, {})
    BY <1>24, <2>1 DEF WriteDefaults
  <2>5. Settings' = Overlay(patch, saw)
    BY <2>3, <2>4 DEF Settings, Typed, CompanyOk, PresentOk
  <2>6. \A k, v : k \notin DOMAIN patch /\ Has(saw, k, v) => Has(Settings', k, v)
    BY <2>5 DEF Has, Overlay
  <2>7. \A k \in DOMAIN patch : Has(Settings', k, patch[k])
    BY <2>5 DEF Has, Overlay
  <2>8. PICK first : first = TemplateSettings(code)
    OBVIOUS
  <2>9. InForce(r)' = Overlay(patch, first) /\ InForce(r) = first
    BY <2>1, <2>2, <2>8 DEF InForce, Moves, At, CallOf, CreatedFrom
  <2>10. job[r].at \in Writing /\ job'[r].at \notin Writing
    BY <2>2 DEF At, Moves, Writing
  <2>11. \A k \in DOMAIN InForce(r)' :
            \/ k \in DOMAIN patch /\ InForce(r)'[k] = patch[k]
            \/ k \notin DOMAIN patch \cup {} /\ k \in DOMAIN InForce(r) /\ InForce(r)'[k] = InForce(r)[k]
    BY <2>9 DEF Overlay
  <2> QED BY <1>1, <2>1, <2>4, <2>6, <2>7, <2>10, <2>11, SettingsWritten DEF Goal
<1>25. ASSUME ReadTarget(r) PROVE Goal
  <2>1. Settings' = Settings
    BY <1>25 DEF ReadTarget, Settings
  <2> QED BY <1>4, <1>6, <1>8, <1>25, <2>1, ReadTargetMoves
<1>26. ASSUME CountAdmins(r) PROVE Goal
  <2>1. Settings' = Settings
    BY <1>26 DEF CountAdmins, Settings
  <2> QED BY <1>4, <1>6, <1>8, <1>26, <2>1, CountAdminsMoves
<1>27. ASSUME SaveUser(r) PROVE Goal
  <2>1. Settings' = Settings /\ At(r, "saveUser") /\ "saveUser" \in Places
    BY <1>27 DEF SaveUser, Settings, Places, Saving
  <2>2. CallOf(r).op = "updateUser"
    BY <2>1, OpAt DEF Fits, Saving
  <2> QED BY <1>5, <1>27, <2>1, <2>2, SaveUserMoves
<1>28. ASSUME CreateUser(r) PROVE Goal
  <2>1. Settings' = Settings
    BY <1>28 DEF CreateUser, Settings
  <2> QED BY <1>4, <1>6, <1>8, <1>28, <2>1, CreateUserMoves
<1>29. ASSUME BeginAi(r) PROVE Goal
  <2>1. Settings' = Settings
    BY <1>29 DEF BeginAi, Settings
  <2> QED BY <1>4, <1>6, <1>8, <1>29, <2>1, BeginAiMoves
<1>30. ASSUME ReadBilling(r) PROVE Goal
  <2>1. Settings' = Settings
    BY <1>30 DEF ReadBilling, Settings
  <2> QED BY <1>6, <1>8, <1>30, <2>1, ReadBillingMoves
<1>31. ASSUME NEW p \in {"room", "record"}, At(r, p) PROVE CallOf(r).op \in {"ai", "createUser"}
  <2>1. p \in Metered /\ p \in Places
    BY DEF Metered, Places
  <2> QED BY <1>31, <2>1, OpAt DEF Fits
<1>32. ASSUME CheckRoom(r) PROVE Goal
  <2>1. Settings' = Settings /\ At(r, "room")
    BY <1>32 DEF CheckRoom, Settings
  <2> QED BY <1>4, <1>5, <1>6, <1>8, <1>31, <1>32, <2>1, CheckRoomMoves
<1>33. ASSUME Answer(r) PROVE Goal
  <2>1. Settings' = Settings
    BY <1>33 DEF Answer, Settings
  <2>2. PICK n \in Units : Moves(r, "bill", Saw(r), n + 1)
    BY <1>33, AnswerMoves
  <2>3. job'[r].at = "bill"
    BY <2>2 DEF Moves
  <2> QED BY <1>3, <1>8, <2>1, <2>3
<1>34. ASSUME Record(r) PROVE Goal
  <2>1. Settings' = Settings /\ At(r, "record")
    BY <1>34 DEF Record, Settings
  <2> QED BY <1>5, <1>31, <1>34, <2>1, RecordMoves
<1>35. ASSUME WriteSettings(r) PROVE Goal
  BY <1>13, <1>14, <1>35, WriteSettingsMoves DEF EndsWell, EndsBadly
<1> QED BY <1>11, <1>12, <1>15, <1>16, <1>17, <1>18, <1>19, <1>20, <1>21, <1>22, <1>23, <1>24, <1>25,
           <1>26, <1>27, <1>28, <1>29, <1>30, <1>32, <1>33, <1>34, <1>35
        DEF RequestStep, SettingsStep, UsersStep, Goal

LEMMA SettingsSeeded ==
  ASSUME JobsOk, Typed, Observed, SettingsKept, SeedStep
  PROVE  SettingsKept'
<1>1. UNCHANGED job
  BY DEF SeedStep, StartSeed, ClearRole, Grant, SeedPlatform, SeedCompany, SeedSeries, SeedAdmin,
         SeedItems, Finish, CutOffSeed
<1>2. \A q \in Req : StillMissed(q)
  BY SeedMisses
<1>3. CASE UNCHANGED tenant
  <2>1. \A q \in Req : CountsOnNoMore(q) /\ HasInHand(q)
    BY <1>1, <1>2, OthersQuiet
  <2> QED BY <1>3, <2>1, SettingsQuiet DEF Settings
<1>4. CASE SeedCompany /\ ~UNCHANGED tenant
  <2>1. SeedWrote(SettingsKey \cup {"modules", "status"})
    BY <1>4 DEF SeedCompany
  <2>2. \A q \in Req : Watched(q) => SettingsKey \subseteq later'[q]
    BY <2>1 DEF SeedWrote
  <2>3. \A q \in Req : InForce(q)' = InForce(q)
    BY <1>1 DEF InForce, CreatedFrom, At, CallOf
  <2>4. \A q \in Req : DOMAIN InForce(q)' \ later'[q] = {}
    BY <2>2, <2>3, InForceKeys
  <2> QED BY <2>4 DEF SettingsKept
<1>5. CASE ~SeedCompany
  <2>1. UNCHANGED tenant
    BY <1>5 DEF SeedStep, StartSeed, ClearRole, Grant, SeedPlatform, SeedSeries, SeedAdmin,
         SeedItems, Finish, CutOffSeed
  <2> QED BY <1>3, <2>1
<1> QED BY <1>3, <1>4, <1>5

\* Whatever q has not been told was overwritten is as it was.
CellsOf(q) ==
  /\ "modules" \in later'[q] \/ tenant'.modules = tenant.modules
  /\ DOMAIN series \subseteq DOMAIN series'
  /\ \A t \in DOMAIN series : t \in later'[q] \/ series'[t] = series[t]
  /\ \A u \in User : u \in later'[q] \/ user'[u] = user[u]
  /\ starter \subseteq starter'

LEMMA CellsRequest ==
  ASSUME JobsOk, Typed, Exists, NEW r \in Req, RequestStep(r), NEW q \in Req \ {r}, Watched(q)
  PROVE  CellsOf(q)
<1>1. DOMAIN tenant = {"slug", "status", "modules", "settings"} /\ user \in [User -> UserRow]
  BY DEF Typed, CompanyOk, PresentOk, RowsOk
<1>2. starter \subseteq starter'
  BY StarterGrows
<1>3. ASSUME NEW STATE S, NEW STATE U, Rewrote(r, S, U) PROVE S \subseteq later'[q]
  BY <1>3 DEF Rewrote
<1>4. ASSUME NEW STATE S, Wrote(r, S) PROVE S \subseteq later'[q]
  BY <1>3, <1>4 DEF Wrote
<1>5. "modules" \in later'[q] \/ tenant'.modules = tenant.modules
  <2>1. CASE UNCHANGED tenant
    BY <2>1
  <2>2. CASE WriteSettings(r)
    BY <1>1, <2>2 DEF WriteSettings
  <2>3. CASE WriteDefaults(r)
    BY <1>1, <2>3 DEF WriteDefaults
  <2>4. CASE ApplyTemplate(r)
    <3>1. PICK patch : Rewritten(r, patch, {"modules"})
      BY <2>4 DEF ApplyTemplate
    <3> QED BY <1>3, <3>1 DEF Rewritten
  <2>5. CASE UpdateCompany(r)
    BY <1>4, <2>1, <2>5 DEF UpdateCompany
  <2>6. CASE CreateCompany(r)
    BY <2>6 DEF CreateCompany
  <2>7. ASSUME ~WriteSettings(r), ~UpdateCompany(r), ~CreateCompany(r), ~ApplyTemplate(r), ~WriteDefaults(r)
        PROVE  UNCHANGED tenant
    BY <2>7 DEF RequestStep, Enter, SettingsStep, ReadSettings, BeginSeries, ReplaceSeries,
         EnsureForNew, ReadForTemplate, CreateStarter, ReadAgain, CreateBom, UsersStep, ReadTarget,
         CountAdmins, SaveUser, CreateUser, BeginAi, ReadBilling, CheckRoom, Answer, Record
  <2> QED BY <2>1, <2>2, <2>3, <2>4, <2>5, <2>6, <2>7
<1>6. DOMAIN series \subseteq DOMAIN series' /\ \A t \in DOMAIN series : t \in later'[q] \/ series'[t] = series[t]
  <2>1. CASE UNCHANGED series
    BY <2>1
  <2>2. ASSUME NEW next, EnsureSeries(r, next), ~UNCHANGED series
        PROVE  DOMAIN series \subseteq DOMAIN series' /\ \A t \in DOMAIN series : series'[t] = series[t]
    <3>1. PICK i \in DOMAIN Series : Series[i] \notin DOMAIN series /\ series' = SetAt(series, Series[i], SeriesDefault)
      BY <2>2 DEF EnsureSeries
    <3> QED BY <3>1 DEF SetAt
  <2>3. CASE BeginSeries(r) \/ EnsureForNew(r)
    BY <2>1, <2>2, <2>3 DEF BeginSeries, EnsureForNew
  <2>4. CASE ReplaceSeries(r) /\ ~UNCHANGED series
    <3>1. PICK t, p : series' = [series EXCEPT ![t] = p] /\ Wrote(r, {t})
      BY <2>4 DEF ReplaceSeries
    <3> QED BY <1>4, <3>1
  <2>5. ASSUME ~BeginSeries(r), ~EnsureForNew(r), ~ReplaceSeries(r) PROVE UNCHANGED series
    BY <2>5 DEF RequestStep, Enter, SettingsStep, ReadSettings, WriteSettings, UpdateCompany,
       CreateCompany, ReadForTemplate, ApplyTemplate, CreateStarter, ReadAgain, WriteDefaults, CreateBom,
       UsersStep, ReadTarget, CountAdmins, SaveUser, CreateUser, BeginAi, ReadBilling, CheckRoom,
       Answer, Record
  <2> QED BY <2>1, <2>3, <2>4, <2>5
<1>7. \A u \in User : u \in later'[q] \/ user'[u] = user[u]
  <2>1. CASE UNCHANGED user
    BY <2>1
  <2>2. ASSUME NEW t, NEW x, user' = [user EXCEPT ![t] = x], Wrote(r, {t})
        PROVE  \A u \in User : u \in later'[q] \/ user'[u] = user[u]
    BY <1>1, <1>4, <2>2
  <2>3. CASE SaveUser(r)
    <3>1. PICK t, x : user' = [user EXCEPT ![t] = x] /\ Wrote(r, {t})
      BY <2>3 DEF SaveUser
    <3> QED BY <2>2, <3>1
  <2>4. CASE CreateUser(r) /\ ~UNCHANGED user
    <3>1. PICK t, x : user' = [user EXCEPT ![t] = x] /\ Wrote(r, {t})
      BY <2>4 DEF CreateUser
    <3> QED BY <2>2, <3>1
  <2>5. CASE CreateCompany(r)
    BY <2>5 DEF CreateCompany
  <2>6. ASSUME ~CreateCompany(r), ~SaveUser(r), ~CreateUser(r) PROVE UNCHANGED user
    BY <2>6 DEF RequestStep, Enter, SettingsStep, ReadSettings, WriteSettings, UpdateCompany, BeginSeries,
       ReplaceSeries, EnsureForNew, ReadForTemplate, ApplyTemplate, CreateStarter, ReadAgain,
       WriteDefaults, CreateBom, UsersStep, ReadTarget, CountAdmins, BeginAi, ReadBilling, CheckRoom,
       Answer, Record
  <2> QED BY <2>1, <2>3, <2>4, <2>5, <2>6
<1> QED BY <1>2, <1>5, <1>6, <1>7 DEF CellsOf

LEMMA CellsSeed ==
  ASSUME Typed, SeedStep, NEW q \in Req, Watched(q)
  PROVE  CellsOf(q)
<1>1. user \in [User -> UserRow]
  BY DEF Typed, RowsOk
<1>2. ASSUME NEW STATE S, SeedWrote(S) PROVE S \subseteq later'[q]
  BY <1>2 DEF SeedWrote
<1>3. "modules" \in later'[q] \/ tenant'.modules = tenant.modules
  <2>1. CASE SeedCompany /\ ~UNCHANGED tenant
    BY <1>2, <2>1 DEF SeedCompany
  <2>2. CASE ~SeedCompany
    BY <2>2 DEF SeedStep, StartSeed, ClearRole, Grant, SeedPlatform, SeedSeries, SeedAdmin,
       SeedItems, Finish, CutOffSeed
  <2> QED BY <2>1, <2>2
<1>4. DOMAIN series \subseteq DOMAIN series' /\ \A t \in DOMAIN series : series'[t] = series[t]
  <2>1. CASE UNCHANGED series
    BY <2>1
  <2>2. CASE \E t : t \notin DOMAIN series /\ series' = SetAt(series, t, SeriesDefault)
    BY <2>2 DEF SetAt
  <2>3. CASE SeedSeries
    BY <2>1, <2>2, <2>3 DEF SeedSeries
  <2>4. CASE ~SeedSeries
    BY <2>4 DEF SeedStep, StartSeed, ClearRole, Grant, SeedPlatform, SeedCompany, SeedAdmin,
       SeedItems, Finish, CutOffSeed
  <2> QED BY <2>3, <2>4
<1>5. \A u \in User : u \in later'[q] \/ user'[u] = user[u]
  <2>1. ASSUME NEW t, NEW x, user' = [user EXCEPT ![t] = x], SeedWrote({t})
        PROVE  \A u \in User : u \in later'[q] \/ user'[u] = user[u]
    BY <1>1, <1>2, <2>1
  <2>2. CASE SeedPlatform
    <3>1. PICK x : user' = [user EXCEPT ![Platform] = x] /\ SeedWrote({Platform})
      BY <2>2 DEF SeedPlatform
    <3> QED BY <2>1, <3>1
  <2>3. CASE SeedAdmin
    <3>1. PICK x : user' = [user EXCEPT ![DemoAdmin] = x] /\ SeedWrote({DemoAdmin})
      BY <2>3 DEF SeedAdmin
    <3> QED BY <2>1, <3>1
  <2>4. CASE ~SeedPlatform /\ ~SeedAdmin
    BY <2>4 DEF SeedStep, StartSeed, ClearRole, Grant, SeedCompany, SeedSeries, SeedItems, Finish, CutOffSeed
  <2> QED BY <2>2, <2>3, <2>4
<1>6. starter \subseteq starter'
  BY DEF SeedStep, StartSeed, ClearRole, Grant, SeedPlatform, SeedCompany, SeedSeries, SeedAdmin,
         SeedItems, Finish, CutOffSeed
<1> QED BY <1>3, <1>4, <1>5, <1>6 DEF CellsOf

KeptBy(q) == ModulesKept(q) /\ SeriesKept(q) /\ UserKept(q) /\ StarterKept(q)

\* So what q was told stays true.
LEMMA KeptStays ==
  ASSUME JobsOk, NEW q \in Req, KeptBy(q), job'[q] = job[q],
         Watched(q) => CellsOf(q) /\ later[q] \subseteq later'[q], DOMAIN series' \subseteq ToSet(Series)
  PROVE  KeptBy(q)'
<1>1. CASE ~Watched(q)
  <2>1. job[q].at \in {"waiting", "refused"}
    BY <1>1 DEF Watched, Underway, At
  <2> QED BY <2>1 DEF KeptBy, ModulesKept, SeriesKept, UserKept, StarterKept, CreatedFrom, SavedUser, At,
          Applying, Metered
<1>2. CASE Watched(q)
  <2>1. PICK c : c = CallOf(q) /\ c = job'[q].call
    BY DEF CallOf
  <2>2. ModulesKept(q)'
    <3>1. "modules" \notin later'[q] => "modules" \notin later[q] /\ tenant'.modules = tenant.modules
      BY <1>2 DEF CellsOf
    <3> QED BY <3>1 DEF KeptBy, ModulesKept, At, CallOf, CreatedFrom
  <2>3. ASSUME NEW n, AppliedUpTo(q, n) PROVE AppliedUpTo(q, n)'
    BY <1>2, <2>3 DEF AppliedUpTo, Items, CallOf, CellsOf
  <2>4. SeriesKept(q)'
    <3>1. DOMAIN series = ToSet(Series) => DOMAIN series' = ToSet(Series)
      BY <1>2 DEF CellsOf
    <3>2. /\ At(q, "items") => AppliedUpTo(q, Pos(q) - 1)'
          /\ At(q, "done") /\ CallOf(q).op = "series" => AppliedUpTo(q, Len(Items(q)))'
      <4>1. PICK n : n = Pos(q) - 1
        OBVIOUS
      <4>2. PICK m : m = Len(Items(q))
        OBVIOUS
      <4>3. Pos(q)' = Pos(q) /\ Items(q)' = Items(q)
        BY DEF Pos, Items, CallOf
      <4>4. At(q, "items") => AppliedUpTo(q, n)
        BY <4>1 DEF KeptBy, SeriesKept
      <4>5. At(q, "done") /\ CallOf(q).op = "series" => AppliedUpTo(q, m)
        BY <4>2 DEF KeptBy, SeriesKept
      <4> QED BY <2>3, <4>1, <4>2, <4>3, <4>4, <4>5
    <3>3. /\ At(q, "items") => Pos(q) \in Nat \ {0} /\ Pos(q) <= Len(Items(q)) + 1
          /\ job[q].at \in Applying \/ (At(q, "done") /\ CallOf(q).op = "create") => DOMAIN series = ToSet(Series)
      BY DEF KeptBy, SeriesKept
    <3> HIDE DEF AppliedUpTo
    <3> QED BY <3>1, <3>2, <3>3 DEF SeriesKept, At, CallOf, Pos, Items
  <2>5. UserKept(q)'
    <3>1. SavedUser(q)' => SavedUser(q)
      BY DEF SavedUser, At, CallOf
    <3>2. SavedUser(q) => c.target \in later[q] \/ user[c.target] = Saved(user[c.target], c)
      BY <2>1 DEF KeptBy, UserKept
    <3>3. SavedUser(q) => c.target \in User
      <4>1. SavedUser(q) => CallOk(c)
        BY <2>1 DEF JobsOk, JobOk, CallOf, SavedUser, Places, At
      <4> QED BY <2>1, <4>1 DEF SavedUser, CallOk
    <3>4. SavedUser(q) => c.target \in later'[q] \/ user'[c.target] = Saved(user'[c.target], c)
      BY <1>2, <3>2, <3>3 DEF CellsOf
    <3> QED BY <2>1, <3>1, <3>4 DEF UserKept, CallOf
  <2>6. StarterKept(q)'
    BY <1>2 DEF KeptBy, StarterKept, CellsOf, CreatedFrom, At, CallOf
  <2> QED BY <2>2, <2>4, <2>5, <2>6 DEF KeptBy
<1> QED BY <1>1, <1>2

\* And what r is told when it ends is true, as is what it counts on until then.
LEMMA ItemApplied ==
  ASSUME JobsOk, NEW r \in Req, KeptBy(r), ReplaceSeries(r), Moves(r, "items", Saw(r), Pos(r) + 1)
  PROVE  SeriesKept(r)'
<1>1. At(r, "items") /\ "items" \in Places
  BY DEF ReplaceSeries, Places
<1>2. CallOf(r).op = "series" /\ CallOk(CallOf(r))
  BY <1>1, OpAt DEF Fits, Creating, Applying, Saving, Metered
<1>3. PICK its, n : its = Items(r) /\ n = Pos(r)
  OBVIOUS
<1>4. its \in Seq(ToSet(its)) /\ Len(its) \in Nat
  <2>1. its \in Seq(ToSet(its))
    BY <1>2, <1>3 DEF CallOk, Items
  <2>2. PICK S : its \in Seq(S)
    BY <2>1
  <2> QED BY <2>1, <2>2, LenProperties
<1>5. n \in Nat \ {0} /\ AppliedUpTo(r, n - 1)
  BY <1>1, <1>3 DEF KeptBy, SeriesKept
<1>6. ~Refuse(r) /\ ~Done(r)
  BY RefuseEnds, DoneEnds DEF EndsBadly, EndsWell, Moves
<1>7. /\ ~(n > Len(its)) /\ its[n].type \in DOMAIN series
      /\ series' = [series EXCEPT ![its[n].type] = its[n].prefix] /\ Wrote(r, {its[n].type})
  <2>1. ~(n > Len(its))
    BY <1>3, <1>6 DEF ReplaceSeries
  <2>2. LET item == its[n] IN
        IF item.type \in DOMAIN series /\ item.prefix # ""
          THEN series' = [series EXCEPT ![item.type] = item.prefix] /\ Wrote(r, {item.type})
          ELSE Refuse(r)
    BY <1>3, <2>1 DEF ReplaceSeries
  <2> QED BY <1>6, <2>1, <2>2
<1>8. later'[r] = later[r] \ {its[n].type}
  BY <1>7 DEF Wrote, Rewrote
<1>9. ASSUME NEW i \in 1..n
      PROVE  /\ its[i].type \in DOMAIN series'
             /\ its[i].type \notin later'[r] /\ (\A j \in 1..n : j > i => its[j].type # its[i].type)
                  => series'[its[i].type] = its[i].prefix
  <2>1. CASE i = n
    BY <1>7, <2>1
  <2>2. CASE i # n
    <3>1. i \in 1..(n - 1) /\ n \in 1..n /\ n > i
      BY <1>5, <2>2
    <3>2. \A j \in 1..(n - 1) : j \in 1..n
      BY <1>5
    <3>3. /\ its[i].type \in DOMAIN series
          /\ its[i].type \notin later[r] /\ (\A j \in 1..(n - 1) : j > i => its[j].type # its[i].type)
               => series[its[i].type] = its[i].prefix
      BY <1>3, <1>5, <3>1 DEF AppliedUpTo
    <3>4. CASE its[i].type = its[n].type
      BY <1>7, <3>1, <3>3, <3>4
    <3>5. CASE its[i].type # its[n].type
      BY <1>7, <1>8, <3>2, <3>3, <3>5
    <3> QED BY <3>4, <3>5
  <2> QED BY <2>1, <2>2
<1>10. Items(r)' = its /\ Pos(r)' = n + 1 /\ job'[r].at = "items"
  BY <1>3 DEF Moves, Items, CallOf, Pos
<1>11. AppliedUpTo(r, n)'
  BY <1>9, <1>10 DEF AppliedUpTo
<1>12. (n + 1) - 1 = n /\ n + 1 \in Nat \ {0} /\ n + 1 <= Len(its) + 1
  BY <1>4, <1>5, <1>7
<1>13. PICK m : m = Pos(r)' - 1
  OBVIOUS
<1>14. m = n
  BY <1>10, <1>12, <1>13
<1>15. AppliedUpTo(r, Pos(r) - 1)'
  BY <1>11, <1>13, <1>14 DEF AppliedUpTo
<1>16. job'[r].at \notin Applying \cup {"done"}
  BY <1>10 DEF Applying
<1> HIDE DEF AppliedUpTo
<1> QED BY <1>10, <1>12, <1>15, <1>16 DEF SeriesKept, At

LEMMA KeptOwn ==
  ASSUME JobsOk, Typed, Observed, NEW r \in Req, KeptBy(r), RequestStep(r), DOMAIN series' \subseteq ToSet(Series)
  PROVE  KeptBy(r)'
<1> DEFINE Goal == KeptBy(r)'
           Late == {"done", "items"} \cup Applying \cup Metered
           c == CallOf(r)
           Full == DOMAIN series' = ToSet(Series)
<1>1. ASSUME job'[r].at \notin Late PROVE Goal
  BY <1>1 DEF KeptBy, ModulesKept, SeriesKept, UserKept, StarterKept, CreatedFrom, SavedUser, At, Applying, Metered
<1>2. ASSUME job'[r].at \in {"done"} \cup Metered, job'[r].call.op \in {"settings", "billing", "ai"} PROVE Goal
  BY <1>2 DEF KeptBy, ModulesKept, SeriesKept, UserKept, StarterKept, CreatedFrom, SavedUser, At, CallOf,
       Applying, Metered
<1>3. ASSUME job'[r].at = "done" /\ job'[r].call.op = "company" /\ tenant'.modules = job'[r].call.modules PROVE Goal
  BY <1>3 DEF KeptBy, ModulesKept, SeriesKept, UserKept, StarterKept, CreatedFrom, SavedUser, At, CallOf,
       Applying, Metered
<1>4. ASSUME job'[r].at = "items" /\ SeriesKept(r)' PROVE Goal
  BY <1>4 DEF KeptBy, ModulesKept, UserKept, StarterKept, CreatedFrom, SavedUser, At, Metered
<1>5. ASSUME job'[r].at = "done" /\ job'[r].call.op = "series" /\ SeriesKept(r)' PROVE Goal
  BY <1>5 DEF KeptBy, ModulesKept, UserKept, StarterKept, CreatedFrom, SavedUser, At, CallOf, Metered
<1>6. ASSUME job'[r].at = "done" /\ job'[r].call.op = "create" /\ job'[r].call.template = "none" /\ Full PROVE Goal
  BY <1>6 DEF KeptBy, ModulesKept, SeriesKept, UserKept, StarterKept, CreatedFrom, SavedUser, At, CallOf, Metered,
       Applying
<1>7. ASSUME job'[r].at \in {"template", "applyTemplate"} /\ Full PROVE Goal
  BY <1>7 DEF KeptBy, ModulesKept, SeriesKept, UserKept, StarterKept, CreatedFrom, SavedUser, At, CallOf, Metered,
       Applying
<1>8. ASSUME job'[r].at \in {"starter", "again", "defaults", "bom"}, Full, ModulesKept(r)' PROVE Goal
  BY <1>8 DEF KeptBy, SeriesKept, UserKept, StarterKept, CreatedFrom, SavedUser, At, CallOf, Metered, Applying
<1>9. ASSUME job'[r].at \in {"done"} \cup Metered, job'[r].call.op \in {"createUser", "updateUser"}, UserKept(r)'
      PROVE  Goal
  BY <1>9 DEF KeptBy, ModulesKept, SeriesKept, StarterKept, CreatedFrom, SavedUser, At, CallOf, Metered, Applying
<1>10. ASSUME EndsBadly(r) PROVE Goal
  BY <1>1, <1>10 DEF EndsBadly, Applying, Metered
<1> HIDE DEF Goal
<1>11. ASSUME NEW p, p \notin Late, NEW STATE x, NEW STATE n, Moves(r, p, x, n) PROVE Goal
  BY <1>1, <1>11 DEF Moves
<1>12. ASSUME UNCHANGED job, job[r].at \notin Late PROVE Goal
  BY <1>1, <1>12
<1>13. ASSUME EndsWell(r) \/ (\E p \in Metered : \E x, n : Moves(r, p, x, n)), c.op \in {"settings", "billing", "ai"} PROVE Goal
  BY <1>2, <1>13 DEF EndsWell, Moves, CallOf
<1>14. \A p \in {"write", "series", "ensure", "provider", "countAdmins", "saveUser"} : p \notin Late
  BY DEF Applying, Metered
<1>15. \A d : CallOk(d) => d.op \notin Late
  BY DEF Applying, Metered, CallOk
<1> HIDE DEF Late
<1>16. ASSUME Enter(r) PROVE Goal
  <2>1. ASSUME Moves(r, c.op, Empty, 1), CallOk(c) PROVE Goal
    BY <1>11, <1>15, <2>1
  <2> QED BY <1>10, <1>16, <2>1, EnterMoves
<1>17. ASSUME ReadSettings(r) PROVE Goal
  BY <1>10, <1>11, <1>14, <1>17, ReadSettingsMoves
<1>18. ASSUME WriteSettings(r) PROVE Goal
  <2>1. At(r, "write") /\ "write" \in Places
    BY <1>18 DEF WriteSettings, Places
  <2>2. c.op \in {"settings", "billing"}
    BY <2>1, OpAt DEF Fits
  <2> QED BY <1>10, <1>13, <1>18, <2>2, WriteSettingsMoves
<1>19. ASSUME UpdateCompany(r) PROVE Goal
  <2>1. At(r, "company") /\ "company" \in Places
    BY <1>19 DEF UpdateCompany, Places
  <2>2. c.op = "company"
    BY <2>1, OpAt DEF Fits
  <2>3. CASE Exists /\ EndsWell(r)
    <3>1. tenant' = [tenant EXCEPT !.modules = c.modules, !.status = c.status]
      BY <1>19, <2>3 DEF UpdateCompany
    <3>2. tenant'.modules = c.modules
      BY <2>3, <3>1 DEF Typed, CompanyOk, PresentOk
    <3> QED BY <1>3, <2>2, <2>3, <3>2 DEF EndsWell, CallOf
  <2> QED BY <1>10, <1>19, <2>3, UpdateCompanyMoves
<1>20. ASSUME BeginSeries(r) PROVE Goal
  <2>1. At(r, "series") /\ "series" \in Places
    BY <1>20 DEF BeginSeries, Places
  <2>2. Pos(r) = 1 /\ c.op = "series" /\ CallOk(c)
    BY <2>1, OpAt DEF Fits
  <2>3. CASE Moves(r, "items", Saw(r), Pos(r))
    <3>1. Len(c.items) \in Nat
      <4>1. PICK S, its : its = c.items /\ its \in Seq(S)
        BY <2>2 DEF CallOk
      <4> QED BY <4>1, LenProperties
    <3>2. Pos(r)' = 1 /\ Items(r)' = c.items /\ job'[r].at = "items"
      BY <2>2, <2>3 DEF Moves, Pos, Items, CallOf
    <3>3. 1 - 1 = 0 /\ 1 <= Len(c.items) + 1 /\ 1 \in Nat \ {0} /\ \A i \in 1..0 : FALSE
      BY <3>1
    <3>4. "items" \notin Applying
      BY DEF Applying
    <3>5. SeriesKept(r)'
      BY <3>2, <3>3, <3>4 DEF SeriesKept, AppliedUpTo, At
    <3> QED BY <1>4, <3>2, <3>5
  <2> QED BY <1>12, <1>14, <1>20, <2>1, <2>3, BeginSeriesMoves DEF At
<1>21. ASSUME ReplaceSeries(r) PROVE Goal
  <2>1. At(r, "items") /\ "items" \in Places
    BY <1>21 DEF ReplaceSeries, Places
  <2>2. c.op = "series" /\ CallOk(c)
    BY <2>1, OpAt DEF Fits, Creating, Applying, Saving, Metered
  <2>3. CASE Moves(r, "items", Saw(r), Pos(r) + 1)
    BY <1>4, <1>21, <2>3, ItemApplied DEF Moves
  <2>4. CASE Pos(r) > Len(Items(r)) /\ EndsWell(r) /\ UNCHANGED series /\ Unobserved
    <3>1. PICK its, n : its = Items(r) /\ n = Pos(r)
      OBVIOUS
    <3>2. Len(its) \in Nat
      <4>1. PICK S : its \in Seq(S)
        BY <2>2, <3>1 DEF CallOk, Items
      <4> QED BY <4>1, LenProperties
    <3>3. n \in Nat \ {0} /\ n <= Len(its) + 1 /\ AppliedUpTo(r, n - 1)
      BY <2>1, <3>1 DEF KeptBy, SeriesKept
    <3>4. n - 1 = Len(its)
      BY <2>4, <3>1, <3>2, <3>3
    <3>5. AppliedUpTo(r, Len(its))
      BY <3>3, <3>4
    <3>6. Items(r)' = its /\ job'[r].at = "done" /\ job'[r].call.op = "series"
      BY <2>2, <2>4, <3>1 DEF Items, EndsWell, CallOf
    <3>7. AppliedUpTo(r, Len(Items(r)))'
      BY <2>4, <3>1, <3>5, <3>6 DEF AppliedUpTo, Unobserved
    <3>8. "done" \notin Applying
      BY DEF Applying
    <3> HIDE DEF AppliedUpTo
    <3>9. SeriesKept(r)'
      BY <3>6, <3>7, <3>8 DEF SeriesKept, At, CallOf
    <3> QED BY <1>5, <3>6, <3>9
  <2> QED BY <1>10, <1>21, <2>3, <2>4, ReplaceSeriesMoves
<1>22. ASSUME CreateCompany(r) PROVE Goal
  BY <1>10, <1>11, <1>14, <1>22, CreateCompanyMoves
<1>23. ASSUME EnsureForNew(r) PROVE Goal
  <2>1. At(r, "ensure") /\ "ensure" \in Places
    BY <1>23 DEF EnsureForNew, Places, Creating
  <2>2. c.op = "create"
    BY <2>1, OpAt DEF Fits, Creating
  <2>3. CASE ToSet(Series) \subseteq DOMAIN series /\ UNCHANGED series
    <3>1. Full
      BY <2>3
    <3>2. CASE c.template = "none" /\ EndsWell(r)
      BY <1>6, <2>2, <3>1, <3>2 DEF EndsWell, CallOf
    <3>3. CASE Moves(r, "template", Saw(r), Pos(r))
      BY <1>7, <3>1, <3>3 DEF Moves
    <3>4. CASE UNCHANGED job
      BY <1>12, <1>14, <2>1, <3>4 DEF At
    <3> QED BY <1>23, <3>2, <3>3, <3>4, EnsureForNewMoves
  <2>4. CASE UNCHANGED job
    BY <1>12, <1>14, <2>1, <2>4 DEF At
  <2> QED BY <1>23, <2>3, <2>4, EnsureForNewMoves
<1>24. ASSUME NEW p \in Applying, At(r, p), UNCHANGED series PROVE Full
  BY <1>24 DEF KeptBy, SeriesKept, At
<1>25. ASSUME ReadForTemplate(r) PROVE Goal
  <2>1. At(r, "template") /\ UNCHANGED series
    BY <1>25 DEF ReadForTemplate
  <2> QED BY <1>7, <1>24, <1>25, <2>1, ReadForTemplateMoves DEF Moves, Applying
<1>26. ASSUME ApplyTemplate(r) PROVE Goal
  <2>1. At(r, "applyTemplate") /\ UNCHANGED series
    BY <1>26 DEF ApplyTemplate
  <2>2. Full
    BY <1>24, <2>1 DEF Applying
  <2>3. job'[r].at = "starter" /\ job'[r].call = c
    BY <1>26, ApplyTemplateMoves DEF Moves, CallOf
  <2>4. PICK M, s : M = Template(c.template).modules /\ tenant' = [tenant EXCEPT !.modules = M, !.settings = s]
    BY <1>26 DEF ApplyTemplate
  <2>5. Exists
    BY <2>1 DEF Typed, CompanyOk, AbsentOk, At
  <2>6. tenant'.modules = M
    BY <2>4, <2>5 DEF Typed, CompanyOk, PresentOk
  <2>7. ModulesKept(r)'
    BY <2>3, <2>4, <2>6 DEF ModulesKept, At, CallOf
  <2> QED BY <1>8, <2>2, <2>3, <2>7
<1>27. ASSUME NEW p \in {"starter", "again", "defaults", "bom"}, At(r, p), tenant'.modules = tenant.modules,
              "modules" \in later[r] => "modules" \in later'[r], job'[r].call = c
       PROVE  "modules" \notin later'[r] => tenant'.modules = Template(c.template).modules
  BY <1>27 DEF KeptBy, ModulesKept, At
<1>28. ASSUME CreateStarter(r) \/ ReadAgain(r) \/ WriteDefaults(r) PROVE Goal
  <2>1. PICK p \in {"starter", "again", "defaults"} :
          At(r, p) /\ UNCHANGED series /\ job'[r].call = c /\ job'[r].at \in {"starter", "again", "defaults", "bom"}
    <3>1. CASE CreateStarter(r)
      BY <3>1, CreateStarterMoves DEF CreateStarter, Moves, CallOf
    <3>2. CASE ReadAgain(r)
      BY <3>2, ReadAgainMoves DEF ReadAgain, Moves, CallOf
    <3>3. CASE WriteDefaults(r)
      BY <3>3, WriteDefaultsMoves DEF WriteDefaults, Moves, CallOf
    <3> QED BY <1>28, <3>1, <3>2, <3>3
  <2>2. Full
    BY <1>24, <2>1 DEF Applying
  <2>3. Exists
    BY <2>1 DEF Typed, CompanyOk, AbsentOk, At
  <2>4. tenant'.modules = tenant.modules /\ ("modules" \in later[r] => "modules" \in later'[r])
    <3>1. CASE CreateStarter(r)
      BY <3>1 DEF CreateStarter, Unobserved
    <3>2. CASE ReadAgain(r)
      BY <3>2 DEF ReadAgain, Refreshes, HasRead
    <3>3. CASE WriteDefaults(r)
      <4>1. PICK s : tenant' = [tenant EXCEPT !.settings = s]
        BY <3>3 DEF WriteDefaults
      <4>2. tenant'.modules = tenant.modules
        BY <2>3, <4>1 DEF Typed, CompanyOk, PresentOk
      <4>3. PICK patch : patch = TemplateDefaults(c.template) /\ Rewritten(r, patch, {})
        BY <3>3 DEF WriteDefaults
      <4>4. "modules" \notin DOMAIN patch
        BY <4>3 DEF TemplateDefaults
      <4>5. later'[r] = later[r] \ DOMAIN patch
        BY <4>3 DEF Rewritten, Rewrote
      <4> QED BY <4>2, <4>4, <4>5
    <3> QED BY <1>28, <3>1, <3>2, <3>3
  <2>5. ModulesKept(r)'
    BY <1>27, <2>1, <2>4 DEF ModulesKept, At, CallOf, CreatedFrom
  <2> QED BY <1>8, <2>1, <2>2, <2>5
<1>29. ASSUME CreateBom(r) PROVE Goal
  <2>1. At(r, "bom") /\ EndsWell(r) /\ UNCHANGED <<series, tenant>> /\ Unobserved
    BY <1>29, CreateBomMoves DEF CreateBom
  <2>2. Full
    BY <1>24, <2>1 DEF Applying
  <2>3. job'[r].at = "done" /\ job'[r].call = c /\ c.op = "create" /\ c.template # "none"
    BY <2>1, TemplateAt DEF EndsWell, CallOf, Applying
  <2>4. ModulesKept(r)'
    <3>1. "modules" \notin later'[r] => tenant'.modules = Template(c.template).modules
      BY <1>27, <2>1, <2>3 DEF Unobserved
    <3> QED BY <2>3, <3>1 DEF ModulesKept, At, CallOf
  <2>5. StarterKept(r)'
    <3>1. ToSet(StarterItems(c.template)) \subseteq starter
      BY <2>1 DEF Typed, ReadOk, At
    <3>2. starter' = starter \cup ToSet(Template(c.template).bom)
      BY <1>29 DEF CreateBom
    <3> QED BY <2>3, <3>1, <3>2 DEF StarterKept, CallOf
  <2>6. SeriesKept(r)' /\ UserKept(r)'
    BY <2>2, <2>3 DEF SeriesKept, UserKept, SavedUser, At, CallOf
  <2> QED BY <2>4, <2>5, <2>6 DEF KeptBy, Goal
<1>30. ASSUME ReadTarget(r) PROVE Goal
  BY <1>10, <1>11, <1>14, <1>30, ReadTargetMoves
<1>31. ASSUME CountAdmins(r) PROVE Goal
  BY <1>10, <1>11, <1>14, <1>31, CountAdminsMoves
<1>32. user \in [User -> UserRow]
  BY DEF Typed, RowsOk
<1>33. ASSUME SaveUser(r) PROVE Goal
  <2>1. At(r, "saveUser") /\ "saveUser" \in Places
    BY <1>33 DEF SaveUser, Places, Saving
  <2>2. c.op = "updateUser" /\ job'[r].at = "done" /\ job'[r].call = c
    BY <1>33, <2>1, OpAt, SaveUserMoves DEF Fits, Saving, EndsWell, CallOf
  <2>3. c.target \in User /\ user' = [user EXCEPT ![c.target] = Saved(user[c.target], c)]
    BY <1>33, SavedWrites
  <2>4. user'[c.target] = Saved(user[c.target], c)
    BY <1>32, <2>3
  <2>5. user'[c.target] = Saved(user'[c.target], c)
    BY <2>4 DEF Saved
  <2>6. UserKept(r)'
    BY <2>2, <2>5 DEF UserKept, CallOf
  <2> QED BY <1>9, <2>2, <2>6
<1>34. ASSUME CreateUser(r) PROVE Goal
  <2>1. At(r, "createUser") /\ "createUser" \in Places
    BY <1>34 DEF CreateUser, Places
  <2>2. c.op = "createUser" /\ CallOk(c)
    BY <2>1, OpAt DEF Fits
  <2>3. CASE Moves(r, "bill", Saw(r), Pos(r))
    <3>1. PICK R : /\ R = GivenRoles(c)
                   /\ user' = [user EXCEPT ![c.target] = [status |-> "active", roles |-> R]]
      BY <1>34, <2>3, RefuseEnds DEF CreateUser, EndsBadly, Moves
    <3>2. c.target \in User /\ c.status = "active" /\ c.op = "createUser"
      BY <2>2 DEF CallOk
    <3>3. user'[c.target] = [status |-> "active", roles |-> R]
      BY <1>32, <3>1, <3>2
    <3>4. user'[c.target] = Saved(user'[c.target], c)
      BY <3>1, <3>2, <3>3 DEF Saved
    <3>5. job'[r].at = "bill" /\ job'[r].call = c
      BY <2>3 DEF Moves, CallOf
    <3>6. UserKept(r)'
      BY <3>4, <3>5 DEF UserKept, CallOf
    <3> QED BY <1>9, <2>2, <3>5, <3>6 DEF Metered
  <2> QED BY <1>10, <1>34, <2>3, CreateUserMoves
<1>35. ASSUME BeginAi(r) PROVE Goal
  <2>1. At(r, "ai") /\ "ai" \in Places
    BY <1>35 DEF BeginAi, Places
  <2>2. c.op = "ai"
    BY <2>1, OpAt DEF Fits
  <2>3. "bill" \in Metered
    BY DEF Metered
  <2> QED BY <1>10, <1>13, <1>35, <2>2, <2>3, BeginAiMoves
<1>36. ASSUME Answer(r) PROVE Goal
  <2>1. At(r, "provider") /\ "provider" \in Places
    BY <1>36 DEF Answer, Places
  <2>2. c.op = "ai"
    BY <2>1, OpAt DEF Fits
  <2>3. PICK n \in Units : Moves(r, "bill", Saw(r), n + 1)
    BY <1>36, AnswerMoves
  <2> QED BY <1>2, <2>2, <2>3 DEF Metered, Moves, CallOf
<1>37. ASSUME ReadBilling(r) \/ CheckRoom(r) \/ Record(r) PROVE Goal
  <2>1. PICK p \in Metered : At(r, p) /\ p \in Places
    BY <1>37 DEF ReadBilling, CheckRoom, Record, Metered, Places
  <2>2. c.op \in {"ai", "createUser"}
    BY <2>1, OpAt DEF Fits
  <2>3. UNCHANGED user /\ Unobserved
    BY <1>37 DEF ReadBilling, CheckRoom, Record
  <2>4. EndsBadly(r) \/ job'[r].at = "provider" \/ (job'[r].at \in {"done"} \cup Metered /\ job'[r].call = c)
    <3>1. CASE ReadBilling(r)
      BY <3>1, ReadBillingMoves DEF Moves, CallOf, Metered
    <3>2. CASE CheckRoom(r)
      BY <3>2, CheckRoomMoves DEF Moves, CallOf, Metered, EndsWell
    <3>3. CASE Record(r)
      BY <3>3, RecordMoves DEF CallOf, EndsWell
    <3> QED BY <1>37, <3>1, <3>2, <3>3
  <2>5. ASSUME job'[r].at \in {"done"} \cup Metered, job'[r].call = c, c.op = "createUser" PROVE Goal
    <3>1. SavedUser(r)
      BY <2>1, <2>5 DEF SavedUser, At
    <3>2. c.target \in later[r] \/ user[c.target] = Saved(user[c.target], c)
      BY <3>1 DEF KeptBy, UserKept
    <3>3. UserKept(r)'
      BY <2>3, <2>5, <3>2 DEF UserKept, CallOf, Unobserved
    <3> QED BY <1>9, <2>5, <3>3
  <2> QED BY <1>1, <1>2, <1>10, <1>14, <2>2, <2>4, <2>5
<1>38. Goal
  BY <1>16, <1>17, <1>18, <1>19, <1>20, <1>21, <1>22, <1>23, <1>25, <1>26, <1>28, <1>29, <1>30, <1>31,
     <1>33, <1>34, <1>35, <1>36, <1>37 DEF RequestStep, SettingsStep, UsersStep
<1> QED BY <1>38 DEF Goal

LEMMA KeptNext ==
  JobsOk /\ Typed /\ Observed /\ Kept /\ Typed' /\ [Next]_vars => Kept'
<1> SUFFICES ASSUME JobsOk, Typed, Observed, Kept, Typed', [Next]_vars PROVE Kept'
  OBVIOUS
<1>1. SettingsKept /\ \A q \in Req : KeptBy(q)
  BY DEF Kept, KeptBy
<1>2. DOMAIN series' \subseteq ToSet(Series)
  BY DEF Typed, RowsOk
<1>3. ASSUME SettingsKept', \A q \in Req : KeptBy(q)' PROVE Kept'
  BY <1>3 DEF Kept, KeptBy
<1>4. ASSUME NEW r \in Req, RequestStep(r) PROVE Kept'
  <2>1. SettingsKept'
    BY <1>1, <1>4, SettingsRequest
  <2>2. KeptBy(r)'
    BY <1>1, <1>2, <1>4, KeptOwn
  <2>3. ASSUME NEW q \in Req \ {r} PROVE KeptBy(q)'
    <3>1. job'[q] = job[q] /\ StillMissed(q)
      BY <1>4, JobsStep, Misses DEF OthersStay
    <3>2. Exists /\ Watched(q) => CellsOf(q)
      BY <1>4, CellsRequest
    <3>3. CASE Exists
      BY <1>1, <1>2, <3>1, <3>2, <3>3, KeptStays DEF StillMissed
    <3>4. CASE ~Exists
      <4>1. job'[q].at \in {"waiting", "refused", "create", "company", "billing"}
        BY <3>1, <3>4 DEF Typed, CompanyOk, AbsentOk
      <4> QED BY <4>1 DEF KeptBy, ModulesKept, SeriesKept, UserKept, StarterKept, CreatedFrom, SavedUser, At,
            Applying, Metered
    <3> QED BY <3>3, <3>4
  <2> QED BY <1>3, <2>1, <2>2, <2>3
<1>5. ASSUME SeedStep PROVE Kept'
  <2>1. SettingsKept'
    BY <1>1, <1>5, SettingsSeeded
  <2>2. UNCHANGED job
    BY <1>5 DEF SeedStep, StartSeed, ClearRole, Grant, SeedPlatform, SeedCompany, SeedSeries, SeedAdmin,
         SeedItems, Finish, CutOffSeed
  <2>3. \A q \in Req : StillMissed(q) /\ (Watched(q) => CellsOf(q))
    BY <1>5, SeedMisses, CellsSeed
  <2>4. \A q \in Req : KeptBy(q)'
    BY <1>1, <1>2, <2>2, <2>3, KeptStays DEF StillMissed
  <2> QED BY <1>3, <2>1, <2>4
<1>6. CASE (NewDay /\ UNCHANGED seed) \/ UNCHANGED vars
  <2>1. UNCHANGED <<tenant, series, starter, user, job, missed, later>>
    BY <1>6 DEF NewDay, Unobserved, vars
  <2>2. \A q \in Req : StillMissed(q) /\ CellsOf(q)
    BY <2>1 DEF StillMissed, CellsOf
  <2>3. \A q \in Req : KeptBy(q)'
    BY <1>1, <1>2, <2>1, <2>2, KeptStays DEF StillMissed
  <2>4. \A q \in Req : CountsOnNoMore(q) /\ HasInHand(q)
    BY <2>1, <2>2, OthersQuiet
  <2>5. SettingsKept'
    BY <1>1, <2>1, <2>4, SettingsQuiet DEF Settings
  <2> QED BY <1>3, <2>3, <2>5
<1> QED BY <1>4, <1>5, <1>6 DEF Next

LEMMA KeptInit == TenantInit => Kept
<1> SUFFICES ASSUME TenantInit PROVE Kept
  OBVIOUS
<1>1. \A r \in Req : job[r].at = "waiting"
  BY DEF TenantInit
<1>2. \A q \in Req : DOMAIN InForce(q) = {}
  BY <1>1 DEF InForce, CreatedFrom, At, Empty
<1>3. \A r \in Req : ModulesKept(r) /\ SeriesKept(r) /\ UserKept(r) /\ StarterKept(r)
  BY <1>1 DEF ModulesKept, SeriesKept, UserKept, StarterKept, CreatedFrom, SavedUser, At, Applying, Metered
<1> QED BY <1>2, <1>3 DEF Kept, SettingsKept

\* The books that are kept say what was promised.
LEMMA KeptIsAcknowledged == JobsOk /\ Kept => AcknowledgedIsKept
<1> SUFFICES ASSUME JobsOk, Kept, NEW r \in Req, At(r, "done")
             PROVE  LET c == CallOf(r) IN
                    /\ c.op \in {"settings", "billing"} => Holds(r, c.patch)
                    /\ c.op = "series" => HoldsSeries(r)
                    /\ c.op = "company" /\ "modules" \notin later[r] => tenant.modules = c.modules
                    /\ c.op = "create" =>
                         /\ DOMAIN series = ToSet(Series)
                         /\ c.template # "none" => HoldsTemplate(r, c.template)
                    /\ c.op \in {"createUser", "updateUser"} /\ c.target \notin later[r] =>
                         user[c.target] = Saved(user[c.target], c)
  BY DEF AcknowledgedIsKept
<1> DEFINE c == CallOf(r)
<1>1. CallOk(c)
  BY DEF JobsOk, JobOk, CallOf, At
<1>2. \A k \in DOMAIN InForce(r) \ later[r] : k \in DOMAIN Settings /\ Settings[k] = InForce(r)[k]
  BY DEF Kept, SettingsKept, SettingKept, Has
<1>3. ASSUME NEW patch, InForce(r) = patch PROVE Holds(r, patch)
  BY <1>2, <1>3 DEF Holds
<1>4. c.op \in {"settings", "billing"} => Holds(r, c.patch)
  BY <1>3 DEF InForce
<1>5. c.op = "series" => HoldsSeries(r)
  <2> SUFFICES ASSUME c.op = "series" PROVE HoldsSeries(r)
    OBVIOUS
  <2>1. AppliedUpTo(r, Len(Items(r)))
    BY DEF Kept, SeriesKept
  <2>2. DOMAIN Items(r) = 1..Len(Items(r))
    <3>1. PICK S, its : its = Items(r) /\ its \in Seq(S)
      BY <1>1 DEF CallOk, Items
    <3> QED BY <3>1, LenProperties
  <2> QED BY <2>1, <2>2 DEF HoldsSeries, AppliedUpTo
<1>6. c.op = "company" /\ "modules" \notin later[r] => tenant.modules = c.modules
  BY DEF Kept, ModulesKept
<1>7. c.op = "create" => DOMAIN series = ToSet(Series)
  BY DEF Kept, SeriesKept
<1>8. ASSUME c.op = "create", c.template # "none" PROVE HoldsTemplate(r, c.template)
  <2>1. CreatedFrom(r) /\ c.template \in TemplateCode
    BY <1>1, <1>8 DEF CreatedFrom, CallOk, TemplateCode
  <2>2. InForce(r) = Overlay(TemplateDefaults(c.template), TemplateSettings(c.template))
    BY <1>8, <2>1 DEF InForce
  <2>3. Holds(r, Overlay(TemplateDefaults(c.template), TemplateSettings(c.template)))
    BY <1>3, <2>2
  <2>4. ToSet(StarterItems(c.template) \o Template(c.template).bom) \subseteq starter
    BY <2>1, TemplateRows DEF Kept, StarterKept
  <2>5. "modules" \notin later[r] => tenant.modules = Template(c.template).modules
    BY <2>1 DEF Kept, ModulesKept
  <2> QED BY <2>3, <2>4, <2>5 DEF HoldsTemplate
<1>9. c.op \in {"createUser", "updateUser"} /\ c.target \notin later[r] =>
        user[c.target] = Saved(user[c.target], c)
  <2>1. c.op \in {"createUser", "updateUser"} => SavedUser(r)
    BY DEF SavedUser, At
  <2>2. SavedUser(r) => c.target \in later[r] \/ user[c.target] = Saved(user[c.target], c)
    BY DEF Kept, UserKept
  <2> QED BY <2>1, <2>2
<1> QED BY <1>4, <1>5, <1>6, <1>7, <1>8, <1>9

----------------------------------------------------------------------------
(* The seed. *)

Restored(x) == grants[x] = ToSet(Declared[x])

SeedInv ==
  LET n == Len(RoleOrder) IN
  /\ grants \in [Role -> SUBSET Permission]
  /\ DOMAIN seed = {"at", "pos", "item", "left", "done"}
  /\ SeedAt("clear") \/ SeedAt("grant") =>
       /\ seed.pos \in 1..AtLeast(1, n)
       /\ \A i \in 1..(seed.pos - 1) : RoleOrder[i] = Current \/ Restored(RoleOrder[i])
  /\ SeedAt("grant") =>
       /\ seed.item \in Nat \ {0}
       /\ Current \in Role => /\ seed.item <= Len(Declared[Current]) + 1
                              /\ grants[Current] = {Declared[Current][i] : i \in 1..(seed.item - 1)}
  /\ seed.at \in {"platform", "demo", "series", "admin", "items", "finish"} \/ seed.done =>
       \A i \in 1..n : Restored(RoleOrder[i])
  /\ seed.done => SeedAt("off")

\* No request touches the permissions of a role.
LEMMA GrantsLeft ==
  ASSUME NEW r \in Req, RequestStep(r)
  PROVE  UNCHANGED <<grants, seed>>
BY DEF RequestStep, Enter, SettingsStep, ReadSettings, WriteSettings, UpdateCompany, BeginSeries,
       ReplaceSeries, CreateCompany, EnsureForNew, ReadForTemplate, ApplyTemplate, CreateStarter,
       ReadAgain, WriteDefaults, CreateBom, UsersStep, ReadTarget, CountAdmins, SaveUser, CreateUser,
       BeginAi, ReadBilling, CheckRoom, Answer, Record

LEMMA Roles ==
  /\ Len(RoleOrder) \in Nat /\ \A i \in 1..Len(RoleOrder) : RoleOrder[i] \in Role
  /\ \A x \in Role : /\ Len(Declared[x]) \in Nat
                     /\ \A i \in 1..Len(Declared[x]) : Declared[x][i] \in Permission
                     /\ ToSet(Declared[x]) = {Declared[x][i] : i \in 1..Len(Declared[x])}
BY SeedConstants, CompanyConstants DEF ToSet

LEMMA StartSeeds == ASSUME SeedInv, StartSeed PROVE SeedInv'
<1>1. /\ UNCHANGED grants
      /\ seed' = [at |-> "clear", pos |-> 1, item |-> 1, left |-> seed.left - 1, done |-> FALSE]
  BY DEF StartSeed
<1>2. seed'.pos \in 1..AtLeast(1, Len(RoleOrder)) /\ 1..(seed'.pos - 1) = {}
  BY <1>1, Roles DEF AtLeast
<1> QED BY <1>1, <1>2 DEF SeedInv, SeedAt

LEMMA ClearSeeds == ASSUME SeedInv, ClearRole PROVE SeedInv'
<1> DEFINE c == Current
<1>1. /\ SeedAt("clear") /\ grants' = [grants EXCEPT ![c] = {}]
      /\ seed' = [seed EXCEPT !.at = "grant", !.item = 1]
  BY DEF ClearRole, ClearedGrants
<1>2. grants \in [Role -> SUBSET Permission] /\ SeedShape
  BY DEF SeedInv, SeedShape
<1>3. /\ seed'.at = "grant" /\ seed'.item = 1 /\ seed'.pos = seed.pos /\ seed'.done = seed.done
      /\ DOMAIN seed' = DOMAIN seed
  BY <1>1, <1>2 DEF SeedShape
<1>4. Current' = c
  BY <1>3 DEF Current
<1> HIDE DEF c
<1>5. /\ grants' \in [Role -> SUBSET Permission] /\ (c \in Role => grants'[c] = {})
      /\ \A x \in Role \ {c} : grants'[x] = grants[x]
  BY <1>1, <1>2
<1>6. /\ seed.pos \in 1..AtLeast(1, Len(RoleOrder))
      /\ \A i \in 1..(seed.pos - 1) : RoleOrder[i] = c \/ Restored(RoleOrder[i])
  BY <1>1 DEF SeedInv, c
<1>7. \A i \in 1..(seed.pos - 1) : RoleOrder[i] \in Role
  BY <1>6, Roles DEF AtLeast
<1>8. \A i \in 1..(seed.pos - 1) : RoleOrder[i] = c \/ Restored(RoleOrder[i])'
  BY <1>5, <1>6, <1>7 DEF Restored
<1>9. {Declared[c][i] : i \in 1..(seed'.item - 1)} = {}
  BY <1>3
<1>10. ~seed.done
  BY <1>1 DEF SeedInv, SeedAt
<1>11. c \in Role => seed'.item <= Len(Declared[c]) + 1
  BY <1>3, Roles
<1> QED BY <1>2, <1>3, <1>4, <1>5, <1>6, <1>8, <1>9, <1>10, <1>11 DEF SeedInv, SeedAt, SeedShape

LEMMA GrantSeeds == ASSUME SeedInv, Grant PROVE SeedInv'
<1> DEFINE c == Current
           n == Len(RoleOrder)
<1>1. /\ SeedAt("grant") /\ grants \in [Role -> SUBSET Permission] /\ SeedShape
      /\ seed.pos \in 1..AtLeast(1, n) /\ seed.item \in Nat \ {0} /\ n \in Nat
      /\ \A i \in 1..(seed.pos - 1) : RoleOrder[i] = c \/ Restored(RoleOrder[i])
      /\ c \in Role => /\ seed.item <= Len(Declared[c]) + 1
                       /\ grants[c] = {Declared[c][i] : i \in 1..(seed.item - 1)}
      /\ ~seed.done
  BY Roles DEF SeedInv, SeedShape, SeedAt, Grant
<1>2. \A i \in 1..(seed.pos - 1) : RoleOrder[i] \in Role /\ i \in 1..n
  BY <1>1, Roles DEF AtLeast
<1>3. CASE seed.item <= Len(Declared[c])
  <2>1. /\ grants' = [grants EXCEPT ![c] = @ \cup {Declared[c][seed.item]}]
        /\ seed' = [seed EXCEPT !.item = @ + 1]
    BY <1>3 DEF Grant
  <2>2. /\ seed'.at = "grant" /\ seed'.item = seed.item + 1 /\ seed'.pos = seed.pos /\ ~seed'.done
        /\ DOMAIN seed' = DOMAIN seed
    BY <1>1, <2>1 DEF SeedShape, SeedAt
  <2>3. Current' = c
    BY <2>2 DEF Current
  <2> HIDE DEF c, n
  <2>4. c \in Role => Declared[c][seed.item] \in Permission
    BY <1>1, <1>3, Roles
  <2>5. /\ grants' \in [Role -> SUBSET Permission] /\ \A x \in Role \ {c} : grants'[x] = grants[x]
        /\ c \in Role => grants'[c] = grants[c] \cup {Declared[c][seed.item]}
    BY <1>1, <2>1, <2>4
  <2>6. \A i \in 1..(seed.pos - 1) : RoleOrder[i] = c \/ Restored(RoleOrder[i])'
    BY <1>1, <1>2, <2>5 DEF Restored
  <2>7. c \in Role => grants'[c] = {Declared[c][i] : i \in 1..(seed'.item - 1)}
    <3>1. 1..(seed'.item - 1) = 1..(seed.item - 1) \cup {seed.item}
      BY <1>1, <2>2
    <3>2. PICK S : S = 1..(seed.item - 1)
      OBVIOUS
    <3>3. {Declared[c][i] : i \in S \cup {seed.item}}
            = {Declared[c][i] : i \in S} \cup {Declared[c][seed.item]}
      OBVIOUS
    <3> QED BY <1>1, <2>5, <3>1, <3>2, <3>3
  <2>8. c \in Role => seed'.item <= Len(Declared[c]) + 1
    BY <1>1, <1>3, <2>2, Roles
  <2> QED BY <1>1, <2>2, <2>3, <2>5, <2>6, <2>7, <2>8 DEF SeedInv, SeedAt, SeedShape, n
<1>4. CASE ~(seed.item <= Len(Declared[c]))
  <2>1. /\ UNCHANGED grants
        /\ IF seed.pos < n THEN seed' = [seed EXCEPT !.at = "clear", !.pos = @ + 1]
                           ELSE SeedGoes("platform")
    BY <1>4 DEF Grant
  <2>2. ASSUME c \in Role PROVE Restored(c)
    <3>1. Len(Declared[c]) \in Nat /\ ToSet(Declared[c]) = {Declared[c][i] : i \in 1..Len(Declared[c])}
      BY <2>2, Roles
    <3>2. seed.item - 1 = Len(Declared[c])
      BY <1>1, <1>4, <2>2, <3>1
    <3> QED BY <1>1, <2>2, <3>1, <3>2 DEF Restored
  <2>3. \A i \in 1..(seed.pos - 1) : Restored(RoleOrder[i])
    BY <1>1, <1>2, <2>2
  <2>4. n > 0 => Restored(RoleOrder[seed.pos])
    <3>1. n > 0 => c \in Role
      BY <1>1, Roles DEF AtLeast, Current
    <3> QED BY <2>2, <3>1 DEF Current
  <2>5. n > 0 => \A i \in 1..seed.pos : Restored(RoleOrder[i])
    BY <1>1, <2>3, <2>4 DEF AtLeast
  <2> HIDE DEF c, n
  <2>6. \A x : Restored(x) => Restored(x)'
    BY <2>1 DEF Restored
  <2>7. CASE seed.pos < n
    <3>1. seed' = [seed EXCEPT !.at = "clear", !.pos = @ + 1]
      BY <2>1, <2>7
    <3>2. seed'.at = "clear" /\ seed'.pos = seed.pos + 1 /\ ~seed'.done /\ DOMAIN seed' = DOMAIN seed
      BY <1>1, <3>1 DEF SeedShape
    <3>3. seed'.pos \in 1..AtLeast(1, n) /\ seed'.pos - 1 = seed.pos /\ n > 0
      BY <1>1, <2>7, <3>2 DEF AtLeast
    <3> QED BY <1>1, <2>1, <2>5, <2>6, <3>2, <3>3 DEF SeedInv, SeedAt, SeedShape, n
  <2>8. CASE ~(seed.pos < n)
    <3>1. seed' = [seed EXCEPT !.at = "platform", !.pos = 1, !.item = 1]
      BY <2>1, <2>8 DEF SeedGoes
    <3>2. seed'.at = "platform" /\ ~seed'.done /\ DOMAIN seed' = DOMAIN seed
      BY <1>1, <3>1 DEF SeedShape
    <3>3. \A i \in 1..n : Restored(RoleOrder[i])
      BY <1>1, <2>5, <2>8 DEF AtLeast
    <3> QED BY <1>1, <2>1, <2>6, <3>2, <3>3 DEF SeedInv, SeedAt, SeedShape, n
  <2> QED BY <2>7, <2>8
<1> QED BY <1>3, <1>4

\* The rest of the script leaves the permissions.
LEMMA RestSeeds ==
  ASSUME SeedInv, SeedPlatform \/ SeedCompany \/ SeedSeries \/ SeedAdmin \/ SeedItems \/ Finish \/ CutOffSeed
  PROVE  SeedInv'
<1> DEFINE Later == {"platform", "demo", "series", "admin", "items", "finish"}
<1>1. UNCHANGED grants /\ SeedShape
  BY DEF SeedPlatform, SeedCompany, SeedSeries, SeedAdmin, SeedItems, Finish, CutOffSeed, SeedInv, SeedShape
<1>2. \A x : Restored(x) => Restored(x)'
  BY <1>1 DEF Restored
<1>3. ASSUME DOMAIN seed' = DOMAIN seed, seed'.at \in Later \cup {"off"},
             seed'.done => seed.done \/ seed.at \in Later, seed'.done => seed'.at = "off",
             seed'.at \in Later => seed.at \in Later
      PROVE  SeedInv'
  BY <1>1, <1>2, <1>3 DEF SeedInv, SeedAt, SeedShape
<1>4. ASSUME NEW p \in Later, SeedGoes(p), seed.at \in Later PROVE SeedInv'
  <2>1. DOMAIN seed' = DOMAIN seed /\ seed'.at = p /\ seed'.done = seed.done
    BY <1>1, <1>4 DEF SeedGoes, SeedShape
  <2>2. ~seed.done
    BY <1>4 DEF SeedInv, SeedAt
  <2> QED BY <1>3, <1>4, <2>1, <2>2
<1>5. ASSUME UNCHANGED seed PROVE SeedInv'
  BY <1>1, <1>2, <1>5 DEF SeedInv, SeedAt, Current
<1>6. ASSUME SeedPlatform \/ SeedCompany \/ SeedSeries \/ SeedAdmin PROVE SeedInv'
  BY <1>4, <1>5, <1>6 DEF SeedPlatform, SeedCompany, SeedSeries, SeedAdmin, SeedAt
<1>7. ASSUME SeedItems PROVE SeedInv'
  <2>1. SeedAt("items") /\ (SeedGoes("finish") \/ seed' = [seed EXCEPT !.pos = @ + 1])
    BY <1>7 DEF SeedItems
  <2>2. ASSUME seed' = [seed EXCEPT !.pos = @ + 1] PROVE SeedInv'
    <3>1. DOMAIN seed' = DOMAIN seed /\ seed'.at = seed.at /\ seed'.done = seed.done
      BY <1>1, <2>2 DEF SeedShape
    <3>2. ~seed.done
      BY <2>1 DEF SeedInv, SeedAt
    <3> QED BY <1>3, <2>1, <3>1, <3>2 DEF SeedAt
  <2> QED BY <1>4, <2>1, <2>2 DEF SeedAt
<1>8. ASSUME Finish PROVE SeedInv'
  <2>1. SeedAt("finish") /\ seed' = [seed EXCEPT !.at = "off", !.pos = 0, !.item = 0, !.done = TRUE]
    BY <1>8 DEF Finish
  <2>2. DOMAIN seed' = DOMAIN seed /\ seed'.at = "off"
    BY <1>1, <2>1 DEF SeedShape
  <2> QED BY <1>3, <2>1, <2>2 DEF SeedAt
<1>9. ASSUME CutOffSeed PROVE SeedInv'
  <2>1. seed.at # "off" /\ seed' = [seed EXCEPT !.at = "off", !.pos = 0, !.item = 0]
    BY <1>9 DEF CutOffSeed
  <2>2. DOMAIN seed' = DOMAIN seed /\ seed'.at = "off" /\ seed'.done = seed.done
    BY <1>1, <2>1 DEF SeedShape
  <2>3. ~seed.done
    BY <2>1 DEF SeedInv, SeedAt
  <2> QED BY <1>3, <2>2, <2>3
<1> QED BY <1>6, <1>7, <1>8, <1>9

LEMMA SeedNext == SeedInv /\ [Next]_vars => SeedInv'
<1> SUFFICES ASSUME SeedInv, [Next]_vars PROVE SeedInv'
  OBVIOUS
<1>1. ASSUME UNCHANGED <<grants, seed>> PROVE SeedInv'
  BY <1>1 DEF SeedInv, SeedAt, Current, Restored
<1>2. NewDay => UNCHANGED grants
  BY DEF NewDay
<1>3. UNCHANGED vars => UNCHANGED <<grants, seed>>
  BY DEF vars
<1> QED BY <1>1, <1>2, <1>3, GrantsLeft, StartSeeds, ClearSeeds, GrantSeeds, RestSeeds DEF Next, SeedStep

LEMMA SeedInit == TenantInit => SeedInv
<1> SUFFICES ASSUME TenantInit PROVE SeedInv
  OBVIOUS
<1>1. PICK n : seed = NotRunning(n)
  BY DEF TenantInit
<1>2. grants \in [Role -> SUBSET Permission]
  BY CompanyConstants DEF TenantInit
<1> QED BY <1>1, <1>2 DEF NotRunning, SeedInv, SeedAt

----------------------------------------------------------------------------
(* The theorems. *)

\* After a run of the seed that came to its end, each role has the permissions
\* declared for it, no more and no less, whatever earlier runs left behind and
\* wherever they were cut off (prisma/seed.ts).
THEOREM SeedRestoresRoles == Spec => []SeedRestores
<1>1. SeedInv => SeedRestores
  <2>1. ToSet(RoleOrder) = {RoleOrder[i] : i \in 1..Len(RoleOrder)}
    BY SeedConstants DEF ToSet
  <2> QED BY <2>1 DEF SeedInv, SeedRestores, Restored
<1> QED BY <1>1, SeedInit, SeedNext, PTL DEF Spec

----------------------------------------------------------------------------
(* All of it together. *)

LEMMA TypedNext == JobsOk /\ Typed /\ SeedInv /\ [Next]_vars => Typed'
<1> SUFFICES ASSUME JobsOk, Typed, SeedInv, [Next]_vars PROVE Typed'
  OBVIOUS
<1> USE DEF Typed
<1>1. ASSUME NEW r \in Req, RequestStep(r) PROVE Typed'
  <2>1. CompanyOk'
    BY <1>1, PresentRequest, AbsentRequest DEF CompanyOk
  <2>2. \A q \in Req \ {r} : ReadOk(q)'
    <3>1. starter \subseteq starter'
      BY <1>1, StarterGrows
    <3>2. \A x \in User : user[x].status # "none" => user'[x].status # "none"
      BY <1>1, UserTyped DEF RowsOk
    <3>3. \A q \in Req \ {r} : job'[q] = job[q]
      BY <1>1, JobsStep DEF OthersStay
    <3> QED BY <3>1, <3>2, <3>3, ReadStays
  <2>3. ReadOk(r)'
    BY <1>1, OwnRead
  <2>4. RowsOk'
    BY <1>1, SeriesTyped, UserTyped DEF RowsOk
  <2> QED BY <2>1, <2>2, <2>3, <2>4
<1>2. ASSUME SeedStep PROVE Typed'
  <2>1. CompanyOk' /\ starter \subseteq starter'
    BY <1>2, CompanySeeded DEF SeedInv, SeedShape
  <2>2. RowsOk' /\ \A x \in User : user[x].status # "none" => user'[x].status # "none"
    <3>1. user' \in [User -> UserRow] /\ \A x \in User : user[x].status # "none" => user'[x].status # "none"
      BY <1>2, UserSeeded DEF RowsOk
    <3>2. DOMAIN series' \subseteq ToSet(Series)
      BY <1>2, SeriesSeeded DEF RowsOk
    <3> QED BY <3>1, <3>2 DEF RowsOk
  <2>3. UNCHANGED job
    BY <1>2 DEF SeedStep, StartSeed, ClearRole, Grant, SeedPlatform, SeedCompany, SeedSeries,
         SeedAdmin, SeedItems, Finish, CutOffSeed
  <2>4. \A q \in Req : ReadOk(q)'
    BY <2>1, <2>2, <2>3, ReadStays
  <2> QED BY <2>1, <2>2, <2>4
<1>3. CASE (NewDay /\ UNCHANGED seed) \/ UNCHANGED vars
  <2>1. UNCHANGED <<tenant, series, starter, user, job, seed>>
    BY <1>3 DEF NewDay, vars
  <2>2. CompanyOk' /\ RowsOk'
    BY <2>1 DEF CompanyOk, PresentOk, AbsentOk, RowsOk, Exists, Settings, SettingsIn
  <2>3. \A q \in Req : ReadOk(q)'
    BY <2>1, ReadStays
  <2> QED BY <2>2, <2>3
<1> QED BY <1>1, <1>2, <1>3 DEF Next

LEMMA TypedInit == TenantInit => Typed
<1> SUFFICES ASSUME TenantInit PROVE Typed
  OBVIOUS
<1>1. PICK mix \in Mix0 :
        /\ tenant = mix.tenant /\ job = [r \in Req |-> [at |-> "waiting", call |-> mix.call[r]]]
        /\ seed = NotRunning(mix.runs)
  BY DEF TenantInit
<1>2. tenant = NoCompany \/ TenantOk(tenant)
  BY <1>1, TenantConstants
<1>3. User0 \in [User -> UserRow] /\ user = [u \in User |-> IF Exists \/ u = Platform THEN User0[u] ELSE NoUser]
  BY TenantConstants DEF TenantInit
<1>4. user \in [User -> UserRow]
  BY <1>3, UserRows
<1>5. PICK older \in (IF Exists THEN {Series, Tail(Series)} ELSE {<<>>}) :
        series = [t \in ToSet(older) |-> SeriesDefault]
  BY DEF TenantInit
<1>6. starter = IF Exists THEN {"WH-A"} ELSE {}
  BY DEF TenantInit
<1>7. ToSet(Tail(Series)) \subseteq ToSet(Series)
  <2>1. Series \in Seq(ToSet(Series)) /\ Series # <<>>
    BY TenantConstants
  <2>2. PICK S : S = ToSet(Series) /\ Series \in Seq(S)
    BY <2>1
  <2>3. /\ Tail(Series) \in Seq(S) /\ Len(Tail(Series)) = Len(Series) - 1
        /\ \A i \in 1..Len(Tail(Series)) : Tail(Series)[i] = Series[i + 1]
    BY <2>1, <2>2, HeadTailProperties
  <2>4. \A i \in DOMAIN Tail(Series) : i + 1 \in DOMAIN Series
    BY <2>2, <2>3
  <2>5. \A i \in DOMAIN Tail(Series) : Tail(Series)[i] = Series[i + 1]
    BY <2>3
  <2> QED BY <2>4, <2>5 DEF ToSet
<1>8. DOMAIN series \subseteq ToSet(Series)
  <2>1. DOMAIN series = ToSet(older)
    BY <1>5
  <2>2. ToSet(<<>>) \subseteq ToSet(Series)
    BY DEF ToSet
  <2>3. older \in {Series, Tail(Series), <<>>}
    BY <1>5
  <2> QED BY <1>7, <2>1, <2>2, <2>3
<1>9. \A r \in Req : ReadOk(r)
  BY <1>1 DEF ReadOk, Writing, At
<1>10. CASE Exists
  <2>1. TenantOk(tenant)
    BY <1>2, <1>10 DEF Exists, NoCompany
  <2>2. PresentOk
    BY <2>1 DEF PresentOk, TenantOk, SettingsIn, Settings
  <2> QED BY <1>4, <1>8, <1>9, <1>10, <2>2 DEF Typed, RowsOk, CompanyOk
<1>11. CASE ~Exists
  <2>1. series = Empty /\ starter = {}
    BY <1>5, <1>6, <1>11 DEF ToSet, Empty
  <2>2. AbsentOk
    BY <1>1, <1>3, <1>11, <2>1 DEF AbsentOk, NotRunning
  <2> QED BY <1>4, <1>8, <1>9, <1>11, <2>2 DEF Typed, RowsOk, CompanyOk
<1> QED BY <1>10, <1>11

----------------------------------------------------------------------------
(* The quotas. *)

\* A cap in force is one that was given, or the default while the feature is off.
Capped(b, switch, k) ==
  /\ b[k] \in Caps(switch, k) \cup {DefaultBilling[k]}
  /\ b[switch] = TRUE => b[k] \in Caps(switch, k)
Sound(b) == /\ Capped(b, "aiEnabled", "monthlyAiTokenCap")
            /\ Capped(b, "emailEnabled", "monthlyEmailCap")
Billed(s) == Sound(ResolveBilling(s))

\* A write leaves the part of the policy that it does not name as it was.
LEMMA MergeResolves ==
  ASSUME NEW blob, NEW patch, NEW k \in BillingKey
  PROVE  /\ ResolveBilling(Merge(blob, patch))[k] =
              IF k \in DOMAIN patch THEN patch[k] ELSE ResolveBilling(blob)[k]
         /\ ResolveBilling(Overlay(patch, blob))[k] =
              IF k \in DOMAIN patch THEN patch[k] ELSE ResolveBilling(blob)[k]
<1> DEFINE d == Overlay(Explicit(patch, DefaultWorkflow), Explicit(patch, DefaultBilling))
<1>1. k \notin WorkflowKey
  BY DEF BillingKey, WorkflowKey, DefaultBilling, DefaultWorkflow
<1>2. k \in DOMAIN d => d[k] = DefaultBilling[k]
  BY <1>1 DEF Overlay, Explicit, Empty, WorkflowKey
<1> HIDE DEF d
<1>3. Merge(blob, patch) = Overlay(patch, Overlay(blob, d))
  BY DEF Merge, d
<1>4. \A s : ResolveBilling(s)[k] = IF k \in DOMAIN s THEN s[k] ELSE DefaultBilling[k]
  BY DEF ResolveBilling, Resolved, BillingKey
<1>5. ASSUME NEW f, NEW g
      PROVE  ResolveBilling(Overlay(f, g))[k] = IF k \in DOMAIN f THEN f[k] ELSE ResolveBilling(g)[k]
  <2>1. PICK o : o = Overlay(f, g)
    OBVIOUS
  <2>2. /\ k \in DOMAIN o <=> k \in DOMAIN f \/ k \in DOMAIN g
        /\ k \in DOMAIN f => o[k] = f[k]
        /\ k \in DOMAIN g /\ k \notin DOMAIN f => o[k] = g[k]
    BY <2>1 DEF Overlay
  <2>3. ResolveBilling(o)[k] = IF k \in DOMAIN f THEN f[k] ELSE ResolveBilling(g)[k]
    BY <1>4, <2>2
  <2> QED BY <2>1, <2>3
<1>6. ResolveBilling(Overlay(blob, d))[k] = ResolveBilling(blob)[k]
  <2>1. ResolveBilling(d)[k] = DefaultBilling[k]
    BY <1>2, <1>4
  <2>2. ResolveBilling(Overlay(blob, d))[k] = IF k \in DOMAIN blob THEN blob[k] ELSE ResolveBilling(d)[k]
    BY <1>5
  <2> QED BY <1>4, <2>1, <2>2
<1>7. ResolveBilling(Overlay(patch, Overlay(blob, d)))[k] =
        IF k \in DOMAIN patch THEN patch[k] ELSE ResolveBilling(Overlay(blob, d))[k]
  BY <1>5
<1> QED BY <1>3, <1>5, <1>6, <1>7

\* What is given, or says nothing of the billing, leaves the caps sound.
LEMMA PatchCapped ==
  ASSUME NEW b, NEW c, NEW patch, patch \in Given \/ DOMAIN patch \cap BillingKey = {},
         NEW switch \in BillingKey, NEW k \in BillingKey, Capped(b, switch, k),
         \A x \in {switch, k} : c[x] = IF x \in DOMAIN patch THEN patch[x] ELSE b[x]
  PROVE  Capped(c, switch, k)
<1>1. k \in DOMAIN patch => patch[k] \in Caps(switch, k)
  BY DEF Caps
<1>2. switch \in DOMAIN patch /\ patch[switch] = TRUE /\ k \notin DOMAIN patch =>
        DefaultBilling[k] \in Caps(switch, k)
  BY DEF Caps
<1>3. c[k] \in Caps(switch, k) \cup {DefaultBilling[k]}
  BY <1>1 DEF Capped
<1>4. ASSUME c[switch] = TRUE PROVE c[k] \in Caps(switch, k)
  <2>1. CASE k \in DOMAIN patch
    BY <1>1, <2>1
  <2>2. CASE k \notin DOMAIN patch /\ switch \in DOMAIN patch
    BY <1>2, <1>3, <1>4, <2>2
  <2>3. CASE k \notin DOMAIN patch /\ switch \notin DOMAIN patch
    BY <1>4, <2>3 DEF Capped
  <2> QED BY <2>1, <2>2, <2>3
<1> QED BY <1>3, <1>4 DEF Capped

LEMMA PatchBilled ==
  ASSUME NEW blob, Billed(blob), NEW patch, patch \in Given \/ DOMAIN patch \cap BillingKey = {}
  PROVE  Billed(Merge(blob, patch)) /\ Billed(Overlay(patch, blob))
<1>1. {"aiEnabled", "monthlyAiTokenCap", "emailEnabled", "monthlyEmailCap"} \subseteq BillingKey
  BY DEF BillingKey, DefaultBilling
<1>2. ASSUME NEW c, \A k \in BillingKey : c[k] = IF k \in DOMAIN patch THEN patch[k] ELSE ResolveBilling(blob)[k]
      PROVE  Sound(c)
  <2>1. PICK b : b = ResolveBilling(blob) /\ Sound(b)
    BY DEF Billed
  <2>2. \A k \in BillingKey : c[k] = IF k \in DOMAIN patch THEN patch[k] ELSE b[k]
    BY <1>2, <2>1
  <2>3. Capped(c, "aiEnabled", "monthlyAiTokenCap")
    <3>1. "aiEnabled" \in BillingKey /\ "monthlyAiTokenCap" \in BillingKey /\ Capped(b, "aiEnabled", "monthlyAiTokenCap")
      BY <1>1, <2>1 DEF Sound
    <3>2. \A x \in {"aiEnabled", "monthlyAiTokenCap"} : c[x] = IF x \in DOMAIN patch THEN patch[x] ELSE b[x]
      BY <2>2, <3>1
    <3> QED BY <3>1, <3>2, PatchCapped
  <2>4. Capped(c, "emailEnabled", "monthlyEmailCap")
    <3>1. "emailEnabled" \in BillingKey /\ "monthlyEmailCap" \in BillingKey /\ Capped(b, "emailEnabled", "monthlyEmailCap")
      BY <1>1, <2>1 DEF Sound
    <3>2. \A x \in {"emailEnabled", "monthlyEmailCap"} : c[x] = IF x \in DOMAIN patch THEN patch[x] ELSE b[x]
      BY <2>2, <3>1
    <3> QED BY <3>1, <3>2, PatchCapped
  <2> QED BY <2>3, <2>4 DEF Sound
<1>3. Sound(ResolveBilling(Merge(blob, patch)))
  <2>1. \A k \in BillingKey : ResolveBilling(Merge(blob, patch))[k] =
          IF k \in DOMAIN patch THEN patch[k] ELSE ResolveBilling(blob)[k]
    BY MergeResolves
  <2> QED BY <1>2, <2>1
<1>4. Sound(ResolveBilling(Overlay(patch, blob)))
  <2>1. \A k \in BillingKey : ResolveBilling(Overlay(patch, blob))[k] =
          IF k \in DOMAIN patch THEN patch[k] ELSE ResolveBilling(blob)[k]
    BY MergeResolves
  <2> QED BY <1>2, <2>1
<1> QED BY <1>3, <1>4 DEF Billed

\* Without settings every feature is off; so what is given is sound by itself.
LEMMA EmptyBilled == Billed(Empty)
<1>1. \A k \in BillingKey : ResolveBilling(Empty)[k] = DefaultBilling[k]
  BY DEF ResolveBilling, Resolved, BillingKey, Empty
<1>2. /\ {"aiEnabled", "monthlyAiTokenCap", "emailEnabled", "monthlyEmailCap"} \subseteq BillingKey
      /\ DefaultBilling["aiEnabled"] = FALSE /\ DefaultBilling["emailEnabled"] = FALSE
  BY DEF BillingKey, DefaultBilling
<1> QED BY <1>1, <1>2 DEF Billed, Sound, Capped

LEMMA GivenBilled == ASSUME NEW s \in Given PROVE Billed(s)
<1>1. Billed(Overlay(s, Empty))
  BY EmptyBilled, PatchBilled
<1>2. ResolveBilling(Overlay(s, Empty)) = ResolveBilling(s)
  BY DEF ResolveBilling, Resolved, Overlay, Empty
<1> QED BY <1>1, <1>2 DEF Billed

\* The calls are those of a mix, so that what they patch is given.
Ours == \A r \in Req : job[r].at # "refused" => \E mix \in Mix0 : CallOf(r) = mix.call[r]

LEMMA OwnPatch ==
  ASSUME Ours, NEW r \in Req, job[r].at # "refused", CallOf(r).op \in {"settings", "billing"}
  PROVE  CallOf(r).patch \in Given
<1>1. PICK mix \in Mix0 : CallOf(r) = mix.call[r]
  BY DEF Ours
<1>2. CallOf(r) \in {d \in {m.call[q] : m \in Mix0, q \in Req} : d.op \in {"settings", "billing"}}
  BY <1>1
<1> QED BY <1>2 DEF Given

\* How a request comes to write settings back, and through the meter.
Route(r, p, x, n) ==
  /\ p \in Writing => x = Settings /\ (Exists \/ job[r].at \in {"template", "again"})
  /\ p = "room" => x = Billing /\ At(r, "bill") /\ n = Pos(r)
  /\ p = "ai" => n = 1
  /\ p = "bill" => \/ job[r].at \in {"ai", "createUser"} /\ n = Pos(r)
                   \/ At(r, "provider") /\ n - 1 \in Units
  /\ p = "provider" => At(r, "room") /\ n = Pos(r) /\ n = 1
  /\ p = "record" => /\ At(r, "room") /\ n = Pos(r) /\ x = Saw(r) /\ HasRoom(r)
                     /\ CallOf(r).op = "ai" => n # 1

LEMMA Routed ==
  ASSUME JobsOk, NEW r \in Req, RequestStep(r), ~Record(r)
  PROVE  /\ UNCHANGED used /\ ~At(r, "record")
         /\ \/ UNCHANGED job \/ EndsBadly(r) \/ EndsWell(r)
            \/ \E p \in Places : \E x, n : Moves(r, p, x, n) /\ Route(r, p, x, n)
<1> DEFINE Goal == \/ UNCHANGED job \/ EndsBadly(r) \/ EndsWell(r)
                   \/ \E p \in Places : \E x, n : Moves(r, p, x, n) /\ Route(r, p, x, n)
           Metering == {"room", "ai", "bill", "provider", "record"}
<1>1. UNCHANGED used /\ ~At(r, "record")
  BY DEF RequestStep, SettingsStep, ReadSettings, WriteSettings, UpdateCompany, BeginSeries, ReplaceSeries,
       CreateCompany, EnsureForNew, ReadForTemplate, ApplyTemplate, CreateStarter, ReadAgain, WriteDefaults,
       CreateBom, UsersStep, ReadTarget, CountAdmins, SaveUser, CreateUser, BeginAi, ReadBilling, CheckRoom,
       Answer, Enter, At
<1>2. ASSUME UNCHANGED job \/ EndsBadly(r) \/ EndsWell(r) PROVE Goal
  BY <1>2
<1>3. ASSUME NEW p \in Places, NEW STATE x, NEW STATE n, Moves(r, p, x, n), Route(r, p, x, n) PROVE Goal
  BY <1>3
<1>4. ASSUME NEW p \in Places \ (Metering \cup Writing), NEW STATE x, NEW STATE n, Moves(r, p, x, n)
      PROVE  Goal
  <2>1. Route(r, p, x, n)
    BY <1>4 DEF Route
  <2> QED BY <1>3, <1>4, <2>1
<1> HIDE DEF Goal
<1>5. {"settings", "billing", "series", "company", "create", "createUser", "updateUser"} \cup Saving
        \cup {"ensure", "template", "starter", "again", "bom", "items"}
        \subseteq Places \ (Metering \cup Writing)
  BY DEF Places, Creating, Applying, Saving, Metered, Writing
<1>6. Metering \cup Writing \subseteq Places
  BY DEF Places, Creating, Applying, Saving, Metered, Writing
<1>7. ASSUME Enter(r) PROVE Goal
  <2>1. ASSUME Moves(r, CallOf(r).op, Empty, 1), CallOk(CallOf(r)) PROVE Goal
    <3>1. CASE CallOf(r).op = "ai"
      <4>1. Route(r, "ai", Empty, 1)
        BY DEF Route, Writing
      <4> QED BY <1>3, <1>6, <2>1, <3>1, <4>1
    <3>2. CASE CallOf(r).op # "ai"
      <4>1. CallOf(r).op \in Places \ (Metering \cup Writing)
        BY <1>5, <2>1, <3>2 DEF CallOk
      <4> QED BY <1>4, <2>1, <4>1
    <3> QED BY <3>1, <3>2
  <2> QED BY <1>2, <1>7, <2>1, EnterMoves
<1>8. ASSUME NEW p \in Writing, Moves(r, p, Settings, Pos(r)), Exists \/ job[r].at \in {"template", "again"}
      PROVE  Goal
  <2>1. Route(r, p, Settings, Pos(r))
    BY <1>8 DEF Route, Writing
  <2> QED BY <1>3, <1>6, <1>8, <2>1
<1>9. ASSUME ReadSettings(r) \/ ReadForTemplate(r) \/ ReadAgain(r) PROVE Goal
  BY <1>2, <1>8, <1>9, ReadSettingsMoves, ReadForTemplateMoves, ReadAgainMoves DEF Writing, At
<1>10. ASSUME WriteSettings(r) \/ UpdateCompany(r) \/ CreateBom(r) \/ SaveUser(r) PROVE Goal
  BY <1>2, <1>10, WriteSettingsMoves, UpdateCompanyMoves, CreateBomMoves, SaveUserMoves
<1>11. ASSUME BeginSeries(r) \/ EnsureForNew(r) \/ ReplaceSeries(r) \/ CreateCompany(r) PROVE Goal
  BY <1>2, <1>4, <1>5, <1>11, BeginSeriesMoves, EnsureForNewMoves, ReplaceSeriesMoves, CreateCompanyMoves
<1>12. ASSUME ApplyTemplate(r) \/ CreateStarter(r) \/ WriteDefaults(r) PROVE Goal
  BY <1>4, <1>5, <1>12, ApplyTemplateMoves, CreateStarterMoves, WriteDefaultsMoves
<1>13. ASSUME ReadTarget(r) \/ CountAdmins(r) PROVE Goal
  BY <1>2, <1>4, <1>5, <1>13, ReadTargetMoves, CountAdminsMoves DEF Saving
<1>14. ASSUME CreateUser(r) \/ BeginAi(r) PROVE Goal
  <2>1. job[r].at \in {"ai", "createUser"} => Route(r, "bill", Saw(r), Pos(r))
    BY DEF Route, Writing
  <2> QED BY <1>2, <1>3, <1>6, <1>14, <2>1, CreateUserMoves, BeginAiMoves DEF At
<1>15. ASSUME ReadBilling(r) PROVE Goal
  <2>1. At(r, "bill") => Route(r, "room", Billing, Pos(r))
    BY DEF Route, Writing
  <2> QED BY <1>3, <1>6, <1>15, <2>1, ReadBillingMoves
<1>16. ASSUME CheckRoom(r) PROVE Goal
  <2>1. At(r, "room") /\ job[r].at \in Places
    BY <1>16 DEF CheckRoom, At, Places, Metered
  <2>2. CASE HasRoom(r) /\ CallOf(r).op = "ai" /\ Pos(r) = 1
    <3>1. Route(r, "provider", Saw(r), Pos(r))
      BY <2>1, <2>2 DEF Route, Writing
    <3>2. Moves(r, "provider", Saw(r), Pos(r))
      BY <1>6, <1>16, <2>1, <2>2, GoMoves DEF CheckRoom
    <3> QED BY <1>3, <1>6, <3>1, <3>2
  <2>3. CASE HasRoom(r) /\ ~(CallOf(r).op = "ai" /\ Pos(r) = 1)
    <3>1. Route(r, "record", Saw(r), Pos(r))
      BY <2>1, <2>3 DEF Route, Writing
    <3>2. Moves(r, "record", Saw(r), Pos(r))
      BY <1>6, <1>16, <2>1, <2>3, GoMoves DEF CheckRoom
    <3> QED BY <1>3, <1>6, <3>1, <3>2
  <2>4. CASE ~HasRoom(r)
    BY <1>2, <1>16, <2>4, GoEnds DEF CheckRoom
  <2> QED BY <2>2, <2>3, <2>4
<1>17. ASSUME Answer(r) PROVE Goal
  <2>1. PICK n \in Units : Moves(r, "bill", Saw(r), n + 1) /\ At(r, "provider")
    BY <1>17, AnswerMoves
  <2>2. (n + 1) - 1 \in Units
    <3>1. n \in Nat
      BY UsageConstants
    <3>2. (n + 1) - 1 = n
      BY <3>1
    <3> QED BY <3>2
  <2>3. Route(r, "bill", Saw(r), n + 1)
    BY <2>1, <2>2 DEF Route, Writing
  <2> QED BY <1>3, <1>6, <2>1, <2>3
<1>18. Goal
  BY <1>7, <1>9, <1>10, <1>11, <1>12, <1>13, <1>14, <1>15, <1>16, <1>17
     DEF RequestStep, SettingsStep, UsersStep
<1> QED BY <1>1, <1>18 DEF Goal

LEMMA OursStep == ASSUME JobsOk, Ours, NEW r \in Req, RequestStep(r) PROVE Ours'
<1>1. ASSUME OthersStay(r), job'[r].at # "refused" => job'[r].call = job[r].call /\ job[r].at # "refused"
      PROVE  Ours'
  BY <1>1 DEF Ours, OthersStay, CallOf
<1>2. job[r].at # "refused"
  BY NotEnded
<1>3. ASSUME UNCHANGED job PROVE Ours'
  BY <1>3 DEF Ours, CallOf
<1>4. CASE EndsBadly(r) \/ EndsWell(r)
  BY <1>1, <1>2, <1>4 DEF EndsBadly, EndsWell
<1>5. CASE \E p \in Places : \E x, n : Moves(r, p, x, n)
  BY <1>1, <1>2, <1>5 DEF Moves
<1> QED BY <1>3, <1>4, <1>5, Routed, RecordMoves

\* Settings that are stored, or are about to be written back, and a policy that was
\* read have sound caps.
CapsOk ==
  /\ Exists => Billed(Settings)
  /\ \A r \in Req : /\ job[r].at \in Writing => Billed(Saw(r))
                    /\ At(r, "room") => Sound(Saw(r))

\* Whoever works on the settings of a company has one.
LEMMA HasCompany ==
  ASSUME Typed, NEW r \in Req, job[r].at \notin {"waiting", "refused", "create", "company", "billing"}
  PROVE  Exists
BY DEF Typed, CompanyOk, AbsentOk

LEMMA SettingsBilled ==
  ASSUME JobsOk, Typed, Ours, CapsOk, NEW r \in Req, RequestStep(r)
  PROVE  Exists' => Billed(tenant'.settings)
<1> DEFINE Goal == Exists' => Billed(tenant'.settings)
<1>1. ASSUME UNCHANGED tenant PROVE Goal
  BY <1>1 DEF CapsOk, Exists, Settings
<1>2. ASSUME NEW s, Billed(s), tenant'.settings = s PROVE Goal
  BY <1>2
<1> HIDE DEF Goal
<1>3. Exists => DOMAIN tenant = {"slug", "status", "modules", "settings"}
  BY DEF Typed, CompanyOk, PresentOk
<1>4. job[r].at \in Writing => Exists /\ Billed(Saw(r))
  BY HasCompany DEF Writing, CapsOk
<1>5. CASE WriteSettings(r) /\ ~UNCHANGED tenant
  <2>1. tenant' = [tenant EXCEPT !.settings = Merge(Saw(r), CallOf(r).patch)] /\ At(r, "write")
    BY <1>5 DEF WriteSettings
  <2>2. "write" \in Places /\ "write" \in Writing
    BY DEF Places, Writing
  <2>3. CallOf(r).patch \in Given
    <3>1. CallOf(r).op \in {"settings", "billing"} /\ job[r].at # "refused"
      BY <2>1, <2>2, OpAt DEF Fits, At
    <3> QED BY <3>1, OwnPatch
  <2>4. Exists /\ Billed(Merge(Saw(r), CallOf(r).patch))
    BY <1>4, <2>1, <2>2, <2>3, PatchBilled DEF At
  <2>5. tenant'.settings = Merge(Saw(r), CallOf(r).patch)
    BY <1>3, <2>1, <2>4
  <2> QED BY <1>2, <2>4, <2>5
<1>6. CASE UpdateCompany(r) /\ ~UNCHANGED tenant
  <2>1. Exists /\ tenant' = [tenant EXCEPT !.modules = CallOf(r).modules, !.status = CallOf(r).status]
    BY <1>6 DEF UpdateCompany
  <2>2. tenant'.settings = tenant.settings
    BY <1>3, <2>1
  <2> QED BY <1>2, <2>1, <2>2 DEF CapsOk, Settings
<1>7. CASE CreateCompany(r) /\ ~UNCHANGED tenant
  <2>1. tenant'.settings = Empty
    BY <1>7 DEF CreateCompany
  <2> QED BY <1>2, <2>1, EmptyBilled
<1>8. CASE ApplyTemplate(r)
  <2> DEFINE code == CallOf(r).template
  <2>1. /\ tenant' = [tenant EXCEPT !.modules = Template(code).modules,
                                    !.settings = Merge(Saw(r), TemplateSettings(code))]
        /\ At(r, "applyTemplate")
    BY <1>8 DEF ApplyTemplate
  <2>2. DOMAIN TemplateSettings(code) \cap BillingKey = {}
    BY DEF TemplateSettings, BillingKey, DefaultBilling
  <2>3. Exists /\ Billed(Merge(Saw(r), TemplateSettings(code)))
    BY <1>4, <2>1, <2>2, PatchBilled DEF At, Writing
  <2>4. tenant'.settings = Merge(Saw(r), TemplateSettings(code))
    BY <1>3, <2>1, <2>3
  <2> QED BY <1>2, <2>3, <2>4
<1>9. CASE WriteDefaults(r)
  <2> DEFINE code == CallOf(r).template
  <2>1. tenant' = [tenant EXCEPT !.settings = Overlay(TemplateDefaults(code), Saw(r))] /\ At(r, "defaults")
    BY <1>9 DEF WriteDefaults
  <2>2. DOMAIN TemplateDefaults(code) \cap BillingKey = {}
    BY DEF TemplateDefaults, BillingKey, DefaultBilling
  <2>3. Exists /\ Billed(Overlay(TemplateDefaults(code), Saw(r)))
    BY <1>4, <2>1, <2>2, PatchBilled DEF At, Writing
  <2>4. tenant'.settings = Overlay(TemplateDefaults(code), Saw(r))
    BY <1>3, <2>1, <2>3
  <2> QED BY <1>2, <2>3, <2>4
<1>10. ASSUME ~WriteSettings(r), ~UpdateCompany(r), ~CreateCompany(r), ~ApplyTemplate(r), ~WriteDefaults(r)
       PROVE  UNCHANGED tenant
  BY <1>10 DEF RequestStep, Enter, SettingsStep, ReadSettings, BeginSeries, ReplaceSeries,
       EnsureForNew, ReadForTemplate, CreateStarter, ReadAgain, CreateBom, UsersStep, ReadTarget,
       CountAdmins, SaveUser, CreateUser, BeginAi, ReadBilling, CheckRoom, Answer, Record
<1> QED BY <1>1, <1>5, <1>6, <1>7, <1>8, <1>9, <1>10 DEF Goal

LEMMA CapsStep ==
  ASSUME JobsOk, Typed, Ours, CapsOk, NEW r \in Req, RequestStep(r)
  PROVE  CapsOk'
<1> DEFINE Good(q) == /\ job'[q].at \in Writing => Billed(job'[q].saw)
                      /\ job'[q].at = "room" => Sound(job'[q].saw)
<1>1. ASSUME NEW q \in Req, job'[q] = job[q] PROVE Good(q)
  BY <1>1 DEF CapsOk, Saw, At
<1>2. CASE UNCHANGED job
  BY <1>1, <1>2, SettingsBilled DEF CapsOk, Settings, Saw, At
<1>3. CASE OthersStay(r)
  <2>1. ASSUME NEW p, NEW x, NEW n, Moves(r, p, x, n), Route(r, p, x, n) PROVE Good(r)
    <3>1. job'[r].at = p /\ job'[r].saw = x
      BY <2>1 DEF Moves
    <3>2. CASE p \in Writing
      <4>1. x = Settings /\ Exists
        BY <2>1, <3>2, HasCompany DEF Route
      <4> QED BY <3>1, <3>2, <4>1 DEF CapsOk, Writing
    <3>3. CASE p = "room"
      <4>1. x = Billing /\ Exists
        BY <2>1, <3>3, HasCompany DEF Route, At
      <4> QED BY <3>1, <3>3, <4>1 DEF CapsOk, Writing, Billing, Billed
    <3>4. CASE p \notin Writing /\ p # "room"
      BY <3>1, <3>4
    <3> QED BY <3>2, <3>3, <3>4
  <2>2. ASSUME EndsBadly(r) \/ EndsWell(r) PROVE Good(r)
    BY <2>2 DEF EndsBadly, EndsWell, Writing
  <2>3. UNCHANGED job => Good(r)
    BY <1>1
  <2> HIDE DEF Good
  <2>4. Good(r)
    BY <2>1, <2>2, <2>3, Routed, RecordMoves
  <2>5. \A q \in Req : Good(q)
    BY <1>1, <1>3, <2>4 DEF OthersStay
  <2> QED BY <2>5, SettingsBilled DEF CapsOk, Settings, Saw, At, Good
<1> QED BY <1>2, <1>3, JobsStep

\* What a call that is being metered asks for.
AsksOk(r) ==
  /\ job[r].at \in {"ai", "provider"} => Pos(r) = 1
  /\ job[r].at \in {"bill", "room"} /\ CallOf(r).op = "ai" => Pos(r) = 1 \/ Pos(r) - 1 \in Units
  /\ At(r, "record") /\ CallOf(r).op = "ai" => Pos(r) - 1 \in Units
Asking == \A r \in Req : AsksOk(r)

LEMMA AskingStep == ASSUME JobsOk, Asking, NEW r \in Req, RequestStep(r) PROVE Asking'
<1>1. ASSUME NEW q \in Req, job'[q] = job[q] PROVE AsksOk(q)'
  BY <1>1 DEF Asking, AsksOk, Pos, CallOf, At
<1>2. ASSUME NEW p, NEW x, NEW n, Moves(r, p, x, n), Route(r, p, x, n) PROVE AsksOk(r)'
  <2>1. job'[r].at = p /\ job'[r].pos = n /\ job'[r].call = job[r].call /\ AsksOk(r)
    BY <1>2 DEF Moves, Asking
  <2>2. p \in {"ai", "provider"} => n = 1
    BY <1>2 DEF Route
  <2>3. p \in {"bill", "room"} /\ CallOf(r).op = "ai" => n = 1 \/ n - 1 \in Units
    <3>1. CASE p = "bill"
      <4>1. CASE job[r].at \in {"ai", "createUser"} /\ n = Pos(r)
        <5>1. At(r, "createUser") => CallOf(r).op = "createUser"
          BY OpAt DEF Places, Fits
        <5> QED BY <2>1, <4>1, <5>1 DEF AsksOk, At
      <4> QED BY <1>2, <3>1, <4>1 DEF Route
    <3>2. CASE p = "room"
      BY <1>2, <2>1, <3>2 DEF Route, AsksOk, At
    <3> QED BY <3>1, <3>2
  <2>4. p = "record" /\ CallOf(r).op = "ai" => n - 1 \in Units
    BY <1>2, <2>1 DEF Route, AsksOk, At
  <2> QED BY <2>1, <2>2, <2>3, <2>4 DEF AsksOk, Pos, CallOf, At
<1>3. ASSUME EndsBadly(r) \/ EndsWell(r) PROVE AsksOk(r)'
  BY <1>3 DEF EndsBadly, EndsWell, AsksOk, At
<1>4. AsksOk(r)'
  BY <1>1, <1>2, <1>3, Routed, RecordMoves
<1>5. \A q \in Req : AsksOk(q)'
  BY <1>1, <1>4, JobsStep DEF OthersStay
<1> QED BY <1>5 DEF Asking

\* The answers in P are let through and not charged yet: those that are used
\* before, and they, fit under a cap but for one answer for each other request.
TokenRoom(P, cost, tokens) ==
  \/ tokens = 0 /\ P = {}
  \/ \E cap \in TokenCaps, most \in Costs :
       /\ \A q \in P : cost[q] <= most
       /\ P = {} => tokens <= cap + Others * most
       /\ P # {} => \E w \in P :
            tokens + cost[w] + (Cardinality(P) - 1) * most <= cap + Others * most

LEMMA CostsNat == TokenCaps \subseteq Nat /\ EmailCaps \subseteq Nat /\ Costs \subseteq Nat
BY QuotaConstants, UsageConstants DEF Costs, AtMost

\* At most all requests are in P.
LEMMA SomeOf ==
  ASSUME NEW P \in SUBSET Req
  PROVE  /\ IsFiniteSet(P) /\ Cardinality(P) \in Nat /\ Others \in Int /\ Cardinality(P) <= Others + 1
         /\ P # {} => Cardinality(P) - 1 \in Nat /\ Others \in Nat
         /\ P = {} => Cardinality(P) = 0
         /\ \A r \in Req \ P : Cardinality(P \cup {r}) = Cardinality(P) + 1
         /\ \A r \in P : Cardinality(P \ {r}) = Cardinality(P) - 1
<1>1. /\ IsFiniteSet(P) /\ Cardinality(P) \in Nat /\ Cardinality(Req) \in Nat
      /\ Cardinality(P) <= Cardinality(Req)
  BY QuotaConstants, FS_Subset, FS_CardinalityType
<1>2. Others \in Int /\ Cardinality(P) <= Others + 1
  BY <1>1 DEF Others
<1>3. Cardinality(P) = 0 <=> P = {}
  BY <1>1, FS_EmptySet
<1>4. \A r \in Req \ P : Cardinality(P \cup {r}) = Cardinality(P) + 1
  BY <1>1, FS_AddElement
<1>5. \A r \in P : Cardinality(P \ {r}) = Cardinality(P) - 1
  BY <1>1, FS_RemoveElement
<1> QED BY <1>1, <1>2, <1>3, <1>4, <1>5

LEMMA Times == ASSUME NEW a \in Nat, NEW b \in Nat, NEW c \in Nat, a <= b PROVE a * c <= b * c
<1>1. PICK d \in Nat : b = a + d
  <2>1. b - a \in Nat /\ b = a + (b - a)
    OBVIOUS
  <2> QED BY <2>1
<1>2. d * c \in Nat /\ a * c \in Nat
  OBVIOUS
<1>3. b * c = a * c + d * c
  BY <1>1
<1> QED BY <1>2, <1>3

\* A request is let through: what it costs fits under the cap that it has read.
LEMMA RoomPassed ==
  ASSUME NEW P \in SUBSET Req, NEW cost, NEW r \in Req \ P, \A q \in P : cost[q] \in Units,
         cost[r] \in Units, NEW tokens \in Nat, TokenRoom(P, cost, tokens),
         NEW cap \in TokenCaps, tokens + cost[r] <= cap
  PROVE  TokenRoom(P \cup {r}, cost, tokens)
<1>1. cap \in Nat /\ Units \subseteq Nat /\ Costs \subseteq Nat /\ cost[r] \in Nat
  BY CostsNat, UsageConstants
<1>2. cost[r] \in Costs
  <2>1. cost[r] = AtMost(cap, cost[r])
    <3>1. cost[r] <= cap
      BY <1>1
    <3> QED BY <1>1, <3>1 DEF AtMost
  <2> QED BY <2>1 DEF Costs
<1>3. PICK most \in Costs : cost[r] <= most /\ \A q \in P : cost[q] <= most
  <2>1. CASE P = {}
    BY <1>1, <1>2, <2>1
  <2>2. CASE P # {}
    <3>1. PICK m \in Costs : \A q \in P : cost[q] <= m
      BY <2>2 DEF TokenRoom
    <3>2. m \in Nat /\ \A q \in P : cost[q] \in Nat
      BY <1>1, <3>1
    <3>3. CASE m <= cost[r]
      <4>1. \A q \in P : cost[q] <= cost[r]
        BY <1>1, <3>1, <3>2, <3>3
      <4> QED BY <1>1, <1>2, <4>1
    <3>4. CASE cost[r] <= m
      BY <3>1, <3>4
    <3>5. m <= cost[r] \/ cost[r] <= m
      BY <1>1, <3>2
    <3> QED BY <3>3, <3>4, <3>5
  <2> QED BY <2>1, <2>2
<1>4. PICK k : k = Cardinality(P) /\ k \in Nat /\ Cardinality(P \cup {r}) = k + 1 /\ Others \in Nat /\ k <= Others
  <2>1. Cardinality(P \cup {r}) = Cardinality(P) + 1 /\ Cardinality(P) \in Nat
    BY SomeOf
  <2>2. P \cup {r} \in SUBSET Req /\ P \cup {r} # {}
    OBVIOUS
  <2>3. Cardinality(P \cup {r}) <= Others + 1 /\ Others \in Nat
    BY <2>2, SomeOf
  <2> QED BY <2>1, <2>3
<1>5. most \in Nat /\ k * most \in Nat /\ k * most <= Others * most /\ Others * most \in Nat
  <2>1. most \in Nat
    BY <1>1, <1>3
  <2> QED BY <1>4, <2>1, Times
<1>6. (Cardinality(P \cup {r}) - 1) * most = k * most
  <2>1. Cardinality(P \cup {r}) - 1 = k
    BY <1>4
  <2> QED BY <2>1
<1>7. tokens + cost[r] + (Cardinality(P \cup {r}) - 1) * most <= cap + Others * most
  BY <1>1, <1>5, <1>6
<1>8. \A q \in P \cup {r} : cost[q] <= most
  BY <1>3
<1>9. \E w \in P \cup {r} :
        tokens + cost[w] + (Cardinality(P \cup {r}) - 1) * most <= cap + Others * most
  BY <1>7
<1>10. P \cup {r} # {}
  OBVIOUS
<1> QED BY <1>3, <1>8, <1>9, <1>10 DEF TokenRoom

\* An answer is charged.
LEMMA RoomCharged ==
  ASSUME NEW P \in SUBSET Req, NEW cost, NEW r \in P, \A q \in P : cost[q] \in Units,
         NEW tokens \in Nat, TokenRoom(P, cost, tokens)
  PROVE  TokenRoom(P \ {r}, cost, tokens + cost[r])
<1>1. Units \subseteq Nat /\ Costs \subseteq Nat /\ TokenCaps \subseteq Nat /\ \A q \in P : cost[q] \in Nat
  BY CostsNat, UsageConstants
<1>2. PICK cap \in TokenCaps, most \in Costs, w \in P :
        /\ \A q \in P : cost[q] <= most
        /\ tokens + cost[w] + (Cardinality(P) - 1) * most <= cap + Others * most
  BY DEF TokenRoom
<1>3. PICK k \in Nat : Cardinality(P) - 1 = k /\ Cardinality(P \ {r}) = k /\ Others \in Nat
  BY SomeOf
<1>4. /\ most \in Nat /\ cap \in Nat /\ k * most \in Nat /\ Others * most \in Nat
      /\ tokens + cost[w] + k * most <= cap + Others * most
  BY <1>1, <1>2, <1>3
<1>5. \A q \in P \ {r} : cost[q] <= most
  BY <1>2
<1>6. CASE P \ {r} = {}
  <2>1. w = r
    BY <1>6
  <2>2. tokens + cost[r] <= cap + Others * most
    BY <1>1, <1>4, <2>1
  <2> QED BY <1>2, <1>5, <1>6, <2>2 DEF TokenRoom
<1>7. CASE P \ {r} # {}
  <2>1. k - 1 \in Nat
    <3>1. P \ {r} \in SUBSET Req
      OBVIOUS
    <3> QED BY <1>3, <1>7, <3>1, SomeOf
  <2>2. k * most = (k - 1) * most + most /\ (k - 1) * most \in Nat
    BY <1>4, <2>1
  <2>3. \E v \in P \ {r} : cost[r] + cost[v] <= cost[w] + most
    <3>1. CASE w = r
      <4>1. PICK v \in P \ {r} : TRUE
        BY <1>7
      <4>2. cost[v] <= most /\ cost[v] \in Nat /\ cost[r] \in Nat
        BY <1>1, <1>2
      <4> QED BY <1>4, <3>1, <4>2
    <3>2. CASE w # r
      <4>1. cost[r] <= most /\ cost[w] \in Nat /\ cost[r] \in Nat
        BY <1>1, <1>2
      <4> QED BY <1>4, <3>2, <4>1
    <3> QED BY <3>1, <3>2
  <2>4. PICK v \in P \ {r} : cost[r] + cost[v] <= cost[w] + most
    BY <2>3
  <2>5. cost[v] \in Nat /\ cost[w] \in Nat /\ cost[r] \in Nat
    BY <1>1
  <2>6. tokens + cost[r] + cost[v] + (k - 1) * most <= cap + Others * most
    BY <1>4, <2>2, <2>4, <2>5
  <2>7. (Cardinality(P \ {r}) - 1) * most = (k - 1) * most
    BY <1>3
  <2>8. tokens + cost[r] + cost[v] + (Cardinality(P \ {r}) - 1) * most <= cap + Others * most
    BY <2>6, <2>7
  <2> QED BY <1>2, <1>5, <1>7, <2>8 DEF TokenRoom
<1> QED BY <1>6, <1>7

\* A month begins, or the requests are others with the same answers.
LEMMA RoomLess ==
  ASSUME NEW P \in SUBSET Req, NEW cost, NEW other, \A q \in P : other[q] = cost[q] /\ cost[q] \in Units,
         NEW tokens \in Nat, NEW less \in Nat, less <= tokens, TokenRoom(P, cost, tokens)
  PROVE  TokenRoom(P, other, less)
<1>1. Units \subseteq Nat /\ Costs \subseteq Nat /\ TokenCaps \subseteq Nat /\ \A q \in P : cost[q] \in Nat
  BY CostsNat, UsageConstants
<1>2. CASE tokens = 0 /\ P = {}
  BY <1>2 DEF TokenRoom
<1>3. ASSUME NEW cap \in TokenCaps, NEW most \in Costs, \A q \in P : cost[q] <= most,
             P = {}, tokens <= cap + Others * most
      PROVE  TokenRoom(P, other, less)
  <2>1. Others \in Int /\ most \in Nat /\ cap \in Nat
    BY <1>1, SomeOf
  <2>2. Others * most \in Int
    BY <2>1
  <2>3. less <= cap + Others * most
    BY <1>3, <2>1, <2>2
  <2> QED BY <1>3, <2>3 DEF TokenRoom
<1>4. ASSUME NEW cap \in TokenCaps, NEW most \in Costs, \A q \in P : cost[q] <= most,
             NEW w \in P, tokens + cost[w] + (Cardinality(P) - 1) * most <= cap + Others * most
      PROVE  TokenRoom(P, other, less)
  <2>1. Others \in Int /\ most \in Nat /\ cap \in Nat /\ Cardinality(P) - 1 \in Nat /\ cost[w] \in Nat
    BY <1>1, SomeOf
  <2>2. Others * most \in Int /\ (Cardinality(P) - 1) * most \in Nat
    BY <2>1
  <2>3. less + other[w] + (Cardinality(P) - 1) * most <= cap + Others * most
    BY <1>4, <2>1, <2>2
  <2>4. \A q \in P : other[q] <= most
    BY <1>4
  <2> QED BY <2>3, <2>4 DEF TokenRoom
<1> QED BY <1>2, <1>3, <1>4 DEF TokenRoom

\* The calls and the emails that are let through and not charged yet.
Pending(op) == {r \in Req : At(r, "record") /\ CallOf(r).op = op}
Cost == [r \in Req |-> Pos(r) - 1]

UsedOk ==
  /\ DOMAIN used = {"calls", "tokens", "emails", "days"}
  /\ used.calls \in Nat /\ used.tokens \in Nat /\ used.emails \in Nat
CallsOk == used.calls + Cardinality(Pending("ai")) <= DailyLimit + Others
EmailsOk ==
  \/ used.emails = 0 /\ Pending("createUser") = {}
  \/ \E cap \in EmailCaps : used.emails + Cardinality(Pending("createUser")) <= cap + Others
TokensOk == TokenRoom(Pending("ai"), Cost, used.tokens)
MeterOk == UsedOk /\ CallsOk /\ EmailsOk /\ TokensOk

LEMMA PendingCosts == ASSUME Asking PROVE \A q \in Pending("ai") : Cost[q] \in Units
BY DEF Pending, Cost, Asking, AsksOk

\* What is pending stays so but for the request that steps.
LEMMA OthersPending ==
  ASSUME NEW r \in Req, UNCHANGED job \/ OthersStay(r), NEW op
  PROVE  /\ Pending(op)' \ {r} = Pending(op) \ {r}
         /\ \A q \in Req \ {r} : Cost'[q] = Cost[q]
BY DEF Pending, Cost, OthersStay, At, CallOf, Pos

\* Nothing is let through or charged.
LEMMA MeterQuiet ==
  ASSUME Asking, MeterOk, UsedOk', Pending("ai")' = Pending("ai"),
         Pending("createUser")' = Pending("createUser"),
         \A q \in Pending("ai") : Cost'[q] = Cost[q],
         used'.calls <= used.calls, used'.tokens <= used.tokens, used'.emails <= used.emails
  PROVE  MeterOk'
<1>1. PICK P, E : P = Pending("ai") /\ E = Pending("createUser") /\ P \in SUBSET Req /\ E \in SUBSET Req
  BY DEF Pending
<1>2. Cardinality(P) \in Nat /\ Cardinality(E) \in Nat /\ Others \in Int /\ DailyLimit \in Nat
  BY <1>1, SomeOf, UsageConstants
<1>3. CallsOk'
  <2>1. used.calls + Cardinality(P) <= DailyLimit + Others
    BY <1>1 DEF MeterOk, CallsOk
  <2>2. used'.calls + Cardinality(P) <= DailyLimit + Others
    BY <1>2, <2>1 DEF MeterOk, UsedOk
  <2> QED BY <1>1, <2>2 DEF CallsOk
<1>4. EmailsOk'
  <2>1. CASE used.emails = 0 /\ E = {}
    <3>1. used'.emails = 0
      BY <2>1 DEF UsedOk
    <3> QED BY <1>1, <2>1, <3>1 DEF EmailsOk
  <2>2. ASSUME NEW cap \in EmailCaps, used.emails + Cardinality(E) <= cap + Others PROVE EmailsOk'
    <3>1. used'.emails + Cardinality(E) <= cap + Others
      BY <1>2, <2>2, CostsNat DEF MeterOk, UsedOk
    <3> QED BY <1>1, <3>1 DEF EmailsOk
  <2> QED BY <1>1, <2>1, <2>2 DEF MeterOk, EmailsOk
<1>5. TokensOk'
  <2>1. PICK cost, other, tokens, less :
          cost = Cost /\ other = Cost' /\ tokens = used.tokens /\ less = used'.tokens
    OBVIOUS
  <2>2. \A q \in P : other[q] = cost[q] /\ cost[q] \in Units
    BY <1>1, <2>1, PendingCosts
  <2>3. tokens \in Nat /\ less \in Nat /\ less <= tokens /\ TokenRoom(P, cost, tokens)
    BY <1>1, <2>1 DEF MeterOk, UsedOk, TokensOk
  <2>4. TokenRoom(P, other, less)
    BY <1>1, <2>2, <2>3, RoomLess
  <2> QED BY <1>1, <2>1, <2>4 DEF TokensOk
<1> QED BY <1>3, <1>4, <1>5 DEF MeterOk

\* An answer or an email is let through.
LEMMA MeterPassed ==
  ASSUME JobsOk, CapsOk, Asking, MeterOk, NEW r \in Req, NEW x, Moves(r, "record", x, Pos(r)),
         Route(r, "record", x, Pos(r)), UNCHANGED used
  PROVE  MeterOk'
<1>1. /\ At(r, "room") /\ HasRoom(r) /\ (CallOf(r).op = "ai" => Pos(r) # 1)
      /\ job'[r].at = "record" /\ CallOf(r)' = CallOf(r) /\ Pos(r)' = Pos(r) /\ OthersStay(r)
  BY DEF Route, Moves, CallOf, Pos
<1>2. PICK b : b = Saw(r) /\ Sound(b)
  BY <1>1 DEF CapsOk
<1>3. \A q \in Req : Cost'[q] = Cost[q]
  BY <1>1, OthersPending DEF Cost
<1>4. ASSUME NEW op PROVE r \notin Pending(op) /\
             Pending(op)' = IF CallOf(r).op = op THEN Pending(op) \cup {r} ELSE Pending(op)
  <2>1. r \notin Pending(op)
    BY <1>1 DEF Pending, At
  <2>2. r \in Pending(op)' <=> CallOf(r).op = op
    BY <1>1 DEF Pending, At
  <2>3. Pending(op)' \ {r} = Pending(op) \ {r}
    BY <1>1, OthersPending
  <2> QED BY <2>1, <2>2, <2>3
<1>5. PICK P, E : P = Pending("ai") /\ E = Pending("createUser") /\ P \in SUBSET Req /\ E \in SUBSET Req
  BY DEF Pending
<1>6. /\ Cardinality(P) \in Nat /\ Cardinality(E) \in Nat /\ DailyLimit \in Nat /\ UsedOk /\ UsedOk'
      /\ EmailCaps \subseteq Nat
  BY <1>5, SomeOf, UsageConstants, CostsNat DEF MeterOk, UsedOk
<1>7. CallOf(r).op \in {"ai", "createUser"}
  BY <1>1, OpAt DEF Places, Metered, Fits
<1>8. CASE CallOf(r).op = "ai"
  <2>1. /\ Pending("ai")' = P \cup {r} /\ r \in Req \ P /\ Pending("createUser")' = E
        /\ "ai" # "createUser"
    BY <1>4, <1>5, <1>8
  <2>2. /\ b.aiEnabled /\ used.calls < DailyLimit /\ used.tokens + (Pos(r) - 1) <= b.monthlyAiTokenCap
    BY <1>1, <1>2, <1>8 DEF HasRoom, Allowed, Asked
  <2>3. CallsOk'
    <3>1. P \cup {r} \in SUBSET Req
      BY <1>5
    <3>2. Cardinality(P \cup {r}) <= Others + 1 /\ Cardinality(P \cup {r}) \in Nat /\ Others \in Int
      BY <3>1, SomeOf
    <3>3. used.calls + Cardinality(P \cup {r}) <= DailyLimit + Others
      BY <1>6, <2>2, <3>2 DEF UsedOk
    <3> QED BY <2>1, <3>3 DEF CallsOk
  <2>4. EmailsOk'
    BY <1>5, <2>1 DEF MeterOk, EmailsOk
  <2>5. TokensOk'
    <3>1. PICK cost, tokens : cost = Cost /\ tokens = used.tokens
      OBVIOUS
    <3>2. PICK cap \in TokenCaps : cap = b.monthlyAiTokenCap
      BY <1>2, <2>2 DEF Sound, Capped, TokenCaps
    <3>3. cost[r] = Pos(r) - 1 /\ cost[r] \in Units
      BY <1>1, <1>8, <3>1 DEF Cost, Asking, AsksOk, At
    <3>4. \A q \in P : cost[q] \in Units
      BY <1>5, <3>1, PendingCosts
    <3>5. tokens \in Nat /\ TokenRoom(P, cost, tokens) /\ tokens + cost[r] <= cap
      BY <1>5, <1>6, <2>2, <3>1, <3>2, <3>3 DEF MeterOk, TokensOk, UsedOk
    <3>6. TokenRoom(P \cup {r}, cost, tokens)
      BY <1>5, <2>1, <3>3, <3>4, <3>5, RoomPassed
    <3>7. Cost' = cost
      BY <1>3, <3>1 DEF Cost
    <3> QED BY <2>1, <3>1, <3>6, <3>7 DEF TokensOk
  <2> QED BY <1>6, <2>3, <2>4, <2>5 DEF MeterOk
<1>9. CASE CallOf(r).op = "createUser"
  <2>1. Pending("createUser")' = E \cup {r} /\ Pending("ai")' = P /\ "ai" # "createUser"
    BY <1>4, <1>5, <1>9
  <2>2. b.emailEnabled /\ used.emails + 1 <= b.monthlyEmailCap
    BY <1>1, <1>2, <1>9 DEF HasRoom, Allowed, Asked
  <2>3. EmailsOk'
    <3>1. PICK cap \in EmailCaps : cap = b.monthlyEmailCap
      BY <1>2, <2>2 DEF Sound, Capped, EmailCaps
    <3>2. E \cup {r} \in SUBSET Req
      BY <1>5
    <3>3. Cardinality(E \cup {r}) <= Others + 1 /\ Cardinality(E \cup {r}) \in Nat /\ Others \in Int
      BY <3>2, SomeOf
    <3>4. used.emails + Cardinality(E \cup {r}) <= cap + Others
      BY <1>6, <2>2, <3>1, <3>3 DEF UsedOk
    <3> QED BY <2>1, <3>4 DEF EmailsOk
  <2>4. Cost' = Cost
    BY <1>3 DEF Cost
  <2>5. CallsOk' /\ TokensOk'
    BY <1>5, <2>1, <2>4 DEF MeterOk, CallsOk, TokensOk
  <2> QED BY <1>6, <2>3, <2>5 DEF MeterOk
<1> QED BY <1>7, <1>8, <1>9

\* What was let through is charged.
LEMMA MeterCharged ==
  ASSUME JobsOk, Asking, MeterOk, NEW r \in Req, Record(r)
  PROVE  MeterOk'
<1>1. At(r, "record") /\ EndsWell(r) /\ OthersStay(r)
  BY RecordMoves DEF EndsWell
<1>2. CallOf(r).op \in {"ai", "createUser"}
  BY <1>1, OpAt DEF Places, Metered, Fits
<1>3. \A q \in Req \ {r} : Cost'[q] = Cost[q]
  BY <1>1, OthersPending
<1>4. ASSUME NEW op
      PROVE  /\ Pending(op)' = Pending(op) \ {r}
             /\ r \in Pending(op) <=> CallOf(r).op = op
  <2>1. r \notin Pending(op)'
    BY <1>1 DEF Pending, At, EndsWell
  <2>2. Pending(op)' \ {r} = Pending(op) \ {r}
    BY <1>1, OthersPending
  <2> QED BY <1>1, <2>1, <2>2 DEF Pending
<1>5. PICK P, E : P = Pending("ai") /\ E = Pending("createUser") /\ P \in SUBSET Req /\ E \in SUBSET Req
  BY DEF Pending
<1>6. /\ Cardinality(P) \in Nat /\ Cardinality(E) \in Nat /\ DailyLimit \in Nat /\ UsedOk /\ Others \in Int
      /\ EmailCaps \subseteq Nat
  BY <1>5, SomeOf, UsageConstants, CostsNat DEF MeterOk
<1>7. CASE CallOf(r).op = "ai"
  <2>1. /\ Pending("ai")' = P \ {r} /\ r \in P /\ Pending("createUser")' = E
        /\ Cardinality(P \ {r}) = Cardinality(P) - 1
    <3>1. Pending("ai")' = P \ {r} /\ r \in P
      BY <1>4, <1>5, <1>7
    <3>2. Pending("createUser")' = E \ {r} /\ r \notin E
      BY <1>4, <1>5, <1>7
    <3> QED BY <1>5, <3>1, <3>2, SomeOf
  <2>2. Asked(r) = Pos(r) - 1 /\ Pos(r) - 1 \in Units
    <3>1. Pos(r) - 1 \in Units
      BY <1>1, <1>7 DEF Asking, AsksOk
    <3>2. Pos(r) # 1
      BY <3>1, UsageConstants
    <3> QED BY <1>7, <3>1, <3>2 DEF Asked
  <2>3. used' = [used EXCEPT !.calls = @ + 1, !.tokens = @ + Asked(r)]
    BY <1>7 DEF Record
  <2>4. /\ used'.calls = used.calls + 1 /\ used'.tokens = used.tokens + (Pos(r) - 1)
        /\ used'.emails = used.emails /\ DOMAIN used' = DOMAIN used
    BY <1>6, <2>2, <2>3 DEF UsedOk
  <2>5. UsedOk'
    <3>1. Pos(r) - 1 \in Nat
      BY <2>2, UsageConstants
    <3>2. used.calls + 1 \in Nat /\ used.tokens + (Pos(r) - 1) \in Nat
      BY <1>6, <3>1 DEF UsedOk
    <3> QED BY <1>6, <2>4, <3>2 DEF UsedOk
  <2>6. CallsOk'
    <3>1. used.calls + Cardinality(P) <= DailyLimit + Others
      BY <1>5 DEF MeterOk, CallsOk
    <3>2. used.calls + 1 + Cardinality(P \ {r}) <= DailyLimit + Others
      BY <1>6, <2>1, <3>1 DEF UsedOk
    <3> QED BY <2>1, <2>4, <3>2 DEF CallsOk
  <2>7. EmailsOk'
    BY <1>5, <2>1, <2>4 DEF MeterOk, EmailsOk
  <2>8. TokensOk'
    <3>1. PICK cost, other, tokens : cost = Cost /\ other = Cost' /\ tokens = used.tokens
      OBVIOUS
    <3>2. cost[r] = Pos(r) - 1 /\ \A q \in P : cost[q] \in Units
      BY <1>5, <3>1, PendingCosts DEF Cost
    <3>3. tokens \in Nat /\ TokenRoom(P, cost, tokens)
      BY <1>5, <1>6, <3>1 DEF MeterOk, TokensOk, UsedOk
    <3>4. TokenRoom(P \ {r}, cost, tokens + cost[r])
      BY <1>5, <2>1, <3>2, <3>3, RoomCharged
    <3>5. PICK Q, total : Q = P \ {r} /\ total = tokens + cost[r] /\ Q \in SUBSET Req
      BY <1>5
    <3>6. \A q \in Q : other[q] = cost[q] /\ cost[q] \in Units
      BY <1>3, <1>5, <3>1, <3>2, <3>5
    <3>7. total \in Nat /\ total <= total
      <4>1. cost[r] \in Nat
        BY <2>1, <3>2, UsageConstants
      <4> QED BY <3>3, <3>5, <4>1
    <3>8. TokenRoom(Q, other, total)
      BY <3>4, <3>5, <3>6, <3>7, RoomLess
    <3>9. used'.tokens = total
      BY <2>4, <3>1, <3>2, <3>5
    <3> QED BY <2>1, <3>1, <3>5, <3>8, <3>9 DEF TokensOk
  <2> QED BY <2>5, <2>6, <2>7, <2>8 DEF MeterOk
<1>8. CASE CallOf(r).op = "createUser"
  <2>1. /\ Pending("createUser")' = E \ {r} /\ r \in E /\ r \notin P /\ Pending("ai")' = P
        /\ Cardinality(E \ {r}) = Cardinality(E) - 1
    <3>1. "ai" # "createUser"
      OBVIOUS
    <3> QED BY <1>4, <1>5, <1>8, <3>1, SomeOf
  <2>2. used' = [used EXCEPT !.emails = @ + 1]
    BY <1>8 DEF Record
  <2>3. /\ used'.emails = used.emails + 1 /\ used'.calls = used.calls /\ used'.tokens = used.tokens
        /\ DOMAIN used' = DOMAIN used
    BY <1>6, <2>2 DEF UsedOk
  <2>4. UsedOk'
    BY <1>6, <2>3 DEF UsedOk
  <2>5. CallsOk'
    BY <1>5, <2>1, <2>3 DEF MeterOk, CallsOk
  <2>6. EmailsOk'
    <3>1. PICK cap \in EmailCaps : used.emails + Cardinality(E) <= cap + Others
      BY <1>5, <2>1 DEF MeterOk, EmailsOk
    <3>2. used.emails + 1 + Cardinality(E \ {r}) <= cap + Others
      BY <1>6, <2>1, <3>1 DEF UsedOk
    <3> QED BY <2>1, <2>3, <3>2 DEF EmailsOk
  <2>7. TokensOk'
    <3>1. PICK cost, other, tokens : cost = Cost /\ other = Cost' /\ tokens = used.tokens
      OBVIOUS
    <3>2. \A q \in P : other[q] = cost[q] /\ cost[q] \in Units
      BY <1>3, <1>5, <2>1, <3>1, PendingCosts
    <3>3. tokens \in Nat /\ tokens <= tokens /\ TokenRoom(P, cost, tokens)
      BY <1>5, <1>6, <3>1 DEF MeterOk, TokensOk, UsedOk
    <3>4. TokenRoom(P, other, tokens)
      BY <1>5, <3>2, <3>3, RoomLess
    <3> QED BY <2>1, <2>3, <3>1, <3>4 DEF TokensOk
  <2> QED BY <2>4, <2>5, <2>6, <2>7 DEF MeterOk
<1> QED BY <1>2, <1>7, <1>8

LEMMA ZeroLeast == 0 \in Nat /\ \A n \in Nat : 0 <= n /\ n <= n
OBVIOUS

\* A new day, or the seed, lets nothing through.
LEMMA MeterElsewhere ==
  ASSUME Asking, MeterOk, UNCHANGED job,
         \/ UNCHANGED used
         \/ \E month \in BOOLEAN :
              used' = [used EXCEPT !.days = @ - 1, !.calls = 0,
                                   !.tokens = IF month THEN 0 ELSE @,
                                   !.emails = IF month THEN 0 ELSE @]
  PROVE  MeterOk'
<1>1. \A op : Pending(op)' = Pending(op)
  BY DEF Pending, At, CallOf
<1>2. Cost' = Cost
  BY DEF Cost, Pos
<1>3. /\ UsedOk'
      /\ used'.calls <= used.calls /\ used'.tokens <= used.tokens /\ used'.emails <= used.emails
  <2>1. CASE UNCHANGED used
    BY <2>1 DEF MeterOk, UsedOk
  <2>2. CASE ~UNCHANGED used
    <3>1. PICK c \in Nat, t \in Nat, e \in Nat :
            /\ used.calls = c /\ used.tokens = t /\ used.emails = e
            /\ DOMAIN used = {"calls", "tokens", "emails", "days"}
      BY DEF MeterOk, UsedOk
    <3>2. /\ DOMAIN used' = DOMAIN used /\ used'.calls = 0
          /\ used'.tokens \in {0, t} /\ used'.emails \in {0, e}
      BY <2>2, <3>1
    <3>3. UsedOk'
      BY <3>1, <3>2, ZeroLeast DEF UsedOk
    <3>4. used'.calls <= c /\ used'.tokens <= t /\ used'.emails <= e
      BY <3>1, <3>2, ZeroLeast
    <3> QED BY <3>1, <3>3, <3>4
  <2> QED BY <2>1, <2>2
<1> QED BY <1>1, <1>2, <1>3, MeterQuiet

QuotaInv == Ours /\ CapsOk /\ Asking /\ MeterOk

LEMMA QuotaRequest ==
  ASSUME JobsOk, Typed, QuotaInv, NEW r \in Req, RequestStep(r)
  PROVE  QuotaInv'
<1>1. Ours /\ CapsOk /\ Asking /\ MeterOk
  BY DEF QuotaInv
<1>2. Ours' /\ CapsOk' /\ Asking'
  BY <1>1, OursStep, CapsStep, AskingStep
<1>3. MeterOk'
  <2>1. CASE Record(r)
    BY <1>1, <2>1, MeterCharged
  <2>2. CASE ~Record(r)
    <3>1. UNCHANGED used /\ ~At(r, "record")
      BY <2>2, Routed
    <3>2. CASE UNCHANGED job
      BY <1>1, <3>1, <3>2, MeterElsewhere
    <3>3. ASSUME OthersStay(r), job'[r].at # "record" PROVE MeterOk'
      <4>1. \A op : Pending(op)' = Pending(op)
        <5>1. ASSUME NEW op PROVE Pending(op)' = Pending(op)
          <6>1. r \notin Pending(op) /\ r \notin Pending(op)'
            BY <3>1, <3>3 DEF Pending, At
          <6>2. Pending(op)' \ {r} = Pending(op) \ {r}
            BY <3>3, OthersPending
          <6> QED BY <6>1, <6>2
        <5> QED BY <5>1
      <4>2. \A q \in Pending("ai") : Cost'[q] = Cost[q]
        <5>1. Pending("ai") \subseteq Req \ {r}
          BY <3>1 DEF Pending
        <5> QED BY <3>3, <5>1, OthersPending
      <4>3. UsedOk' /\ used'.calls <= used.calls /\ used'.tokens <= used.tokens /\ used'.emails <= used.emails
        BY <1>1, <3>1 DEF MeterOk, UsedOk
      <4> QED BY <1>1, <4>1, <4>2, <4>3, MeterQuiet
    <3>4. CASE EndsBadly(r) \/ EndsWell(r)
      BY <3>3, <3>4 DEF EndsBadly, EndsWell
    <3>5. ASSUME NEW p \in Places, NEW x, NEW n, Moves(r, p, x, n), Route(r, p, x, n) PROVE MeterOk'
      <4>1. CASE p = "record"
        <5>1. Moves(r, "record", x, Pos(r)) /\ Route(r, "record", x, Pos(r))
          BY <3>5, <4>1 DEF Route
        <5> QED BY <1>1, <3>1, <5>1, MeterPassed
      <4>2. CASE p # "record"
        BY <3>3, <3>5, <4>2 DEF Moves
      <4> QED BY <4>1, <4>2
    <3> QED BY <2>2, <3>2, <3>4, <3>5, Routed
  <2> QED BY <2>1, <2>2
<1> QED BY <1>2, <1>3 DEF QuotaInv

LEMMA QuotaNext == JobsOk /\ Typed /\ QuotaInv /\ [Next]_vars => QuotaInv'
<1> SUFFICES ASSUME JobsOk, Typed, QuotaInv, [Next]_vars PROVE QuotaInv'
  OBVIOUS
<1>1. Ours /\ CapsOk /\ Asking /\ MeterOk
  BY DEF QuotaInv
<1>2. ASSUME UNCHANGED job, Exists' => Billed(tenant'.settings),
             \/ UNCHANGED used
             \/ \E month \in BOOLEAN :
                  used' = [used EXCEPT !.days = @ - 1, !.calls = 0,
                                       !.tokens = IF month THEN 0 ELSE @,
                                       !.emails = IF month THEN 0 ELSE @]
      PROVE  QuotaInv'
  <2>1. Ours'
    BY <1>1, <1>2 DEF Ours, CallOf
  <2>2. CapsOk'
    BY <1>1, <1>2 DEF CapsOk, Settings, Saw, At
  <2>3. Asking'
    BY <1>1, <1>2 DEF Asking, AsksOk, At, Pos, CallOf
  <2>4. MeterOk'
    BY <1>1, <1>2, MeterElsewhere
  <2> QED BY <2>1, <2>2, <2>3, <2>4 DEF QuotaInv
<1>3. UNCHANGED tenant => (Exists' => Billed(tenant'.settings))
  BY <1>1 DEF CapsOk, Exists, Settings
<1>4. CASE SeedStep
  <2>1. UNCHANGED <<job, used>>
    BY <1>4 DEF SeedStep, StartSeed, ClearRole, Grant, SeedPlatform, SeedCompany, SeedSeries, SeedAdmin,
         SeedItems, Finish, CutOffSeed
  <2>2. Exists' => Billed(tenant'.settings)
    <3>1. CASE UNCHANGED tenant
      BY <1>3, <3>1
    <3>2. CASE ~UNCHANGED tenant
      <4>1. SeedCompany
        BY <1>4, <3>2 DEF SeedStep, StartSeed, ClearRole, Grant, SeedPlatform, SeedSeries, SeedAdmin,
             SeedItems, Finish, CutOffSeed
      <4>2. /\ tenant' = [tenant EXCEPT !.status = "active", !.modules = DemoModules,
                                        !.settings = DemoSettings]
            /\ Exists
        BY <3>2, <4>1 DEF SeedCompany, Exists
      <4>3. tenant'.settings = DemoSettings
        BY <4>2 DEF Typed, CompanyOk, PresentOk
      <4> QED BY <4>3, GivenBilled DEF Given
    <3> QED BY <3>1, <3>2
  <2> QED BY <1>2, <2>1, <2>2
<1>5. CASE NewDay
  BY <1>2, <1>3, <1>5 DEF NewDay
<1>6. CASE UNCHANGED vars
  BY <1>2, <1>3, <1>6 DEF vars
<1> QED BY <1>4, <1>5, <1>6, QuotaRequest DEF Next

LEMMA QuotaInit == TenantInit => QuotaInv
<1> SUFFICES ASSUME TenantInit PROVE QuotaInv
  OBVIOUS
<1>1. PICK mix \in Mix0 :
        /\ tenant = mix.tenant
        /\ job = [r \in Req |-> [at |-> "waiting", call |-> mix.call[r]]]
        /\ used = [calls |-> 0, tokens |-> 0, emails |-> 0, days |-> mix.days]
  BY DEF TenantInit
<1>2. Ours
  BY <1>1 DEF Ours, CallOf
<1>3. CapsOk
  <2>1. Exists => tenant.settings \in Given
    BY <1>1 DEF Exists, NoCompany, Given
  <2> QED BY <1>1, <2>1, GivenBilled DEF CapsOk, Settings, Writing, At
<1>4. Asking
  BY <1>1 DEF Asking, AsksOk, At
<1>5. \A op : Pending(op) = {}
  BY <1>1 DEF Pending, At
<1>6. UsedOk
  BY <1>1 DEF UsedOk
<1>7. CallsOk
  <2>1. Cardinality({}) = 0 /\ Others + 1 \in Nat /\ Others \in Int
    BY QuotaConstants, FS_EmptySet, FS_CardinalityType DEF Others
  <2>2. DailyLimit \in Nat \ {0} /\ used.calls = 0
    BY <1>1, UsageConstants
  <2> QED BY <1>5, <2>1, <2>2 DEF CallsOk
<1>8. EmailsOk /\ TokensOk
  BY <1>1, <1>5 DEF EmailsOk, TokensOk, TokenRoom
<1> QED BY <1>2, <1>3, <1>4, <1>6, <1>7, <1>8 DEF QuotaInv, MeterOk

LEMMA QuotaHolds == QuotaInv => QuotaBound
<1> SUFFICES ASSUME QuotaInv PROVE QuotaBound
  OBVIOUS
<1>1. Asking /\ MeterOk
  BY DEF QuotaInv
<1>0. Pending("ai") \in SUBSET Req /\ Pending("createUser") \in SUBSET Req
  BY DEF Pending
<1>2. PICK P, E : P = Pending("ai") /\ E = Pending("createUser") /\ P \in SUBSET Req /\ E \in SUBSET Req
  BY <1>0
<1>3. /\ Cardinality(P) \in Nat /\ Cardinality(E) \in Nat /\ DailyLimit \in Nat /\ UsedOk /\ Others \in Int
      /\ EmailCaps \subseteq Nat
  BY <1>1, <1>2, SomeOf, UsageConstants, CostsNat DEF MeterOk
<1>4. used.calls <= DailyLimit + Others
  BY <1>1, <1>2, <1>3 DEF MeterOk, CallsOk, UsedOk
<1>5. used.emails = 0 \/ \E cap \in EmailCaps : used.emails <= cap + Others
  <2>1. ASSUME NEW cap \in EmailCaps, used.emails + Cardinality(E) <= cap + Others
        PROVE  used.emails <= cap + Others
    BY <1>3, <2>1 DEF UsedOk
  <2> QED BY <1>1, <1>2, <2>1 DEF MeterOk, EmailsOk
<1>6. used.tokens = 0 \/ \E cap \in TokenCaps, most \in Costs : used.tokens <= cap + Others * most
  <2>1. PICK cost, tokens : cost = Cost /\ tokens = used.tokens /\ TokenRoom(P, cost, tokens)
    BY <1>1, <1>2 DEF MeterOk, TokensOk
  <2>2. \A q \in P : cost[q] \in Nat
    BY <1>1, <1>2, <2>1, PendingCosts, UsageConstants
  <2>3. ASSUME NEW cap \in TokenCaps, NEW most \in Costs, NEW w \in P,
               tokens + cost[w] + (Cardinality(P) - 1) * most <= cap + Others * most
        PROVE  tokens <= cap + Others * most
    <3>1. /\ cap \in Nat /\ most \in Nat /\ Cardinality(P) - 1 \in Nat /\ cost[w] \in Nat
          /\ tokens \in Nat /\ Others \in Int
      BY <1>2, <1>3, <2>1, <2>2, <2>3, SomeOf, CostsNat DEF UsedOk
    <3>2. (Cardinality(P) - 1) * most \in Nat /\ Others * most \in Int
      BY <3>1
    <3> QED BY <2>3, <3>1, <3>2
  <2> QED BY <2>1, <2>3 DEF TokenRoom
<1> QED BY <1>4, <1>5, <1>6 DEF QuotaBound

\* Requests and rows are well formed, the permissions are those of roles, no save
\* takes the last administrator unless accounts raced, and what was told is kept.
TenantInv == JobsOk /\ Typed /\ SeedInv /\ Observed /\ AdminsOk /\ Kept

LEMMA TenantInvariant == Spec => []TenantInv
<1>1. TenantInit => TenantInv
  BY JobsInit, TypedInit, SeedInit, AdminsInit, KeptInit DEF TenantInv
<1>2. TenantInv /\ [Next]_vars => TenantInv'
  <2> SUFFICES ASSUME TenantInv, [Next]_vars PROVE TenantInv'
    OBVIOUS
  <2>1. JobsOk' /\ Typed' /\ SeedInv'
    BY JobsNext, TypedNext, SeedNext DEF TenantInv
  <2>2. Observed' /\ AdminsOk'
    <3>1. SeedShape
      BY DEF TenantInv, SeedInv, SeedShape
    <3> QED BY <3>1, AdminsNext DEF TenantInv
  <2>3. Kept'
    BY <2>1, KeptNext DEF TenantInv
  <2> QED BY <2>1, <2>2, <2>3 DEF TenantInv
<1> QED BY <1>1, <1>2, PTL DEF Spec

\* What is stored is well formed in every state: settings have known keys, a
\* default warehouse is one of the company's, users have known roles, and without
\* a company there is no series and no stock master.
THEOREM TenantTypeCorrect == Spec => []TenantTypeOK
<1>1. TenantInv => TenantTypeOK
  BY DEF TenantInv, Typed, RowsOk, CompanyOk, PresentOk, AbsentOk, SeedInv, SettingsIn, TenantTypeOK
<1> QED BY <1>1, TenantInvariant, PTL

\* A company keeps an active administrator, however many administrators demote or
\* suspend each other at once, unless an account was saved after another had
\* changed since assertNotLastAdmin looked.
THEOREM CompanyKeepsAdmin == Spec => []AdminRemains
<1>1. TenantInv => AdminRemains
  BY DEF TenantInv, AdminsOk
<1> QED BY <1>1, TenantInvariant, PTL

\* A change that was acknowledged is there until it is overwritten: a later write
\* of the whole settings object undoes only what it had not read.
THEOREM AcknowledgedStays == Spec => []AcknowledgedIsKept
<1>1. TenantInv => AcknowledgedIsKept
  BY KeptIsAcknowledged DEF TenantInv
<1> QED BY <1>1, TenantInvariant, PTL

\* However many calls pass assertWithinQuota before any of them is recorded, and
\* whatever becomes of the settings meanwhile, a day has at most one call more, and
\* a month one email or one answer more, than the limit for each other request.
THEOREM QuotasHold == Spec => []QuotaBound
<1>1. TenantInit => QuotaInv
  BY QuotaInit
<1>2. TenantInv /\ QuotaInv /\ [Next]_vars => QuotaInv'
  BY QuotaNext DEF TenantInv
<1>3. QuotaInv => QuotaBound
  BY QuotaHolds
<1> QED BY <1>1, <1>2, <1>3, TenantInvariant, PTL DEF Spec

=============================================================================
