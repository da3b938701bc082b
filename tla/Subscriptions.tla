--------------------------- MODULE Subscriptions ---------------------------
(***************************************************************************)
(* The subscription of a company, kept in two databases: the plan, status  *)
(* and entitlements on the company's row, and a subscription and a routing *)
(* row in the catalogue (subscriptions.py, subscription_service.py,        *)
(* companies.py), next to the changes of CompanyConfig and of the          *)
(* platform's configuration; and the licence a desktop gets of all that    *)
(* (license.py, license_manifest_service.py).                              *)
(*                                                                         *)
(* No transaction spans the databases: an assignment commits the tenant's, *)
(* then the catalogue's, then a new revision of the company.               *)
(***************************************************************************)
EXTENDS CompanyConfig, PlatformConfig

CONSTANTS InitialPlans,   \* the definitions of the plans at the start
          InitialSub,     \* the company's subscription at the start, or NoSub
          StartPlan,      \* the plan of its row
          StartSections,  \* the sections of the file at the start
          MaxTime         \* bound of the clock

VARIABLES
  sub,      \* the committed subscription
  routed,   \* is_active of the company's routing row
  now,      \* the clock, in days
  read,     \* read[r]: what request r has read of the catalogue
  licence   \* licence[c]: the manifest desktop c holds, or is being given

subVars == <<sub, routed, now, read, licence>>
vars == <<company, req, client, lapse, file, catalogue, saver, serial, sub, routed, now, read,
          licence>>

Subs == [plan : Plans, status : Statuses, end : Nat \cup {None}, override : Overrides]

SubOps ==
  [kind : {"assign"}, plan : Plans, status : Statuses, end : Nat \cup {None}, override : Overrides]
    \cup [kind : {"renew"}, days : Nat \cup {None}]
    \cup [kind : {"patch"}, active : BOOLEAN]

ASSUME WorkloadsAssumption == Workloads \subseteq [Requests -> ConfigOps \cup SubOps]
ASSUME PlansAssumption ==
  /\ InitialPlans \in [Plans -> Definitions] /\ StartPlan \in Plans /\ PlanRows \subseteq Plans
  /\ StartSections \in Sections
ASSUME NoSubAssumption == NoSub \notin Subs
ASSUME TimeAssumption == MaxTime \in Nat

\* The two databases agree at the start.
ASSUME SubAssumption ==
  /\ InitialSub \in Subs \cup {NoSub}
  /\ InitialSub # NoSub => InitialSub.plan = StartPlan /\ InitialSub.status = "active"

NothingRead == [defn |-> InitialPlans[StartPlan], sub |-> NoSub, routed |-> TRUE, at |-> 0]

\* What a manifest says, with the revisions it carries.
ManifestOf(row, plan, s) ==
  [plan |-> row.plan, end |-> s.end, grace |-> plan.grace,
   ent |-> resolve_effective_entitlements(plan, s, row.ent, row.column)]

NoLicence == [step |-> "none", row |-> NewCompany(StartPlan), rev |-> 0, grev |-> 0,
              says |-> NoSub, torn |-> FALSE]

Init ==
  /\ ConfigInit(NewCompany(StartPlan))
  /\ PlatformInit([plans |-> StartSections, session |-> StartSections, rev |-> 0], InitialPlans)
  /\ sub = InitialSub
  /\ routed = TRUE
  /\ now = 0
  /\ read = [r \in Requests |-> NothingRead]
  /\ licence = [c \in Clients |-> NoLicence]

\* SQLAlchemy writes a column only where it differs from what was loaded.
Written(new, seen, committed) == IF new = seen THEN committed ELSE new

Tick ==
  /\ now < MaxTime
  /\ now' = now + 1
  /\ UNCHANGED <<configVars, platformVars, sub, routed, read, licence>>

----------------------------------------------------------------------------
(* assign_subscription. *)

\* The status and the end of the period have to fit together when the request arrives.
LoadForAssign(r) ==
  LET op      == req[r].op
      refused == op.status \in {"active", "trial"} /\ is_period_expired(op.end, now)
  IN /\ op.kind = "assign" /\ req[r].step = "start"
     /\ IF refused THEN Goto(r, "end") /\ UNCHANGED <<company, client, lapse, read>>
        ELSE Load(r, "start", "loaded") /\ read' = [read EXCEPT ![r].defn = catalogue[op.plan]]
     /\ UNCHANGED <<platformVars, sub, routed, now, licence>>

\* apply_plan_to_company changes the dictionary of entitlements the company already has in
\* place, so that a second assignment finds nothing changed in settings_json.
CommitAssign(r) ==
  LET op     == req[r].op
      seen   == req[r].seen
      column == resolve_limits(read[r].defn, op.override).users
      row    == [company EXCEPT !.plan   = Written(op.plan, seen.plan, @),
                                !.status = Written(op.status, seen.status, @),
                                !.column = Written(column, seen.column, @)]
  IN /\ op.kind = "assign" /\ req[r].step = "loaded"
     /\ Store(r, IF seen.ent # NoEnt THEN row
                 ELSE WithSettings(row, [SettingsOf(seen) EXCEPT
                                           !.ent = AppliedEnt(read[r].defn, op.override)]),
              [req[r] EXCEPT !.step = "catalogue"])
     /\ UNCHANGED <<client, platformVars, subVars>>

\* The transaction of the catalogue: of an assignment, or of a renewal, which needs a
\* subscription.  An assignment to a plan without a row leaves the catalogue as it is.
LoadSub(r) ==
  LET renews == req[r].op.kind = "renew"
  IN /\ \/ renews /\ req[r].step = "start"
        \/ req[r].op.kind = "assign" /\ req[r].step = "catalogue"
     /\ Goto(r, CASE renews /\ sub = NoSub                         -> "end"
                  [] ~renews /\ req[r].op.plan \notin PlanRows     -> "bump"
                  [] OTHER                                         -> "persist")
     /\ read' = [read EXCEPT ![r].sub = sub, ![r].at = now]
     /\ UNCHANGED <<company, client, lapse, platformVars, sub, routed, now, licence>>

\* Two first subscriptions: the second one's insert is refused, after its plan is applied.
CommitSub(r) ==
  LET op   == req[r].op
      seen == read[r].sub
      new  == [plan |-> op.plan, status |-> op.status, end |-> op.end, override |-> op.override]
  IN /\ op.kind = "assign" /\ req[r].step = "persist"
     /\ IF seen = NoSub /\ sub # NoSub
        THEN Goto(r, "cut") /\ lapse' = TRUE /\ UNCHANGED sub
        ELSE /\ Goto(r, "bump") /\ UNCHANGED lapse
             /\ sub' = IF seen = NoSub THEN new
                       ELSE [field \in DOMAIN sub |->
                               Written(new[field], seen[field], sub[field])]
     /\ UNCHANGED <<company, client, platformVars, routed, now, read, licence>>

\* A plausible mistake: the renewal writes back the whole subscription it has read.
Renewed_Faulty(seen, committed, end) == [seen EXCEPT !.end = end]

Renewed(seen, committed, end) == [committed EXCEPT !.end = end]

\* The end that is stored has no time zone and the clock has one: comparing the two fails,
\* so only a subscription without an end can be renewed.
CommitRenewal(r) ==
  LET seen == read[r].sub
      days == IF req[r].op.days # None THEN req[r].op.days ELSE catalogue[seen.plan].period
  IN /\ req[r].op.kind = "renew" /\ req[r].step = "persist"
     /\ IF seen.end # None THEN Goto(r, "end") /\ UNCHANGED sub
        ELSE Goto(r, "bump") /\ sub' = Renewed(seen, sub, read[r].at + days)
     /\ UNCHANGED <<company, client, lapse, platformVars, routed, now, read, licence>>

----------------------------------------------------------------------------
(* patch_company: the row of the tenant, then its copy in the routing row. *)

LoadForPatch(r) ==
  /\ req[r].op.kind = "patch"
  /\ Load(r, "start", "loaded")
  /\ read' = [read EXCEPT ![r].routed = routed]
  /\ UNCHANGED <<platformVars, sub, routed, now, licence>>

CommitPatch(r) ==
  LET row == [company EXCEPT !.active = Written(req[r].op.active, req[r].seen.active, @)]
  IN /\ req[r].op.kind = "patch" /\ req[r].step = "loaded"
     /\ Store(r, row, [req[r] EXCEPT !.step = "patched"])
     /\ UNCHANGED <<client, platformVars, subVars>>

RefreshPatched(r) ==
  /\ Load(r, "patched", "routing")
  /\ UNCHANGED <<platformVars, subVars>>

CommitRouting(r) ==
  /\ req[r].step = "routing"
  /\ routed' = Written(req[r].seen.active, read[r].routed, routed)
  /\ Goto(r, "bump")
  /\ UNCHANGED <<company, client, lapse, platformVars, sub, now, read, licence>>

----------------------------------------------------------------------------
(* The licence of a desktop. *)

\* The company's row; refused when the subscription is not usable, and failing when there
\* is none or the file cannot be read.
StartManifest(c) ==
  /\ licence[c].step \in {"none", "held"}
  /\ sub # NoSub /\ subscription_is_usable(sub.status, sub.end, now) /\ file # Broken
  /\ licence' = [licence EXCEPT ![c] = [NoLicence EXCEPT !.step = "row", !.row = company,
                                                         !.rev = company.rev]]
  /\ UNCHANGED <<configVars, platformVars, sub, routed, now, read>>

\* The plan of the company's row and its subscription.
ReadEntitlements(c) ==
  /\ licence[c].step = "row" /\ file # Broken
  /\ licence' = [licence EXCEPT ![c].step = "read",
                   ![c].says = ManifestOf(licence[c].row, catalogue[licence[c].row.plan], sub)]
  /\ UNCHANGED <<configVars, platformVars, sub, routed, now, read>>

\* The global revision is read last.
FinishManifest(c) ==
  /\ licence[c].step = "read" /\ file # Broken
  /\ licence' = [licence EXCEPT ![c].step = "held", ![c].grev = file.rev,
                   ![c].torn = licence[c].says # ManifestOf(company, catalogue[company.plan], sub)]
  /\ UNCHANGED <<configVars, platformVars, sub, routed, now, read>>

\* A global event reaches the streams of every company.
GlobalEvent(s) ==
  /\ PublishGlobal(s)
  /\ Announce(0)
  /\ UNCHANGED <<company, req, lapse, subVars>>

----------------------------------------------------------------------------
SubscriptionNext(r) ==
  \/ LoadForAssign(r) \/ CommitAssign(r) \/ LoadSub(r) \/ CommitSub(r) \/ CommitRenewal(r)
  \/ LoadForPatch(r) \/ CommitPatch(r) \/ RefreshPatched(r) \/ CommitRouting(r)

LicenceNext(c) == StartManifest(c) \/ ReadEntitlements(c) \/ FinishManifest(c)

Next ==
  \/ ConfigNext /\ UNCHANGED <<platformVars, subVars>>
  \/ \E s \in Savers : SaverStep(s) /\ UNCHANGED <<configVars, subVars>>
  \/ \E s \in Savers : GlobalEvent(s)
  \/ \E r \in Requests : SubscriptionNext(r)
  \/ \E c \in Clients : LicenceNext(c)
  \/ Tick

Spec == Init /\ [][Next]_vars

\* A stream goes on writing the events it gets as long as it is open.
Fairness == \A c \in Clients : WF_vars(Stream(c) /\ UNCHANGED <<platformVars, subVars>>)

FairSpec == Spec /\ Fairness

----------------------------------------------------------------------------
(* Properties. *)

\* Rows, requests, file and licences are what they are declared as, and a session that is
\* opened under any policies lasts as long as the bounds allow (session_policy_service.py:48).
PlatformTypeOK ==
  /\ company \in Companies
  /\ \A u \in Users, s \in Sites \cup {NoSite} :
       resolve_tenant_session(company.policies, u, s) \in TtlMin..TtlMax
  /\ \A r \in Requests : req[r].op \in ConfigOps \cup SubOps /\ req[r].seen \in Companies
  /\ file \in Files /\ (\A p \in Plans : catalogue[p] \in Definitions)
  /\ sub \in Subs \cup {NoSub} /\ routed \in BOOLEAN
  /\ \A c \in Clients : client[c].rev \in Nat /\ licence[c].grev \in Nat

\* The two databases agree on a company whenever no request is under way and none died,
\* as long as no two assignments and no two changes of its state were asked for, whatever
\* else runs in between (subscriptions.py:186, companies.py:138).
Count(kind) == Cardinality({r \in Requests : req[r].op.kind = kind})

CatalogueAgrees ==
  Quiet =>
    /\ Count("patch") <= 1 => routed = company.active
    /\ Count("assign") <= 1 /\ sub # NoSub
         /\ (\A r \in Requests : req[r].op.kind = "assign" => req[r].op.plan \in PlanRows) =>
         sub.plan = company.plan /\ sub.status = company.status

\* A licence that carries the current revisions, of the company and of the platform, says
\* what would be said now, unless the change came while it was being read, was lost under
\* another one or not counted, or is still to be counted (license_manifest_service.py:45).
PlanPending == \E s \in Savers : saver[s].op.kind = "edit" /\ saver[s].step \in {"bump", "bumping", "reopen"}

LicenceTellsAll ==
  \A c \in Clients :
    licence[c].step = "held" /\ ~licence[c].torn /\ licence[c].rev = company.rev
      /\ file # Broken /\ licence[c].grev = file.rev =>
      \/ licence[c].says = ManifestOf(company, catalogue[company.plan], sub)
      \/ Pending \/ lapse \/ PlanPending \/ ~serial

\* README.md:192: a plan that is edited reaches the licences of its companies without a new
\* assignment.
PlanEditReaches ==
  \A c \in Clients :
    licence[c].step = "held" /\ ~licence[c].torn /\ sub.override = NoOverride
      /\ serial /\ file # Broken /\ licence[c].grev = file.rev /\ ~PlanPending
      /\ (\E s \in Savers : saver[s].op.kind = "edit" /\ saver[s].op.plan = licence[c].row.plan
                             /\ saver[s].step = "end") =>
      licence[c].says.ent.modules = catalogue[licence[c].row.plan].modules
=============================================================================
