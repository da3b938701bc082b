--------------------------- MODULE CompanyConfig ---------------------------
(***************************************************************************)
(* The row of a company and its configuration revision: the session policy *)
(* and company endpoints, tenant_config_events.py, tenant_events.py and    *)
(* the revisions that login and manifest return.                           *)
(*                                                                         *)
(* settings_json is one column: every change reads it, changes its part of *)
(* it and stores all of it, in a transaction that locks nothing before its *)
(* UPDATE.  After the commit the new revision is published through Redis   *)
(* to the streams that are open at that moment.                            *)
(*                                                                         *)
(* Abstracted: the descriptive columns to one profile; e-mail settings to  *)
(* a host and whether a password is kept; an event to its revision.  The   *)
(* requests of a behaviour are fixed by Workloads and each runs once.      *)
(***************************************************************************)
EXTENDS SessionPolicies, Entitlements, FiniteSets

CONSTANTS Requests,   \* requests that change the company
          Clients,    \* desktops and browsers of the company
          Workloads,  \* which operation each request asks for
          Profiles    \* values of the descriptive columns

VARIABLES
  company,  \* the committed row
  req,      \* req[r]: progress of request r
  client,   \* client[c]: what client c knows, and its stream
  lapse     \* history: a stored change overwrote another one, or was never announced

configVars == <<company, req, client, lapse>>

ASSUME RequestsAssumption == IsFiniteSet(Requests)
ASSUME ProfilesAssumption == Profiles # {}

\* column: active_users_limit; email: "password" is a host with a password that is kept.
Companies ==
  [active : BOOLEAN, profile : Profiles, plan : Plans, status : Statuses, column : Nat \cup {None},
   rev : Nat, policies : Documents(RawEntries), email : {"none", "host", "password"},
   ent : Overrides \cup {NoEnt}]

\* What settings_json holds, as opposed to the columns of its own.
SettingsOf(row) ==
  [rev |-> row.rev, policies |-> row.policies, email |-> row.email, ent |-> row.ent]

\* What a client shows of the row.
Content(row) ==
  [active |-> row.active, profile |-> row.profile, plan |-> row.plan, status |-> row.status,
   policies |-> row.policies, ent |-> row.ent]

PolicyOps ==
  [kind : {"company_policy"}, entry : RawEntries, all : BOOLEAN]
    \cup [kind : {"site_policy"}, site : Sites, entry : RawEntries]
    \cup [kind : {"user_policy"}, user : Users, entry : RawEntries]
    \cup [kind : {"push_policies"}, doc : Documents(RawEntries)]

ConfigOps ==
  PolicyOps
    \cup [kind : {"profile", "push_profile"}, profile : Profiles]
    \cup [kind : {"email"}, password : BOOLEAN]
    \cup {[kind |-> "none"]}

\* seen: the row as loaded by the running transaction; stale: history, the settings
\* have changed since; rev: the revision to publish.
NewRequest(op, row) ==
  [op |-> op, step |-> IF op.kind = "none" THEN "end" ELSE "start", seen |-> row,
   stale |-> FALSE, rev |-> 0]

\* A client that has not logged in yet.  missed: history, an event was lost while its stream
\* was open, or a change was on its way when it opened.
NewClient(row) ==
  [step |-> "out", rev |-> 0, conf |-> Content(row), torn |-> FALSE,
   stream |-> FALSE, queue |-> <<>>, missed |-> FALSE]

\* A company as it is created: no settings, the default plan.
NewCompany(plan) ==
  [active |-> TRUE, profile |-> CHOOSE p \in Profiles : TRUE, plan |-> plan,
   status |-> "active", column |-> None, rev |-> 0, policies |-> NoPolicies,
   email |-> "none", ent |-> NoEnt]

ConfigInit(row) ==
  /\ company = row
  /\ \E work \in Workloads : req = [r \in Requests |-> NewRequest(work[r], row)]
  /\ client = [c \in Clients |-> NewClient(row)]
  /\ lapse = FALSE

----------------------------------------------------------------------------
(* Reading and storing. *)

\* Stores row in place of what request r has read: the settings as a whole, the
\* columns one by one, and the request as it goes on.  The other requests that have
\* read the settings now hold an old copy of them.  A stale store that leaves the settings
\* as they are has counted its change with the number of another one.
Store(r, row, going) ==
  /\ company' = row
  /\ req' = [q \in Requests |->
               IF q = r THEN going
               ELSE [req[q] EXCEPT !.stale = @ \/ SettingsOf(row) # SettingsOf(company)]]
  /\ lapse' = (lapse \/ (req[r].stale /\ row # company))

\* The row with the settings given, and the columns as they are committed.
WithSettings(row, settings) ==
  [row EXCEPT !.rev = settings.rev, !.policies = settings.policies,
              !.email = settings.email, !.ent = settings.ent]

Goto(r, step) == req' = [req EXCEPT ![r].step = step]

\* The start of a transaction on the company.
Load(r, from, to) ==
  /\ req[r].step = from
  /\ req' = [req EXCEPT ![r].step = to, ![r].seen = company, ![r].stale = FALSE]
  /\ UNCHANGED <<company, client, lapse>>

\* A plausible mistake: the change of a policy is stored without a new revision.
bump_company_config_revision_Faulty(settings) == settings

bump_company_config_revision(settings) == [settings EXCEPT !.rev = @ + 1]

\* The settings an operation stores, made from the ones it has read.
ChangedPolicies(op, doc) ==
  CASE op.kind = "company_policy" -> set_company_policy(doc, op.entry, op.all)
    [] op.kind = "site_policy"    -> set_site_policy(doc, op.site, op.entry)
    [] op.kind = "user_policy"    -> set_user_policy(doc, op.user, op.entry)
    [] op.kind = "push_policies"  -> op.doc

----------------------------------------------------------------------------
(* The endpoints. *)

PolicyKinds == {"company_policy", "site_policy", "user_policy", "push_policies"}

LoadForChange(r) ==
  /\ req[r].op.kind \in PolicyKinds \cup {"profile", "push_profile", "email"}
  /\ Load(r, "start", "loaded")

\* What follows the commit: an endpoint publishes the revision it has stored; a push
\* bumps the revision once more, in a transaction of its own.
AfterChange(r, settings) ==
  LET pushed == req[r].op.kind \in {"push_policies", "push_profile"}
  IN [req[r] EXCEPT !.step = IF pushed THEN "bump" ELSE "publish", !.rev = settings.rev]

CommitPolicies(r) ==
  LET seen     == SettingsOf(req[r].seen)
      settings == bump_company_config_revision(
                    [seen EXCEPT !.policies = ChangedPolicies(req[r].op, @)])
  IN /\ req[r].step = "loaded" /\ req[r].op.kind \in PolicyKinds
     /\ Store(r, WithSettings(company, settings), AfterChange(r, settings))
     /\ UNCHANGED client

CommitProfile(r) ==
  LET settings == bump_company_config_revision(SettingsOf(req[r].seen))
  IN /\ req[r].step = "loaded" /\ req[r].op.kind \in {"profile", "push_profile"}
     /\ Store(r, [WithSettings(company, settings) EXCEPT !.profile = req[r].op.profile],
              AfterChange(r, settings))
     /\ UNCHANGED client

\* A password that is not sent is kept; the revision is not bumped.
CommitEmail(r) ==
  LET seen     == SettingsOf(req[r].seen)
      settings == [seen EXCEPT !.email =
                     IF req[r].op.password \/ @ = "password"
                     THEN "password" ELSE "host"]
  IN /\ req[r].step = "loaded" /\ req[r].op.kind = "email"
     /\ Store(r, WithSettings(company, settings), [req[r] EXCEPT !.step = "end"])
     /\ UNCHANGED client

\* post_company_mutation, and the end of a push.
LoadForBump(r) == Load(r, "bump", "bumping")

CommitBump(r) ==
  LET settings == bump_company_config_revision(SettingsOf(req[r].seen))
  IN /\ req[r].step = "bumping"
     /\ Store(r, WithSettings(company, settings),
              [req[r] EXCEPT !.step = "publish", !.rev = settings.rev])
     /\ UNCHANGED client

\* A plausible mistake: the event goes to a channel that the streams do not read.
Delivered_Faulty(queue, rev) == queue

Delivered(queue, rev) == Append(queue, rev)

\* The event reaches the streams that are open, or is lost with Redis.
Announce(rev) ==
  \/ client' = [c \in Clients |->
                  IF client[c].stream THEN [client[c] EXCEPT !.queue = Delivered(@, rev)]
                  ELSE client[c]]
  \/ client' = [c \in Clients |-> [client[c] EXCEPT !.missed = @ \/ client[c].stream]]

Publish(r) ==
  /\ req[r].step = "publish"
  /\ Goto(r, "end")
  /\ Announce(req[r].rev)
  /\ UNCHANGED <<company, lapse>>

\* The process ends between two steps of a request, or a step of it fails.  Nothing
\* announces a change that is stored by then.
CutOff(r) ==
  /\ req[r].step \notin {"start", "end", "cut"}
  /\ Goto(r, "cut")
  /\ lapse' = (lapse \/ req[r].step # "loaded")
  /\ UNCHANGED <<company, client>>

----------------------------------------------------------------------------
(* Clients. *)

\* license_status: one reading of the row.
Fetch(c) ==
  /\ client[c].step # "login"
  /\ client' = [client EXCEPT ![c].step = "in", ![c].rev = company.rev,
                              ![c].conf = Content(company), ![c].torn = FALSE]
  /\ UNCHANGED <<company, req, lapse>>

\* Login and refresh read the row twice: for the session policy, then for the revision.
StartLogin(c) ==
  /\ client[c].step = "out"
  /\ client' = [client EXCEPT ![c].step = "login", ![c].conf = Content(company)]
  /\ UNCHANGED <<company, req, lapse>>

FinishLogin(c) ==
  /\ client[c].step = "login"
  /\ client' = [client EXCEPT ![c].step = "in", ![c].rev = company.rev,
                              ![c].torn = client[c].conf # Content(company)]
  /\ UNCHANGED <<company, req, lapse>>

Subscribe(c) ==
  /\ client[c].step = "in" /\ ~client[c].stream
  /\ client' = [client EXCEPT ![c].stream = TRUE, ![c].queue = <<>>,
                              ![c].missed = client[c].rev # company.rev \/ client[c].torn]
  /\ UNCHANGED <<company, req, lapse>>

\* The stream writes the next event, and the client asks for the licence's state.
Stream(c) ==
  /\ client[c].stream /\ client[c].queue # <<>>
  /\ client' = [client EXCEPT ![c].queue = Tail(@), ![c].rev = company.rev,
                              ![c].conf = Content(company), ![c].torn = FALSE]
  /\ UNCHANGED <<company, req, lapse>>

\* The connection ends, and with it the subscription.
Disconnect(c) ==
  /\ client[c].stream
  /\ client' = [client EXCEPT ![c].stream = FALSE, ![c].queue = <<>>]
  /\ UNCHANGED <<company, req, lapse>>

----------------------------------------------------------------------------
RequestNext(r) ==
  \/ LoadForChange(r) \/ CommitPolicies(r) \/ CommitProfile(r) \/ CommitEmail(r)
  \/ LoadForBump(r) \/ CommitBump(r) \/ Publish(r) \/ CutOff(r)

ClientNext(c) ==
  Fetch(c) \/ StartLogin(c) \/ FinishLogin(c) \/ Subscribe(c) \/ Stream(c) \/ Disconnect(c)

ConfigNext == (\E r \in Requests : RequestNext(r)) \/ (\E c \in Clients : ClientNext(c))

----------------------------------------------------------------------------
(* Properties. *)

Quiet == \A r \in Requests : req[r].step \in {"start", "end"}

Pending == \E r \in Requests : req[r].step \notin {"start", "loaded", "publish", "end"}

\* A client that has read the revision the company has now has read what the company is
\* now: neither a change without a revision nor a revision without its change, unless a
\* change was lost under another, a request died before it had counted its change, or
\* one has it still to do (tenant_config_events.py:180, auth.py:61, license.py:74).
RevisionTellsAll ==
  \A c \in Clients :
    client[c].step = "in" /\ client[c].rev = company.rev /\ ~client[c].torn =>
      client[c].conf = Content(company) \/ Pending \/ lapse

\* A policy decides for those it is set for and for nobody else: a stored change of it
\* leaves the session of another site, of another user, or of one with a policy of its
\* own as it was, whatever the other policies are (session_policy_service.py:174).
Concerned(op, u, s) ==
  CASE op.kind = "company_policy" -> Source(company.policies, u, s) >= IF op.all THEN 2 ELSE 3
    [] op.kind = "site_policy"    -> s = op.site /\ Source(company.policies, u, s) >= 2
    [] op.kind = "user_policy"    -> u = op.user
    [] OTHER                      -> op.kind = "push_policies"

PolicyScope ==
  [][\A r \in Requests : req[r].step = "loaded" /\ req'[r].step # "loaded" /\ ~req[r].stale =>
       \A u \in Users, s \in Sites \cup {NoSite} :
         \/ Concerned(req[r].op, u, s)
         \/ resolve_tenant_session(company'.policies, u, s)
              = resolve_tenant_session(company.policies, u, s)]_company

\* A change reaches every client whose stream was open and lost no event: it ends up with
\* the revision of the company, or disconnects (README.md:176, tenant_events.py).
StreamsCatchUp ==
  \A c \in Clients :
    (client[c].stream /\ ~client[c].missed /\ Quiet /\ ~lapse)
      ~> (client[c].rev = company.rev \/ ~client[c].stream \/ client[c].missed)
=============================================================================
