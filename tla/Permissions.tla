----------------------------- MODULE Permissions -----------------------------
(***************************************************************************)
(* Who may do what in one company: its users, their roles by site, the     *)
(* changes of role that are asked for and decided, temporary permissions   *)
(* and the limit of users (permission_service.py, api/deps/permissions.py, *)
(* endpoints/admin.py and admin_rbac.py).                                  *)
(*                                                                         *)
(* A handler is authorised in one step, reads in a second one and commits  *)
(* in a third, and others run in between; a commit writes the columns that *)
(* differ from what was read.  Users stand for their e-mail addresses.     *)
(***************************************************************************)
EXTENDS Entitlements, FiniteSets, Sequences

CONSTANTS Users, Sites,
          Anywhere,      \* site_id NULL, and a request without X-Site-Id
          Principal,     \* the site named "Principal"
          Rows,          \* identifiers of user_site_roles; a new row takes an unused one
          Changes,       \* identifiers of role_change_requests
          Grants,        \* identifiers of temporary_permissions
          Staff,         \* the company's first users: user to the role of users.role
          Asked,         \* permissions that are looked at
          Licences,      \* what the subscription may come to entitle the company to
          RoleWork,      \* requests a run may start: what each handler is asked to do
          RolePushes,    \* rows of user_site_roles that desktops push
          Handlers,
          LastDay        \* bound: the calendar stops there

ASSUME UsersAssumption == IsFiniteSet(Users)
ASSUME SitesAssumption == Anywhere \notin Sites /\ Principal \in Sites
ASSUME StaffAssumption == DOMAIN Staff \subseteq Users
ASSUME RowsAssumption == "none" \notin Rows
ASSUME LicencesAssumption == \A l \in Licences : l.users \in Nat \cup {None}

VARIABLES
  day,        \* the calendar
  licence,    \* the company's effective entitlements and the end of its period
  user,       \* user[u]: row of users
  row,        \* row[i]: row of user_site_roles
  change,     \* change[k]: row of role_change_requests
  grant,      \* grant[g]: row of temporary_permissions
  task,       \* task[h]: progress of handler h
  last,       \* last[u][s]: role that the last approval for u at s put in force (history)
  granted,    \* changes whose approval has been committed (history)
  contested,  \* users created with two rows for one site, or whose roles were
              \* changed behind the back of a decision (history)
  overrun     \* the company is over its limit for a reason the limit knows (history)

roleVars == <<day, licence, user, row, change, grant, task, last, granted, contested, overrun>>
people == <<user, row, change, grant>>
history == <<last, granted, contested, overrun>>

----------------------------------------------------------------------------
(* core/permissions.py, core/features.py.  A permission is a resource and a verb. *)

Of(resource, verbs) == {<<resource, verb>> : verb \in verbs}

AdminUsers == <<"admin", "users">>

Common == {<<"customers", "read">>, <<"equipment", "read">>, <<"orders", "read">>,
           <<"inventory", "read">>, <<"analytics", "read">>}

TENANT_ROLE_PERMISSIONS ==
  [viewer     |-> Common,
   technician |-> Common \cup Of("orders", {"write", "status"}) \cup {<<"inventory", "stock">>},
   reception  |-> Common \cup {<<"customers", "write">>, <<"equipment", "write">>,
                               <<"orders", "write">>, <<"contracts", "read">>}
                         \cup Of("portal_users", {"read", "write"}),
   admin      |-> Common \cup Of("customers", {"write", "delete"})
                         \cup Of("equipment", {"write", "delete"})
                         \cup Of("orders", {"write", "status", "delete"})
                         \cup Of("inventory", {"write", "stock", "delete"})
                         \cup Of("contracts", {"read", "write", "delete"})
                         \cup Of("portal_users", {"read", "write"}) \cup {AdminUsers}]

Roles == DOMAIN TENANT_ROLE_PERMISSIONS

\* What may be asked: the schemas admit the four roles, and the paths name rows there are.
ASSUME StaffRolesAssumption == \A u \in DOMAIN Staff : Staff[u] \in Roles
ASSUME RolePushesAssumption ==
  RolePushes \subseteq [exists : {TRUE}, active : BOOLEAN, user : Users,
                      site : Sites \cup {Anywhere}, role : Roles]
ASSUME RoleWorkAssumption ==
  \A work \in RoleWork, h \in Handlers :
    LET w == work[h]
    IN /\ w.kind \in {"create", "activity", "ask", "grant"} => w.user \in Users
       /\ w.kind \in {"create", "push", "ask"} => w.role \in Roles
       /\ w.kind = "create" => w.roles \in Seq([site : Sites \cup {Anywhere}, role : Roles])
       /\ w.kind = "push" => w.users \subseteq Users
       /\ w.kind = "activity" => w.active \in BOOLEAN
       /\ w.kind = "ask" => w.site \in Sites \cup {Anywhere}
       /\ w.kind \in {"approve", "reject"} => w.change \in Changes

permission_to_module(p) ==
  CASE p[1] = "admin"        -> "admin_users"
    [] p[1] = "portal_users" -> "customer_portal"
    [] OTHER                 -> p[1]

----------------------------------------------------------------------------
(* Rows *)

NoUser   == [exists |-> FALSE]
NoAssignment == [exists |-> FALSE]
NoChange == [status |-> "none"]
NoGrant  == [exists |-> FALSE]

User(active, role)     == [exists |-> TRUE, active |-> active, role |-> role]
Assignment(u, s, role) == [exists |-> TRUE, active |-> TRUE, user |-> u, site |-> s, role |-> role]

Waiting(work) == [step |-> "start", work |-> work, count |-> 0, limit |-> 0,
                  found |-> "none", role |-> "none", legacy |-> "none"]

\* A company starts within its limit.
RoleInit ==
  /\ day = 0
  /\ licence \in {l \in Licences : l.users = None \/ Cardinality(DOMAIN Staff) <= l.users}
  /\ user = [u \in Users |-> IF u \in DOMAIN Staff THEN User(TRUE, Staff[u]) ELSE NoUser]
  /\ row = [i \in Rows |-> NoAssignment]
  /\ change = [k \in Changes |-> NoChange]
  /\ grant = [g \in Grants |-> NoGrant]
  /\ \E work \in RoleWork : task = [h \in Handlers |-> Waiting(work[h])]
  /\ last = [u \in Users |-> [s \in Sites \cup {Anywhere} |-> "none"]]
  /\ granted = {} /\ contested = {} /\ overrun = FALSE

----------------------------------------------------------------------------
(* permission_service.py: what the rows say of a user, before any request. *)

RowsAt(u, s) == {i \in Rows : row[i].exists /\ row[i].user = u /\ row[i].site = s}
ActiveAt(u, s) == {i \in RowsAt(u, s) : row[i].active}

has_company_wide_role(u) == ActiveAt(u, Anywhere) # {}
has_any_site_role(u)     == \E s \in Sites : ActiveAt(u, s) # {}
user_has_site_access(u, s) == ActiveAt(u, s) # {} \/ has_company_wide_role(u)

RolesOf(rows) == {row[i].role : i \in rows}

\* The roles the first row found may carry: there is no order among rows, and none at all
\* is the empty set.  A user without an active row has the role of users.role.
resolve_role_for_site(u, s) ==
  IF ActiveAt(u, s) # {} THEN RolesOf(ActiveAt(u, s))
  ELSE IF has_company_wide_role(u) THEN RolesOf(ActiveAt(u, Anywhere))
  ELSE IF s # Anywhere \/ has_any_site_role(u) THEN {}
  ELSE {user[u].role}

\* A permission of a site counts for the whole company as well.
_active_temporary_permissions_Faulty(u, s) ==
  {grant[g].perm : g \in {g \in Grants : /\ grant[g].exists /\ grant[g].user = u
                                         /\ grant[g].until > day
                                         /\ s = Anywhere \/ grant[g].site \in {Anywhere, s}}}

\* A permission of a site counts only in that site.
_active_temporary_permissions(u, s) ==
  {grant[g].perm : g \in {g \in Grants : /\ grant[g].exists /\ grant[g].user = u
                                         /\ grant[g].until > day
                                         /\ grant[g].site \in {Anywhere, s}}}

is_company_subscription_usable == subscription_is_usable(licence.status, licence.end, day)

InPlan(p) == has_module(licence, permission_to_module(p))

get_user_permissions(u, s, role) ==
  IF ~is_company_subscription_usable THEN {}
  ELSE {p \in TENANT_ROLE_PERMISSIONS[role] \cup _active_temporary_permissions(u, s) : InPlan(p)}

\* api/deps: the user is active, has access to the site named, names one if that is all
\* there is, and has a role there.
get_permission_context(u, s) ==
  IF /\ user[u].exists /\ user[u].active
     /\ s # Anywhere => user_has_site_access(u, s)
     /\ s = Anywhere => has_company_wide_role(u) \/ ~has_any_site_role(u)
  THEN {get_user_permissions(u, s, role) : role \in resolve_role_for_site(u, s)}
  ELSE {}

MayAct(u, s, p) == \E perms \in get_permission_context(u, s) : p \in perms

ActiveUsers == {u \in Users : user[u].exists /\ user[u].active}

\* can_add_user: the limit, or None.
HasRoom(limit, count) == limit = None \/ count < limit

----------------------------------------------------------------------------
(* The handlers of endpoints/admin.py and admin_rbac.py *)

Task(h)        == task[h].work
Doing(h, step) == task[h].step = step
Move(h, step)  == task' = [task EXCEPT ![h].step = step]
Done(h)        == task' = [task EXCEPT ![h] = Waiting(Task(h))]

\* sync_admin/context.py: users.role is enough, whatever the rows say.
get_sync_context(u) ==
  /\ user[u].exists /\ user[u].active /\ is_company_subscription_usable
  /\ \/ user[u].role = "admin"
     \/ \E role \in resolve_role_for_site(u, Anywhere) :
          AdminUsers \in get_user_permissions(u, Anywhere, role)

\* RequirePermission(ADMIN_USERS); asking for another role of one's own needs no permission.
Authorise(h) ==
  /\ Doing(h, "start")
  /\ LET w == Task(h)
     IN CASE w.kind = "ask" /\ w.actor = w.user -> get_permission_context(w.actor, w.at) # {}
          [] w.kind = "push"                    -> get_sync_context(w.actor)
          [] OTHER                              -> MayAct(w.actor, w.at, AdminUsers)
  /\ Move(h, "admitted")
  /\ UNCHANGED <<day, licence, people, history>>

Ready(h, kind) == Doing(h, "admitted") /\ Task(h).kind = kind

\* An excess is explained when it comes to be with a cause, until it is gone.
Explain(cause) ==
  overrun' = ( /\ licence'.users # None
               /\ Cardinality({u \in Users : user'[u].exists /\ user'[u].active}) > licence'.users
               /\ overrun \/ cause )

\* create_company_user: can_add_user, and the address is not in use.
CountUsers_Faulty(h) ==
  /\ Ready(h, "create") /\ is_company_subscription_usable
  /\ licence.users = None \/ Cardinality(ActiveUsers) <= licence.users
  /\ ~user[Task(h).user].exists
  /\ task' = [task EXCEPT ![h].step = "counted", ![h].count = Cardinality(ActiveUsers),
                          ![h].limit = licence.users]
  /\ UNCHANGED <<day, licence, people, history>>

\* create_company_user: can_add_user, and the address is not in use.
CountUsers(h) ==
  /\ Ready(h, "create") /\ is_company_subscription_usable
  /\ HasRoom(licence.users, Cardinality(ActiveUsers))
  /\ ~user[Task(h).user].exists
  /\ task' = [task EXCEPT ![h].step = "counted", ![h].count = Cardinality(ActiveUsers),
                          ![h].limit = licence.users]
  /\ UNCHANGED <<day, licence, people, history>>

\* Without roles by site, the role at the principal site, or everywhere for an admin.
SiteRoles(w) ==
  IF w.roles # <<>> THEN w.roles
  ELSE <<[site |-> IF w.role = "admin" THEN Anywhere ELSE Principal, role |-> w.role]>>

Unused(rows) == {i \in rows : ~row[i].exists}

\* The user and a row for each role listed; an address taken meanwhile violates
\* uq_users_company_email.  Nothing refuses two rows for one site: migration 001 creates
\* the tables of a new database from the models, and migration 010, with its unique
\* indexes, then passes over a table it finds.
CommitUser(h) ==
  /\ Doing(h, "counted")
  /\ LET w == Task(h)
         roles == SiteRoles(w)
     IN IF user[w.user].exists
        THEN UNCHANGED <<user, row, contested, overrun>>
        ELSE /\ user' = [user EXCEPT ![w.user] = User(TRUE, w.role)]
             /\ \E id \in [DOMAIN roles -> Unused(Rows)] :
                  /\ \A n, m \in DOMAIN roles : id[n] = id[m] => n = m
                  /\ row' = [i \in Rows |->
                       IF \E n \in DOMAIN roles : id[n] = i
                       THEN LET n == CHOOSE n \in DOMAIN roles : id[n] = i
                            IN Assignment(w.user, roles[n].site, roles[n].role)
                       ELSE row[i]]
             /\ contested' = IF \E n, m \in DOMAIN roles : n # m /\ roles[n].site = roles[m].site
                             THEN contested \cup {w.user} ELSE contested
             /\ UNCHANGED licence
             /\ Explain(task[h].count # Cardinality(ActiveUsers) \/ task[h].limit # licence.users)
  /\ Done(h)
  /\ UNCHANGED <<day, licence, change, grant, last, granted>>

\* A desktop pushes users it has created: each is counted against what is stored, and all
\* are stored together, without roles by site.
CountPushed(h) ==
  /\ Ready(h, "push") /\ is_company_subscription_usable
  /\ HasRoom(licence.users, Cardinality(ActiveUsers))
  /\ task' = [task EXCEPT ![h].step = "pushed", ![h].count = Cardinality(ActiveUsers),
                          ![h].limit = licence.users]
  /\ UNCHANGED <<day, licence, people, history>>

CommitPushed(h) ==
  /\ Doing(h, "pushed")
  /\ LET w == Task(h)
     IN IF \E u \in w.users : user[u].exists
        THEN UNCHANGED <<user, overrun>>
        ELSE /\ user' = [u \in Users |-> IF u \in w.users THEN User(TRUE, w.role) ELSE user[u]]
             /\ UNCHANGED licence
             /\ Explain(\/ Cardinality(w.users) > 1
                        \/ task[h].count # Cardinality(ActiveUsers) \/ task[h].limit # licence.users)
  /\ Done(h)
  /\ UNCHANGED <<day, licence, row, change, grant, last, granted, contested>>

\* deactivate_company_user, update_company_user: one column, and no limit for the latter.
SetUserActive(h) ==
  /\ Ready(h, "activity") /\ user[Task(h).user].exists
  /\ user' = [user EXCEPT ![Task(h).user].active = Task(h).active]
  /\ UNCHANGED licence
  /\ Explain(Task(h).active)
  /\ Done(h)
  /\ UNCHANGED <<day, row, change, grant, last, granted, contested>>

\* request_role_change.
AskForRole(h) ==
  /\ Ready(h, "ask") /\ user[Task(h).user].exists
  /\ \E k \in Changes :
       /\ change[k].status = "none"
       /\ change' = [change EXCEPT ![k] = [status |-> "pending", user |-> Task(h).user,
                                           site |-> Task(h).site, role |-> Task(h).role]]
  /\ Done(h)
  /\ UNCHANGED <<day, licence, user, row, grant, history>>

\* approve_role_change and reject_role_change read the request; an approval also reads the
\* row of that user and site, active or not, and the user.
ReadChange(h) ==
  /\ Ready(h, "approve") \/ Ready(h, "reject")
  /\ LET k == Task(h).change
         rows == RowsAt(change[k].user, change[k].site)
     IN /\ change[k].status = "pending"
        /\ IF rows = {} \/ Task(h).kind = "reject"
           THEN task' = [task EXCEPT ![h].step = "read", ![h].legacy = user[change[k].user].role]
           ELSE \E i \in rows :
                  task' = [task EXCEPT ![h].step = "read", ![h].found = i, ![h].role = row[i].role,
                                       ![h].legacy = user[change[k].user].role]
  /\ UNCHANGED <<day, licence, people, history>>

\* The decision was overtaken: what it read is no longer there.
Overtaken(h, k) ==
  \/ change[k].status # "pending"
  \/ user[change[k].user].role # task[h].legacy
  \/ IF task[h].found = "none" THEN RowsAt(change[k].user, change[k].site) # {}
                               ELSE row[task[h].found].role # task[h].role

\* users.role is left as it was.
CommitApproval_Faulty(h) ==
  /\ Doing(h, "read") /\ Task(h).kind = "approve"
  /\ LET k == Task(h).change
         c == change[k]
     IN /\ IF task[h].found = "none"
           THEN \E i \in Unused(Rows) : row' = [row EXCEPT ![i] = Assignment(c.user, c.site, c.role)]
           ELSE row' = [row EXCEPT ![task[h].found].role = c.role]
        /\ change' = [change EXCEPT ![k].status = "approved"]
        /\ last' = [last EXCEPT ![c.user][c.site] = c.role]
        /\ granted' = granted \cup {k}
        /\ contested' = IF Overtaken(h, k) THEN contested \cup {c.user} ELSE contested
  /\ Done(h)
  /\ UNCHANGED <<day, licence, user, grant, overrun>>

\* The row is changed or inserted; a change for the whole company is users.role as well.
\* A column that was read with its new value is not written.
CommitApproval(h) ==
  /\ Doing(h, "read") /\ Task(h).kind = "approve"
  /\ LET k == Task(h).change
         c == change[k]
     IN /\ IF task[h].found = "none"
           THEN \E i \in Unused(Rows) : row' = [row EXCEPT ![i] = Assignment(c.user, c.site, c.role)]
           ELSE row' = IF task[h].role = c.role THEN row
                       ELSE [row EXCEPT ![task[h].found].role = c.role]
        /\ user' = IF c.site = Anywhere /\ task[h].legacy # c.role
                   THEN [user EXCEPT ![c.user].role = c.role] ELSE user
        /\ change' = [change EXCEPT ![k].status = "approved"]
        /\ last' = [last EXCEPT ![c.user][c.site] = c.role]
        /\ granted' = granted \cup {k}
        /\ contested' = IF Overtaken(h, k) THEN contested \cup {c.user} ELSE contested
  /\ Done(h)
  /\ UNCHANGED <<day, licence, grant, overrun>>

CommitRejection(h) ==
  /\ Doing(h, "read") /\ Task(h).kind = "reject"
  /\ LET k == Task(h).change
     IN /\ change' = [change EXCEPT ![k].status = "rejected"]
        /\ contested' = IF change[k].status # "pending" THEN contested \cup {change[k].user}
                        ELSE contested
  /\ Done(h)
  /\ UNCHANGED <<day, licence, user, row, grant, last, granted, overrun>>

\* grant_temporary_permission: in the plan, and where the user has access.
GrantTemporary(h) ==
  /\ Ready(h, "grant") /\ user[Task(h).user].exists
  /\ InPlan(Task(h).perm)
  /\ Task(h).site = Anywhere \/ user_has_site_access(Task(h).user, Task(h).site)
  /\ \E g \in Grants :
       /\ ~grant[g].exists
       /\ grant' = [grant EXCEPT ![g] = [exists |-> TRUE, user |-> Task(h).user,
                       site |-> Task(h).site, perm |-> Task(h).perm,
                       until |-> day + Task(h).days]]
  /\ Done(h)
  /\ UNCHANGED <<day, licence, user, row, change, history>>

RevokeTemporary(h) ==
  /\ Ready(h, "revoke")
  /\ \E g \in Grants : grant[g].exists /\ grant' = [grant EXCEPT ![g] = NoGrant]
  /\ Done(h)
  /\ UNCHANGED <<day, licence, user, row, change, history>>

\* 404, 400, 403, or the process goes away before the commit.
GiveUp(h) ==
  /\ ~Doing(h, "start") /\ Done(h)
  /\ UNCHANGED <<day, licence, people, history>>

----------------------------------------------------------------------------
(* What others do to these rows *)

\* A desktop pushes a new row, or other columns of a row of the same user
\* (sync_admin/push.py; which of two pushes wins is a matter of module AdminSync).
PushRole(i, new) ==
  /\ row[i] # new /\ (row[i].exists => row[i].user = new.user)
  /\ user[new.user].exists
  /\ row' = [row EXCEPT ![i] = new]
  /\ contested' = IF row[i].exists /\ row[i].role = new.role /\ row[i].site = new.site
                  THEN contested ELSE contested \cup {new.user}
  /\ UNCHANGED <<day, licence, user, change, grant, task, last, granted, overrun>>

\* Another plan, another limit, another status (module Subscriptions).
ChangeLicence(l) ==
  /\ l # licence /\ licence' = l
  /\ UNCHANGED people
  /\ Explain(TRUE)
  /\ UNCHANGED <<day, task, last, granted, contested>>

NextDay == day < LastDay /\ day' = day + 1 /\ UNCHANGED <<licence, people, task, history>>

HandlerStep(h) ==
  \/ Authorise(h) \/ CountUsers(h) \/ CommitUser(h) \/ CountPushed(h) \/ CommitPushed(h)
  \/ SetUserActive(h)
  \/ AskForRole(h) \/ ReadChange(h) \/ CommitApproval(h) \/ CommitRejection(h)
  \/ GrantTemporary(h) \/ RevokeTemporary(h) \/ GiveUp(h)

RoleNext ==
  \/ \E h \in Handlers : HandlerStep(h)
  \/ \E i \in Rows, new \in RolePushes : PushRole(i, new)
  \/ \E l \in Licences : ChangeLicence(l)
  \/ NextDay

RoleSpec == RoleInit /\ [][RoleNext]_roleVars

----------------------------------------------------------------------------
(* Properties *)

\* Whatever roles are created, changed, pushed or taken away meanwhile, a permission that is
\* in force belongs to the plan and comes from an active row for that site or for the whole
\* company, from an unexpired temporary permission for it, or, for the company of a user
\* without any active row, from users.role: a role of one site opens no other site and is
\* not promoted to the company (permission_service.py:94-149, api/deps/permissions.py:50-85).
PermissionsBacked ==
  \A u \in Users, s \in Sites \cup {Anywhere}, p \in Asked :
    MayAct(u, s, p) =>
      LET mine == {i \in Rows : row[i].exists /\ row[i].active /\ row[i].user = u}
      IN /\ is_company_subscription_usable /\ InPlan(p) /\ user[u].active
         /\ \/ \E i \in mine : /\ row[i].site \in {s, Anywhere}
                              /\ p \in TENANT_ROLE_PERMISSIONS[row[i].role]
            \/ \E g \in Grants : /\ grant[g].exists /\ grant[g].user = u /\ grant[g].until > day
                                 /\ grant[g].site \in {s, Anywhere} /\ grant[g].perm = p
            \/ mine = {} /\ s = Anywhere /\ p \in TENANT_ROLE_PERMISSIONS[user[u].role]

\* A decision stands: an approved role is the one of the user at that site, for the whole
\* company in users.role as well, there is one row of it, and a request is approved exactly
\* when its approval was committed (admin_rbac.py:209-283).  Only decisions that overlap,
\* a row that a desktop pushed, or a user created with a site listed twice can make it
\* otherwise.
DecisionsStand ==
  \A u \in Users \ contested :
    /\ \A s \in Sites \cup {Anywhere} : last[u][s] # "none" =>
         /\ RolesOf(RowsAt(u, s)) = {last[u][s]} /\ Cardinality(RowsAt(u, s)) = 1
         /\ s = Anywhere => user[u].role = last[u][s]
    /\ \A k \in Changes : change[k].status # "none" /\ change[k].user = u =>
         (k \in granted <=> change[k].status = "approved")

\* More active users than the plan allows are there only if the licence changed, a user was
\* activated again, which has no limit, two creations overlapped, or one push created
\* several users, which are not counted with one another (admin.py:47-50, push.py:156-176).
LimitExplained ==
  licence.users # None /\ Cardinality(ActiveUsers) > licence.users => overrun
=============================================================================
