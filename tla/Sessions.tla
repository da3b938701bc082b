------------------------------ MODULE Sessions ------------------------------
(***************************************************************************)
(* Logins, renewals and requests of the three realms: the users of a       *)
(* company (endpoints/auth.py), the contacts of a customer (portal/auth.py) *)
(* and the operators of the platform (platform/v1/endpoints/auth.py).      *)
(*                                                                         *)
(* A token is signed and kept by nobody: nothing takes it back before it   *)
(* expires, and a renewal leaves the token it was made from as it was.     *)
(* What ends a session is the account's row, read again by every request.  *)
(* A request reads that row in one statement and goes on in others, with   *)
(* the row it has read.  Passwords are left out: a login is one whose      *)
(* password was right, and a new password changes no token.                *)
(***************************************************************************)
EXTENDS Integers, FiniteSets

CONSTANTS Accounts,     \* rows of users, customer_portal_users and platform_users
          RealmOf,      \* "tenant", "portal" or "platform"
          HomeOf,       \* company and customer of an account, which no operation changes
          Shops,        \* companies
          Visits,       \* requests in progress
          Lifetimes,    \* what settings and policies may say: [access, refresh]
          MaxIssued,    \* bound: tokens kept at a time
          MaxMinute     \* bound: time stops there

ASSUME RealmAssumption == RealmOf \in [Accounts -> {"tenant", "portal", "platform"}]
ASSUME HomeAssumption  == \A a \in Accounts : HomeOf[a].company \in Shops
ASSUME LifeAssumption  == \A l \in Lifetimes : l.access \in Nat /\ l.refresh \in Nat

VARIABLES
  minute,   \* utc_now()
  active,   \* accounts whose is_active is set
  portal,   \* companies with a usable subscription and the module customer_portal
  issued,   \* tokens that have not expired
  visit     \* visit[v]: progress of a request, with the account it has read

sessionVars == <<minute, active, portal, issued, visit>>

\* `old`: the token was issued, the visit's account was read, before the account was last
\* barred (history).
Token(use, a, exp, old) ==
  [use |-> use, typ |-> RealmOf[a], sub |-> a, home |-> HomeOf[a], exp |-> exp, old |-> old]

NoVisit == [step |-> "idle"]
Reading(step, a) == [step |-> step, sub |-> a, old |-> FALSE]

SessionInit ==
  /\ minute = 0 /\ active = Accounts /\ portal = Shops
  /\ issued = {}
  /\ visit = [v \in Visits |-> NoVisit]

Free(v)       == visit[v].step = "idle"
Become(v, x)  == visit' = [visit EXCEPT ![v] = x]

----------------------------------------------------------------------------
(* core/security.py and the services.  A definition named ..._Faulty is the *)
(* one after it with a plausible mistake; no formula uses it.               *)

decode_token(t) == t \in issued /\ minute <= t.exp

create_access_token(a, life, old)  == Token("access", a, minute + life.access, old)
create_refresh_token(a, life, old) == Token("refresh", a, minute + life.refresh, old)

\* tenant_access_token_minutes and tenant_refresh_token_days serve the portal as well.
TokenPair(a, life, old) == {create_access_token(a, life, old), create_refresh_token(a, life, old)}

\* The row is found by e-mail whatever its flag; the endpoint answers 403 for an inactive one.
authenticate_user(a)          == RealmOf[a] = "tenant" /\ a \in active
authenticate_portal_user(a)   == RealmOf[a] = "portal" /\ a \in active
authenticate_platform_user(a) == RealmOf[a] = "platform" /\ a \in active

assert_portal_module_enabled(a) == HomeOf[a].company \in portal

refresh_tenant_tokens_Faulty(t) ==
  /\ t.use = "refresh" /\ t.typ = "tenant"
  /\ HomeOf[t.sub].company = t.home.company
refresh_tenant_tokens(t) ==
  /\ t.use = "refresh" /\ t.typ = "tenant"
  /\ t.sub \in active /\ HomeOf[t.sub].company = t.home.company

refresh_portal_tokens(t) ==
  /\ t.use = "refresh" /\ t.typ = "portal"
  /\ t.sub \in active /\ HomeOf[t.sub] = t.home

refresh_platform_tokens(t) == t.use = "refresh" /\ t.typ = "platform" /\ t.sub \in active

get_current_user(t) ==
  /\ t.use = "access" /\ t.typ \notin {"platform", "portal"}
  /\ t.sub \in active /\ HomeOf[t.sub].company = t.home.company

get_current_portal_user(t) ==
  /\ t.use = "access" /\ t.typ = "portal"
  /\ t.sub \in active /\ HomeOf[t.sub] = t.home

get_current_platform_user(t) == t.use = "access" /\ t.typ = "platform" /\ t.sub \in active

----------------------------------------------------------------------------
(* Logins and renewals *)

Begin(v, a) == Free(v) /\ Become(v, Reading("pair", a)) /\ UNCHANGED <<minute, active, portal, issued>>

login_json(v, a)     == authenticate_user(a) /\ Begin(v, a)
portal_login(v, a)   == authenticate_portal_user(a) /\ Begin(v, a)
platform_login(v, a) == authenticate_platform_user(a) /\ Begin(v, a)

refresh_access_token(v, t) == decode_token(t) /\ refresh_tenant_tokens(t) /\ Begin(v, t.sub)
portal_refresh(v, t)       == decode_token(t) /\ refresh_portal_tokens(t) /\ Begin(v, t.sub)
platform_refresh(v, t)     == decode_token(t) /\ refresh_platform_tokens(t) /\ Begin(v, t.sub)

\* The account has been read; the policy, or the settings, are read now.
Issue(v, life) ==
  /\ visit[v].step = "pair" /\ Cardinality(issued) + 2 <= MaxIssued
  /\ issued' = issued \cup TokenPair(visit[v].sub, life, visit[v].old)
  /\ Become(v, NoVisit)
  /\ UNCHANGED <<minute, active, portal>>

\* A user of a company: _token_pair opens a session of its own.
create_tenant_token_pair(v, life) ==
  /\ visit[v].step = "pair" /\ RealmOf[visit[v].sub] = "tenant"
  /\ Issue(v, life)

\* A contact: the plan and the subscription are read after the contact.
create_portal_token_pair(v, life) ==
  /\ visit[v].step = "pair" /\ RealmOf[visit[v].sub] = "portal"
  /\ assert_portal_module_enabled(visit[v].sub)
  /\ Issue(v, life)

create_platform_token_pair(v, life) ==
  /\ visit[v].step = "pair" /\ RealmOf[visit[v].sub] = "platform"
  /\ Issue(v, life)

----------------------------------------------------------------------------
(* Requests with an access token *)

Call(v, t) ==
  /\ Free(v) /\ decode_token(t)
  /\ get_current_user(t) \/ get_current_platform_user(t)
  /\ Become(v, Reading("serving", t.sub))
  /\ UNCHANGED <<minute, active, portal, issued>>

PortalCall(v, t) ==
  /\ Free(v) /\ decode_token(t) /\ get_current_portal_user(t)
  /\ Become(v, Reading("known", t.sub))
  /\ UNCHANGED <<minute, active, portal, issued>>

get_portal_context(v) ==
  /\ visit[v].step = "known" /\ assert_portal_module_enabled(visit[v].sub)
  /\ Become(v, [visit[v] EXCEPT !.step = "serving"])
  /\ UNCHANGED <<minute, active, portal, issued>>

\* The answer, whichever it is: 200, 401, 403 or no answer at all.
Answer(v) == ~Free(v) /\ Become(v, NoVisit) /\ UNCHANGED <<minute, active, portal, issued>>

----------------------------------------------------------------------------
(* What ends a session *)

Barred(a) == a \notin active \/ (RealmOf[a] = "portal" /\ HomeOf[a].company \notin portal)

\* History: what was issued or read before this moment to the accounts in `who`.
Age(who) ==
  /\ issued' = {IF t.sub \in who THEN [t EXCEPT !.old = TRUE] ELSE t : t \in issued}
  /\ visit' = [v \in Visits |-> IF ~Free(v) /\ visit[v].sub \in who
                               THEN [visit[v] EXCEPT !.old = TRUE] ELSE visit[v]]

\* patch_portal_user, deactivate_company_user, update_company_user, a pushed user, and
\* whoever keeps the operators: is_active is set or cleared.
patch_portal_user(a) ==
  /\ IF a \in active THEN active' = active \ {a} /\ Age({a})
                     ELSE active' = active \cup {a} /\ UNCHANGED <<issued, visit>>
  /\ UNCHANGED <<minute, portal>>

\* The plan loses or regains the module, or the subscription ends or is renewed.
SwitchPortal(c) ==
  /\ IF c \in portal
     THEN portal' = portal \ {c} /\ Age({a \in Accounts : HomeOf[a].company = c})
     ELSE portal' = portal \cup {c} /\ UNCHANGED <<issued, visit>>
  /\ UNCHANGED <<minute, active>>

\* Tokens that have expired decode no more.
Expire ==
  /\ minute < MaxMinute /\ minute' = minute + 1
  /\ issued' = {t \in issued : minute' <= t.exp}
  /\ UNCHANGED <<active, portal, visit>>

VisitStep(v) ==
  \/ \E a \in Accounts : login_json(v, a) \/ portal_login(v, a) \/ platform_login(v, a)
  \/ \E t \in issued : refresh_access_token(v, t) \/ portal_refresh(v, t) \/ platform_refresh(v, t)
  \/ \E life \in Lifetimes :
       \/ create_tenant_token_pair(v, life) \/ create_portal_token_pair(v, life)
       \/ create_platform_token_pair(v, life)
  \/ \E t \in issued : Call(v, t) \/ PortalCall(v, t)
  \/ get_portal_context(v) \/ Answer(v)

SessionNext ==
  \/ \E v \in Visits : VisitStep(v)
  \/ \E a \in Accounts : patch_portal_user(a)
  \/ \E c \in Shops : SwitchPortal(c)
  \/ Expire

SessionSpec == SessionInit /\ [][SessionNext]_sessionVars

----------------------------------------------------------------------------
(* Properties *)

\* An account that is barred, switched off or a contact whose portal is closed, holds only
\* tokens that were issued, or were on their way, before it was barred, and no request of
\* its is served unless its account was read before: tokens stay good until they expire and
\* renew themselves without end, but neither a token nor a chain of renewals outlasts the
\* row (auth_service.py:56-79, portal_auth_service.py:44-69, api/deps/tenant_auth.py:19-50,
\* api/deps/portal_auth.py:27-75).
SessionsBacked ==
  /\ \A t \in issued : Barred(t.sub) => t.old
  /\ \A v \in Visits : visit[v].step = "serving" /\ Barred(visit[v].sub) => visit[v].old
=============================================================================
