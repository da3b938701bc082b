-------------------------- MODULE SessionPolicies --------------------------
(***************************************************************************)
(* The session policies of a company: session_policy_service.py.  The two  *)
(* lifetimes of an entry (access minutes, refresh days) follow the same    *)
(* rules and are abstracted to one number.                                 *)
(***************************************************************************)
EXTENDS Integers, Sequences

CONSTANTS Sites, Users,
          GlobalTtl,       \* the platform's default
          TtlMin, TtlMax,  \* the bounds an explicit lifetime is clamped to
          NoSite           \* a session without an active site

Inherit == -1   \* mode "inherit", or no entry
Missing == 0    \* mode "explicit" without a number

ASSUME TtlAssumption ==
  /\ TtlMin \in Nat \ {0} /\ TtlMax \in Nat /\ TtlMin <= TtlMax
  /\ GlobalTtl \in TtlMin..TtlMax
ASSUME NoSiteAssumption == NoSite \notin Sites

RawEntries == {Inherit, Missing} \cup Nat

Entries == {Inherit} \cup TtlMin..TtlMax

Documents(entries) ==
  [company : entries, sites : [Sites -> entries], users : [Users -> entries]]

NoPolicies ==
  [company |-> Inherit, sites |-> [s \in Sites |-> Inherit], users |-> [u \in Users |-> Inherit]]

\* A plausible mistake: a lifetime is stored as it was sent.
Clamp_Faulty(ttl) == ttl

Clamp(ttl) == IF ttl < TtlMin THEN TtlMin ELSE IF ttl > TtlMax THEN TtlMax ELSE ttl

normalize_entry(e) ==
  CASE e = Inherit -> Inherit
    [] e = Missing -> GlobalTtl
    [] OTHER       -> Clamp(e)

\* Whatever is stored is normalised whenever it is read.
get_policies(doc) ==
  [company |-> normalize_entry(doc.company),
   sites   |-> [s \in Sites |-> normalize_entry(doc.sites[s])],
   users   |-> [u \in Users |-> normalize_entry(doc.users[u])]]

\* A plausible mistake: the company's policy also drops the users' own policies.
set_company_policy_Faulty(doc, e, applyToAllSites) ==
  [get_policies(doc) EXCEPT
     !.company = normalize_entry(e),
     !.sites   = IF applyToAllSites THEN NoPolicies.sites ELSE @,
     !.users   = IF applyToAllSites THEN NoPolicies.users ELSE @]

set_company_policy(doc, e, applyToAllSites) ==
  [get_policies(doc) EXCEPT
     !.company = normalize_entry(e),
     !.sites   = IF applyToAllSites THEN NoPolicies.sites ELSE @]

set_site_policy(doc, s, e) == [get_policies(doc) EXCEPT !.sites[s] = normalize_entry(e)]

set_user_policy(doc, u, e) == [get_policies(doc) EXCEPT !.users[u] = normalize_entry(e)]

\* From the most specific scope to the platform's default.
Cascade(doc, u, s) ==
  <<get_policies(doc).users[u],
    IF s = NoSite THEN Inherit ELSE get_policies(doc).sites[s],
    get_policies(doc).company,
    GlobalTtl>>

\* The scope that decides: 1 user, 2 site, 3 company, 4 global.
Source(doc, u, s) ==
  LET scopes == Cascade(doc, u, s)
  IN CHOOSE i \in 1..4 : scopes[i] # Inherit /\ \A j \in 1..(i - 1) : scopes[j] = Inherit

resolve_tenant_session(doc, u, s) == Cascade(doc, u, s)[Source(doc, u, s)]
=============================================================================
