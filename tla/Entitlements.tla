---------------------------- MODULE Entitlements ----------------------------
(***************************************************************************)
(* What a company may use: the definition of its plan in the catalogue,    *)
(* the override of its subscription and the copy that its own settings     *)
(* keep, and whether its subscription is usable at all.                    *)
(*                                                                         *)
(* The limits per month and of storage follow one rule and are abstracted  *)
(* to one, orders; a limit that is absent or null is None.                 *)
(***************************************************************************)
EXTENDS Integers

CONSTANTS Plans,     \* plan codes
          Modules,   \* ALL_MODULES
          Core,      \* the module every company has
          NoSub,     \* no subscription row in the catalogue
          NoEnt      \* settings_json without the key "entitlements"

ASSUME CoreAssumption == Core \in Modules

None == -1

\* A list of modules that is absent, null or empty counts as none given.
Overrides == [modules : SUBSET Modules, users : Nat \cup {None}, orders : Nat \cup {None}]

NoOverride == [modules |-> {}, users |-> None, orders |-> None]

Definitions ==
  [modules : SUBSET Modules, users : Nat \cup {None}, orders : Nat \cup {None},
   period : Nat, grace : Nat]

Statuses == {"trial", "active", "past_due", "suspended", "cancelled"}

----------------------------------------------------------------------------
(* plan_catalog_service.py *)

resolve_modules(given, override) ==
  IF override.modules # {} THEN override.modules \cap Modules ELSE given \cap Modules

Over(limit, override) == IF override # None THEN override ELSE limit

resolve_limits(defn, override) ==
  [users |-> Over(defn.users, override.users), orders |-> Over(defn.orders, override.orders)]

\* What apply_plan_to_company stores in the company's own settings: no number of users.
AppliedEnt(defn, override) ==
  [modules |-> resolve_modules(defn.modules, override), users |-> None,
   orders  |-> resolve_limits(defn, override).orders]

----------------------------------------------------------------------------
(* effective_entitlements_service.py *)

\* The later part wins, key by key; a null does not count.  An empty list of modules
\* does, and then counts as none given.
_merge_override_dict(override, companyEnt) ==
  IF companyEnt = NoEnt THEN override
  ELSE [modules |-> companyEnt.modules, users |-> Over(override.users, companyEnt.users),
        orders |-> Over(override.orders, companyEnt.orders)]

AtLeastCore(modules) == IF modules = {} THEN {Core} ELSE modules

\* With a subscription; without one the resolution fails on an unassigned variable.
\* The column active_users_limit counts when the plan has no limit of its own.
resolve_effective_entitlements(defn, sub, companyEnt, column) ==
  LET merged  == _merge_override_dict(sub.override, companyEnt)
      chosen  == IF merged.modules # {} THEN merged ELSE sub.override
      limits  == resolve_limits(resolve_limits(defn, sub.override), merged)
  IN [status  |-> sub.status,
      modules |-> AtLeastCore(resolve_modules(defn.modules, chosen)),
      users   |-> IF limits.users # None THEN limits.users ELSE column,
      orders  |-> limits.orders]

\* Without routing: the plan's defaults, the company's settings and its column.  A null
\* stored in the settings stays a null: no limit.
from_company_row(defaults, status, column, companyEnt) ==
  [status  |-> status,
   modules |-> IF companyEnt # NoEnt /\ companyEnt.modules # {} THEN companyEnt.modules
               ELSE defaults.modules,
   users   |-> IF column # None THEN column ELSE defaults.users,
   orders  |-> IF companyEnt # NoEnt THEN companyEnt.orders ELSE defaults.orders]

has_module(ent, module) == module \in ent.modules \/ module = Core

----------------------------------------------------------------------------
(* subscription_lifecycle.py, license_manifest_service.py.  An end of None never comes. *)

is_period_expired(end, now) == end # None /\ end < now

subscription_is_usable(status, end, now) ==
  status \in {"active", "trial"} /\ ~is_period_expired(end, now)

subscription_block_reason(status, end, now) ==
  CASE subscription_is_usable(status, end, now) -> "none"
    [] status \notin {"active", "trial"}        -> "status"
    [] OTHER                                    -> "period_expired"

\* The later of the grace from now and the grace after the end of the period.
_license_valid_until(status, end, grace, now) ==
  IF status \in {"suspended", "cancelled"} THEN now
  ELSE IF end # None /\ end > now THEN end + grace ELSE now + grace
=============================================================================
