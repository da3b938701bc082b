---------------------------- MODULE TenantRouting ----------------------------
(***************************************************************************)
(* Database per tenant: the catalogue's routing rows, the resolver that    *)
(* caches them in one backend process (app/tenancy), the engines it opens, *)
(* and the creation of a company, which writes the tenant's database first *)
(* and its route in the catalogue after it (endpoints/companies.py).       *)
(*                                                                         *)
(* A request is a thread: it runs between two of its steps whatever the    *)
(* others do.  The clock is that of the process; a time to live is counted *)
(* in its ticks.  The suspension of a company is one step here: both its   *)
(* commits and the request around them are those of module Subscriptions.  *)
(***************************************************************************)
EXTENDS Integers, Sequences, SequencesExt

CONSTANTS Companies,    \* identifiers of companies; a new company takes an unused one
          Slugs,        \* slugs as they were typed
          KeyOf,        \* the lower-case form of each slug
          Urls,         \* tenant databases
          EnvUrl,       \* TENANT_DATABASE_URL_MAP_JSON: company to database, or NoUrl
          NoUrl,
          Seeded,       \* routing rows the catalogue starts with, by company
          RouteWork,    \* requests a run may start: what each thread is asked to do
          Threads,
          TTL,          \* time to live of a cached route
          MaxEngines,   \* engines kept open
          MaxClock      \* bound: the clock stops there

ASSUME TTLAssumption     == TTL \in Nat \ {0} /\ MaxEngines \in Nat \ {0} /\ MaxClock \in Nat
ASSUME NoUrlAssumption   == NoUrl \notin Urls
\* The rows the catalogue starts with differ in their slugs, however they are spelt.
ASSUME SeededAssumption  ==
  /\ DOMAIN Seeded \subseteq Companies
  /\ \A c \in DOMAIN Seeded :
       /\ Seeded[c] \in [exists : {TRUE}, slug : Slugs, url : Urls, active : BOOLEAN]
       /\ \A d \in DOMAIN Seeded : KeyOf[Seeded[c].slug] = KeyOf[Seeded[d].slug] => c = d
ASSUME WorkAssumption    ==
  \A work \in RouteWork, t \in Threads :
    /\ work[t].kind \in {"login", "create"} => work[t].slug \in Slugs
    /\ work[t].kind = "create" => work[t].url \in Urls
    /\ work[t].kind \in {"call", "impersonate"} => work[t].company \in Companies
\* The map only names databases of companies that are already there.
ASSUME EnvAssumption     ==
  \A c \in Companies : EnvUrl[c] # NoUrl => c \in DOMAIN Seeded /\ Seeded[c].url = EnvUrl[c]

VARIABLES
  clock,      \* time.monotonic() of the process
  route,      \* route[c]: its row in tenant_routing, or NoRow
  home,       \* home[c]: [url, nit] of its row in a tenant's database, or NoRow
  bySlug,     \* _cache_slug
  byCompany,  \* _cache_company
  engines,    \* URLs of the open engines, the least recently used first
  tokens,     \* companies in whose name a token has been issued
  call,       \* call[t]: progress of thread t
  stopped,    \* stopped[c]: when the company was last suspended (history)
  overlapped  \* some company was created while another was being created (history)

routingVars == <<clock, route, home, bySlug, byCompany, engines, tokens, call, stopped, overlapped>>
data == <<route, home, tokens, stopped, overlapped>>
caches == <<bySlug, byCompany, engines>>

NoRow   == [exists |-> FALSE]
NoEntry == [at |-> 0, url |-> NoUrl]
Keys    == {KeyOf[s] : s \in Slugs}

Route(s, u, a) == [exists |-> TRUE, slug |-> s, url |-> u, active |-> a]
Routed(c)      == route[c].exists
Active(c)      == Routed(c) /\ route[c].active

Idle(work) == [step |-> "start", work |-> work, at |-> 0, resolved |-> 0,
               company |-> "none", url |-> NoUrl]

RoutingInit ==
  /\ clock = 0
  /\ route = [c \in Companies |-> IF c \in DOMAIN Seeded THEN Seeded[c] ELSE NoRow]
  /\ home = [c \in Companies |-> IF c \in DOMAIN Seeded
                                 THEN [exists |-> TRUE, url |-> Seeded[c].url, nit |-> c]
                                 ELSE NoRow]
  /\ bySlug = [k \in Keys |-> NoEntry]
  /\ byCompany = [c \in Companies |-> NoEntry]
  /\ engines = <<>>
  /\ tokens = {}
  /\ \E work \in RouteWork : call = [t \in Threads |-> Idle(work[t])]
  /\ stopped = [c \in Companies |-> 0]
  /\ overlapped = FALSE

Work(t)       == call[t].work
At(t, step)   == call[t].step = step
GoTo(t, step) == call' = [call EXCEPT ![t].step = step]
Refuse(t)     == GoTo(t, "refused")

----------------------------------------------------------------------------
(* tenancy/engine_manager.py *)

\* The engine of a URL becomes the most recent; a new one closes the oldest while the
\* pool is full, whatever sessions still use it.
get_engine(pool, url) ==
  IF Contains(pool, url) THEN Append(Remove(pool, url), url)
  ELSE LET kept == IF Len(pool) < MaxEngines THEN pool
                   ELSE SubSeq(pool, Len(pool) - MaxEngines + 2, Len(pool))
       IN Append(kept, url)

----------------------------------------------------------------------------
(* tenancy/resolver.py.  A definition named ..._Faulty is the one after it  *)
(* with a plausible mistake; no formula uses it.                           *)

Fresh(entry) == entry.url # NoUrl /\ clock - entry.at < TTL

\* The session that a resolved request opens; a login by slug and an impersonation end
\* with a token of the company.
Serve(t, c, url, resolved) ==
  /\ call' = [call EXCEPT ![t].step = "served", ![t].company = c, ![t].url = url,
                          ![t].resolved = resolved]
  /\ engines' = get_engine(engines, url)
  /\ tokens' = IF Work(t).kind = "login" THEN tokens \cup {c} ELSE tokens

\* Login: the company of the entry is the one it was filled for.
LookupSlug(t) ==
  /\ At(t, "start") /\ Work(t).kind = "login"
  /\ LET entry == bySlug[KeyOf[Work(t).slug]]
     IN IF Fresh(entry)
        THEN Serve(t, entry.company, entry.url, clock)
        ELSE /\ call' = [call EXCEPT ![t].step = "query", ![t].at = clock]
             /\ UNCHANGED <<engines, tokens>>
  /\ UNCHANGED <<clock, route, home, bySlug, byCompany, stopped, overlapped>>

\* The first row whose slug has the key, in no particular order.
QuerySlug(t) ==
  /\ At(t, "query") /\ Work(t).kind = "login"
  /\ LET rows == {c \in Companies : Routed(c) /\ KeyOf[route[c].slug] = KeyOf[Work(t).slug]}
     IN \/ rows = {} /\ Refuse(t)
        \/ \E c \in rows :
             IF route[c].active
             THEN call' = [call EXCEPT ![t].step = "fill", ![t].company = c,
                                       ![t].url = route[c].url, ![t].resolved = clock]
             ELSE Refuse(t)
  /\ UNCHANGED <<clock, data, caches>>

\* The entries are stamped when they are written.
FillBySlug_Faulty(t) ==
  /\ At(t, "fill") /\ Work(t).kind = "login"
  /\ LET c == call[t].company
         entry == [at |-> clock, url |-> call[t].url, company |-> c]
     IN /\ bySlug' = [bySlug EXCEPT ![KeyOf[Work(t).slug]] = entry]
        /\ byCompany' = [byCompany EXCEPT ![c] = entry]
        /\ Serve(t, c, call[t].url, call[t].resolved)
  /\ UNCHANGED <<clock, route, home, stopped, overlapped>>

\* The entries are stamped with the time of the lookup, before the query.
FillBySlug(t) ==
  /\ At(t, "fill") /\ Work(t).kind = "login"
  /\ LET c == call[t].company
         entry == [at |-> call[t].at, url |-> call[t].url, company |-> c]
     IN /\ bySlug' = [bySlug EXCEPT ![KeyOf[Work(t).slug]] = entry]
        /\ byCompany' = [byCompany EXCEPT ![c] = entry]
        /\ Serve(t, c, call[t].url, call[t].resolved)
  /\ UNCHANGED <<clock, route, home, stopped, overlapped>>

\* A call with a company's token, or a refresh.
LookupCompany(t) ==
  /\ At(t, "start") /\ Work(t).kind = "call" /\ Work(t).company \in tokens
  /\ LET entry == byCompany[Work(t).company]
     IN IF Fresh(entry)
        THEN Serve(t, Work(t).company, entry.url, clock)
        ELSE /\ call' = [call EXCEPT ![t].step = "query", ![t].at = clock]
             /\ UNCHANGED <<engines, tokens>>
  /\ UNCHANGED <<clock, route, home, bySlug, byCompany, stopped, overlapped>>

\* The environment's map comes first; is_active is not looked at.
QueryCompany(t) ==
  /\ At(t, "query") /\ Work(t).kind = "call"
  /\ LET c   == Work(t).company
         url == IF EnvUrl[c] # NoUrl THEN EnvUrl[c]
                ELSE IF Routed(c) THEN route[c].url ELSE NoUrl
     IN IF url = NoUrl THEN Refuse(t)
        ELSE call' = [call EXCEPT ![t].step = "fill", ![t].company = c, ![t].url = url,
                                  ![t].resolved = clock]
  /\ UNCHANGED <<clock, data, caches>>

FillByCompany(t) ==
  /\ At(t, "fill") /\ Work(t).kind = "call"
  /\ LET c == call[t].company
     IN /\ byCompany' = [byCompany EXCEPT ![c] = [at |-> call[t].at, url |-> call[t].url,
                                                  company |-> c]]
        /\ Serve(t, c, call[t].url, call[t].resolved)
  /\ UNCHANGED <<clock, route, home, bySlug, stopped, overlapped>>

----------------------------------------------------------------------------
(* endpoints/impersonate.py: no cache on the way. *)

Impersonate(t) ==
  /\ At(t, "start") /\ Work(t).kind = "impersonate"
  /\ LET c == Work(t).company
     IN IF Active(c)
        THEN tokens' = tokens \cup {c} /\ GoTo(t, "end")
        ELSE Refuse(t) /\ UNCHANGED tokens
  /\ UNCHANGED <<clock, route, home, caches, stopped, overlapped>>

----------------------------------------------------------------------------
(* endpoints/companies.py: create_company_with_admin. *)

Creating(t) == Work(t).kind = "create" /\ call[t].step \in {"checked", "admitted", "stored"}

\* The slug is compared as it is spelt.
CheckSlug_Faulty(t) ==
  /\ At(t, "start") /\ Work(t).kind = "create"
  /\ IF \E c \in Companies : Routed(c) /\ route[c].slug = Work(t).slug
     THEN Refuse(t) ELSE GoTo(t, "checked")
  /\ overlapped' = (overlapped \/ \E o \in Threads : Creating(o))
  /\ UNCHANGED <<clock, route, home, caches, tokens, stopped>>

\* exists_slug, in the catalogue.
CheckSlug(t) ==
  /\ At(t, "start") /\ Work(t).kind = "create"
  /\ IF \E c \in Companies : Routed(c) /\ KeyOf[route[c].slug] = KeyOf[Work(t).slug]
     THEN Refuse(t) ELSE GoTo(t, "checked")
  /\ overlapped' = (overlapped \/ \E o \in Threads : Creating(o))
  /\ UNCHANGED <<clock, route, home, caches, tokens, stopped>>

\* exists_nit, in the tenant's database; the e-mail address is looked for likewise.
CheckNit(t) ==
  /\ At(t, "checked")
  /\ IF \E c \in Companies : home[c].exists /\ home[c].url = Work(t).url /\ home[c].nit = Work(t).nit
     THEN Refuse(t) ELSE GoTo(t, "admitted")
  /\ engines' = get_engine(engines, Work(t).url)
  /\ UNCHANGED <<clock, data, bySlug, byCompany>>

\* The company and its administrator, in one transaction; the tax number is unique.
CommitCompany(t) ==
  /\ At(t, "admitted")
  /\ IF \E c \in Companies : home[c].exists /\ home[c].url = Work(t).url /\ home[c].nit = Work(t).nit
     THEN Refuse(t) /\ UNCHANGED home
     ELSE \E c \in Companies :
            /\ ~home[c].exists
            /\ \A o \in Threads : call[o].company # c
            /\ home' = [home EXCEPT ![c] = [exists |-> TRUE, url |-> Work(t).url,
                                            nit |-> Work(t).nit]]
            /\ call' = [call EXCEPT ![t].step = "stored", ![t].company = c]
  /\ UNCHANGED <<clock, route, caches, tokens, stopped, overlapped>>

\* The route is written first.
CommitRoute_Faulty(t) ==
  /\ At(t, "admitted")
  /\ \E c \in Companies :
       /\ ~home[c].exists
       /\ route' = [route EXCEPT ![c] = Route(Work(t).slug, Work(t).url, TRUE)]
       /\ GoTo(t, "end")
  /\ UNCHANGED <<clock, home, caches, tokens, stopped, overlapped>>

\* The route, in the catalogue.  The slug is unique as it is spelt: the insert fails and
\* the company stays without a route.
CommitRoute(t) ==
  /\ At(t, "stored")
  /\ IF \E c \in Companies : Routed(c) /\ route[c].slug = Work(t).slug
     THEN Refuse(t) /\ UNCHANGED route
     ELSE /\ route' = [route EXCEPT ![call[t].company] = Route(Work(t).slug, Work(t).url, TRUE)]
          /\ GoTo(t, "end")
  /\ UNCHANGED <<clock, home, caches, tokens, stopped, overlapped>>

\* The process or the connection goes away between the two databases.
Abandon(t) ==
  /\ call[t].step \in {"checked", "admitted", "stored", "query", "fill"}
  /\ Refuse(t)
  /\ UNCHANGED <<clock, data, caches>>

----------------------------------------------------------------------------
\* patch_company's last commit: the route takes the company's is_active.
SetActive(c, active) ==
  /\ Routed(c) /\ route[c].active # active
  /\ route' = [route EXCEPT ![c].active = active]
  /\ stopped' = IF active THEN stopped ELSE [stopped EXCEPT ![c] = clock]
  /\ UNCHANGED <<clock, home, caches, tokens, call, overlapped>>

Elapse == clock < MaxClock /\ clock' = clock + 1 /\ UNCHANGED <<data, caches, call>>

\* A served thread takes the next request of its kind.
NextRequest(t) ==
  /\ At(t, "served") /\ GoTo(t, "start")
  /\ UNCHANGED <<clock, data, caches>>

RouteStep(t) ==
  \/ LookupSlug(t) \/ QuerySlug(t) \/ FillBySlug(t)
  \/ LookupCompany(t) \/ QueryCompany(t) \/ FillByCompany(t)
  \/ Impersonate(t)
  \/ CheckSlug(t) \/ CheckNit(t) \/ CommitCompany(t) \/ CommitRoute(t)
  \/ Abandon(t) \/ NextRequest(t)

RoutingNext ==
  \/ Elapse
  \/ \E t \in Threads : RouteStep(t)
  \/ \E c \in Companies, active \in BOOLEAN : SetActive(c, active)

RoutingSpec == RoutingInit /\ [][RoutingNext]_routingVars

----------------------------------------------------------------------------
(* Properties *)

\* A login by slug is served only while the company is active, or less than a time to live
\* after its suspension: an entry of _cache_slug carries the time before its query
\* (resolver.py:96-127), so that no pause between the query and the entry prolongs it.
LoginWasActive ==
  \A t \in Threads : At(t, "served") /\ Work(t).kind = "login" =>
    LET c == call[t].company IN Active(c) \/ call[t].resolved < stopped[c] + TTL

Lives(c, url) == home[c].exists /\ home[c].url = url

\* Whatever is cached, suspended, created or abandoned half way, a routing row leads to a
\* database that holds its company, and so does every cached route and every session that
\* is opened (companies.py:190-278, resolver.py:46-147).
RoutesLeadHome ==
  /\ \A c \in Companies : Routed(c) => Lives(c, route[c].url)
  /\ \A k \in Keys : bySlug[k].url # NoUrl => Lives(bySlug[k].company, bySlug[k].url)
  /\ \A c \in Companies : byCompany[c].url # NoUrl => Lives(c, byCompany[c].url)
  /\ \A t \in Threads : call[t].step \in {"fill", "served"} => Lives(call[t].company, call[t].url)

\* Two companies answer to the same slug, which is compared in lower case and unique as it
\* is spelt (companies.py:200-205, catalog/models.py:27), only if the creation of one ran
\* into that of another.
OneRoutePerSlug ==
  \/ overlapped
  \/ \A c, d \in Companies :
       Routed(c) /\ Routed(d) /\ KeyOf[route[c].slug] = KeyOf[route[d].slug] => c = d
=============================================================================
