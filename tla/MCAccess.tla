------------------------------ MODULE MCAccess ------------------------------
EXTENDS TenantRouting, Permissions, Sessions, LoginLimiter, TenantIsolation, TLC

CONSTANTS t1, t2, c1, c2, c3, acme, zeta, Zeta, akey, zkey, u1, u2,
          h1, h2, h3, boss, ann, bob, cat, main, shop, i1, i2, i3, k1, k2, g1,
          pia, pat, v1, v2, b1, b2, w1, w2,
          p1, q1, q2, n1, n2, n3

Nobody == [kind |-> "none"]

(* Routing *)

MCKeyOf == (acme :> akey) @@ (zeta :> zkey) @@ (Zeta :> zkey)
MCSeeded == c1 :> Route(acme, u1, TRUE)
MCEnvUrl == (c1 :> u1) @@ (c2 :> NoUrl) @@ (c3 :> NoUrl)

Login(s)  == [kind |-> "login", slug |-> s]
CallOf(c) == [kind |-> "call", company |-> c]
Act(c)    == [kind |-> "impersonate", company |-> c]
Create(s, n) == [kind |-> "create", slug |-> s, url |-> u2, nit |-> n]

Both(x, y) == (t1 :> x) @@ (t2 :> y)
MCRouteWork ==
  {Both(Login(acme), Login(acme)), Both(Login(acme), CallOf(c1)), Both(Act(c1), CallOf(c1)),
   Both(Create(zeta, 1), Create(Zeta, 2)), Both(Create(zeta, 1), Create(Zeta, 1)),
   Both(Create(acme, 1), Login(acme)), Both(Create(zeta, 1), Login(Zeta)),
   Both(Nobody, Nobody)}

(* Permissions *)

Ent(users, status, end) ==
  [modules |-> {"core", "customers", "equipment", "orders", "admin_users"}, users |-> users,
   orders |-> None, status |-> status, end |-> end]
MCLicences == {Ent(3, "active", 0), Ent(None, "active", None)}

Own(work) == [actor |-> boss, at |-> Anywhere] @@ work
NewUser(u, roles) == Own([kind |-> "create", user |-> u, role |-> "technician", roles |-> roles])
Switch(u, a) == Own([kind |-> "activity", user |-> u, active |-> a])
Ask(u, s, r) == [actor |-> ann, at |-> shop, kind |-> "ask", user |-> u, site |-> s, role |-> r]
AskAll == Own([kind |-> "ask", user |-> ann, site |-> Anywhere, role |-> "admin"])
Approve(k) == Own([kind |-> "approve", change |-> k])
Reject(k) == Own([kind |-> "reject", change |-> k])
Give(s) == Own([kind |-> "grant", user |-> ann, site |-> s, perm |-> <<"orders", "delete">>,
                days |-> 1])
TakeBack == Own([kind |-> "revoke"])
PushUsers == Own([kind |-> "push", users |-> {bob, cat}, role |-> "reception"])

MCStaff == (boss :> "admin") @@ (ann :> "technician")
MCAsked == {AdminUsers, <<"orders", "delete">>, <<"orders", "write">>}
MCPushes ==
  {[Assignment(ann, s, "technician") EXCEPT !.active = a] : s \in {shop}, a \in BOOLEAN}

\* A handler that is asked nothing: its user may not even start.
Spare == [actor |-> cat, at |-> Anywhere, kind |-> "none"]

Three(x, y, z) == (h1 :> x) @@ (h2 :> y) @@ (h3 :> z)
MCRoleWork ==
  {Three(NewUser(bob, <<>>), NewUser(cat, <<>>), Spare),
   Three(NewUser(bob, <<[site |-> main, role |-> "viewer"], [site |-> shop, role |-> "reception"]>>),
         PushUsers, Switch(ann, FALSE)),
   Three(NewUser(bob, <<>>), Switch(bob, FALSE), Switch(bob, TRUE)),
   Three(Ask(ann, shop, "reception"), Approve(k1), Reject(k1)),
   Three(Ask(ann, shop, "reception"), Approve(k1), Approve(k2)),
   Three(AskAll, Approve(k1), Approve(k2)),
   Three(Ask(ann, shop, "viewer"), Approve(k1), Give(shop)),
   Three(NewUser(bob, <<[site |-> shop, role |-> "viewer"], [site |-> shop, role |-> "reception"]>>),
         Ask(bob, shop, "technician"), Approve(k1)),
   Three(Give(shop), Give(Anywhere), TakeBack),
   Three(Spare, Spare, Spare)}

(* Sessions: a technician and a contact of company c1, and an operator *)

MCRealmOf == (ann :> "tenant") @@ (pia :> "portal") @@ (pat :> "platform")
MCHomeOf == (ann :> [company |-> c1, customer |-> None]) @@ (pat :> [company |-> c1, customer |-> None])
              @@ (pia :> [company |-> c1, customer |-> shop])
MCLifetimes == {[access |-> 0, refresh |-> 1], [access |-> 1, refresh |-> 2]}

(* A run looks at one of the five parts. *)

CONSTANT Parts
VARIABLE part

MCInit == part \in Parts /\ RoutingInit /\ RoleInit /\ SessionInit /\ LimiterInit
          /\ IsolationInit
          /\ (part # "routing" => call = [t \in Threads |-> Idle(Nobody)])
          /\ (part # "roles" => task = [h \in Handlers |-> Waiting(Spare)])
          /\ (part # "roles" => licence = CHOOSE l \in Licences : TRUE)
          /\ (part # "isolation" => bypass = FALSE)
          /\ (part # "limiter" => store = [w \in Workers |-> Redis])

MCNext ==
  \/ /\ part = "routing" /\ RoutingNext
     /\ UNCHANGED <<roleVars, sessionVars, limiterVars, isolationVars, part>>
  \/ /\ part = "roles" /\ RoleNext
     /\ UNCHANGED <<routingVars, sessionVars, limiterVars, isolationVars, part>>
  \/ /\ part = "sessions" /\ SessionNext
     /\ UNCHANGED <<routingVars, roleVars, limiterVars, isolationVars, part>>
  \/ /\ part = "limiter" /\ LimiterNext
     /\ UNCHANGED <<routingVars, roleVars, sessionVars, isolationVars, part>>
  \/ /\ part = "isolation" /\ IsolationNext
     /\ UNCHANGED <<routingVars, roleVars, sessionVars, limiterVars, part>>

MCVars == <<routingVars, roleVars, sessionVars, limiterVars, isolationVars, part>>
MCSpec == MCInit /\ [][MCNext]_MCVars

\* Accounts meet nowhere but in the number of requests, and stores nowhere at all: a run
\* follows one account, or one store, at a time.  One request of the shared database is
\* followed over two rows and two requests over one, and a row more is looked at.
Followed ==
  CASE part = "sessions" ->
         LET barred == Accounts \ active
             held   == {t.sub : t \in issued}
             read   == {visit[v].sub : v \in {w \in Visits : ~Free(w)}}
         IN Cardinality(barred \cup held \cup read) <= 1
    [] part = "limiter" ->
         Cardinality({s \in Stores : tried[s] # NoStamps}
                       \cup {try[a].in : a \in {b \in Attempts : try[b].step # "idle"}}) <= 1
    [] part = "isolation" ->
         Cardinality(Present) + Cardinality({q \in Clients : client[q].open}) <= 3
    [] OTHER -> TRUE

RowSymmetry == Permutations(Rows)
=============================================================================
