----------------------------- MODULE MCPlatform -----------------------------
EXTENDS Subscriptions, TLC

CONSTANTS r1, r2, s1, s2, c1, core, stock, starter, pro, site, user, a, b

MCModules == {core, stock}

Plan(modules, users, period) ==
  [modules |-> modules, users |-> users, orders |-> 10, period |-> period, grace |-> 1]

MCPlans == (starter :> Plan({core}, 1, 1)) @@ (pro :> Plan({core, stock}, None, 2))

MCSub == [plan |-> starter, status |-> "active", end |-> None, override |-> NoOverride]

Nothing == [kind |-> "none"]

Company(entry, all) == [kind |-> "company_policy", entry |-> entry, all |-> all]
OfSite == [kind |-> "site_policy", site |-> site, entry |-> 1]
OfUser == [kind |-> "user_policy", user |-> user, entry |-> 0]
Pushed == [kind |-> "push_policies",
           doc |-> [company |-> 9, sites |-> [x \in {site} |-> 1], users |-> [x \in {user} |-> -1]]]
Profile(kind) == [kind |-> kind, profile |-> b]
Email == [kind |-> "email", password |-> TRUE]
Assign(plan, end) ==
  [kind |-> "assign", plan |-> plan, status |-> "active", end |-> end, override |-> NoOverride]
Renew == [kind |-> "renew", days |-> None]
Patch(active) == [kind |-> "patch", active |-> active]

Two(x, y) == (r1 :> x) @@ (r2 :> y)

MCWorkloads ==
  {Two(Company(2, TRUE), OfUser), Two(Company(9, FALSE), OfSite), Two(Pushed, Profile("profile")),
   Two(Email, OfSite), Two(Profile("push_profile"), OfUser), Two(Assign(pro, None), OfUser),
   Two(Assign(pro, 0), Renew),
   Two(Patch(FALSE), Assign(pro, None)), Two(Patch(FALSE), Patch(TRUE)), Two(Renew, Renew),
   Two(Assign(starter, None), Nothing), Two(Renew, Nothing), Two(OfSite, Nothing),
   Two(Nothing, Nothing)}

Edit(defn) == [kind |-> "edit", plan |-> starter, value |-> b, defn |-> defn]
Wider == Plan({core, stock}, 2, 1)
Longer == Plan({core}, 1, 2)
Section(kind) == [kind |-> kind, value |-> b]

TwoSaves(x, y) == (s1 :> x) @@ (s2 :> y)

MCFileWork ==
  {TwoSaves(Edit(Wider), Edit(Longer)), TwoSaves(Edit(Wider), Section("session")),
   TwoSaves(Section("plans"), Section("session")), TwoSaves(Edit(Wider), Nothing),
   TwoSaves(Section("session"), Nothing), TwoSaves(Nothing, Nothing)}

\* At most two requests at a time, of the company's console or of the platform's.
Running == Cardinality({r \in Requests : req[r].step # "end"})
             + Cardinality({s \in Savers : saver[s].step # "end"})

\* A client is looked at as a browser with a stream or as a desktop with a licence.
OneRole == \A c \in Clients : client[c].step = "out" \/ licence[c].step = "none"

MCInit == Init /\ Running <= 2

MCSpec == MCInit /\ [][Next]_vars /\ Fairness
=============================================================================
