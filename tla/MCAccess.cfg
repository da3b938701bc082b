SPECIFICATION MCSpec
CONSTANTS
  t1 = t1  t2 = t2  c1 = c1  c2 = c2  c3 = c3  acme = acme  zeta = zeta  Zeta = Zeta
  akey = akey  zkey = zkey  u1 = u1  u2 = u2  NoUrl = NoUrl
  Companies = {c1, c2, c3}
  Slugs = {acme, zeta, Zeta}
  KeyOf <- MCKeyOf
  Urls = {u1, u2}
  EnvUrl <- MCEnvUrl
  Seeded <- MCSeeded
  RouteWork <- MCRouteWork
  Threads = {t1, t2}
  TTL = 2
  MaxEngines = 1
  MaxClock = 3
  h1 = h1  h2 = h2  h3 = h3  boss = boss  ann = ann  bob = bob  cat = cat
  main = main  shop = shop  i1 = i1  i2 = i2  i3 = i3  k1 = k1  k2 = k2  g1 = g1
  Plans = {}
  Modules = {"core", "customers", "equipment", "orders", "inventory", "admin_users"}
  Core = "core"
  NoSub = NoSub  NoEnt = NoEnt
  Users = {boss, ann, bob, cat}
  Sites = {main, shop}
  Anywhere = Anywhere
  Principal = main
  Rows = {i1, i2, i3}
  Changes = {k1, k2}
  Grants = {g1}
  Staff <- MCStaff
  Asked <- MCAsked
  Licences <- MCLicences
  RoleWork <- MCRoleWork
  RolePushes <- MCPushes
  Handlers = {h1, h2, h3}
  LastDay = 1
  pia = pia  pat = pat  v1 = v1  v2 = v2  b1 = b1  b2 = b2  w1 = w1  w2 = w2
  Accounts = {ann, pia, pat}
  RealmOf <- MCRealmOf
  HomeOf <- MCHomeOf
  Shops = {c1}
  Visits = {v1, v2}
  Lifetimes <- MCLifetimes
  MaxIssued = 4
  MaxMinute = 2
  Workers = {w1, w2}
  Redis = Redis
  Attempts = {b1, b2}
  MaxRequests = 2
  Window = 2
  MaxTick = 2
  MaxTried = 4
  p1 = p1  q1 = q1  q2 = q2  n1 = n1  n2 = n2  n3 = n3
  Tenants = {c1, c2}
  Pool = {p1}
  Clients = {q1, q2}
  Ids = {n1, n2, n3}
  NoTenant = NoTenant  NoConnection = NoConnection  NoHome = NoHome
  Parts = {"routing", "roles", "sessions", "limiter", "isolation"}
INVARIANTS LoginWasActive RoutesLeadHome OneRoutePerSlug PermissionsBacked DecisionsStand LimitExplained
  SessionsBacked  
PROPERTIES WritesStayHome
CONSTRAINT Followed
SYMMETRY RowSymmetry
CHECK_DEADLOCK FALSE
