SPECIFICATION MCSpec
CONSTANTS
  r1 = r1
  r2 = r2
  s1 = s1
  s2 = s2
  c1 = c1
  core = core
  stock = stock
  starter = starter
  pro = pro
  site = site
  user = user
  a = a
  b = b
  NoSub = NoSub
  NoEnt = NoEnt
  NoSite = NoSite
  Broken = Broken
  Core = core
  Modules <- MCModules
  Plans = {starter, pro}
  PlanRows = {starter, pro}
  Sites = {site}
  Users = {user}
  GlobalTtl = 3
  TtlMin = 1
  TtlMax = 4
  Requests = {r1, r2}
  Clients = {c1}
  Workloads <- MCWorkloads
  Profiles = {a, b}
  Savers = {s1, s2}
  FileWork <- MCFileWork
  Sections = {a, b}
  InitialPlans <- MCPlans
  InitialSub <- MCSub
  StartPlan = starter
  StartSections = a
  MaxTime = 1
INVARIANTS
  PlatformTypeOK
  RevisionTellsAll
  
  CatalogueAgrees
  SavesSurvive
PROPERTIES
  PolicyScope
  StreamsCatchUp
CONSTRAINT OneRole
CHECK_DEADLOCK FALSE
