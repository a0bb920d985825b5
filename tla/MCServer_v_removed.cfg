SPECIFICATION ServerSpec
CONSTANTS
  Components = {"domains"}
  Stores = {s1, s2}
  Hosts = {h1, h2, b1, b2, root}
  NoHost = NoHost
  BadHosts = {b1, b2, root}
  RootHosts = {root}
  SubdomainOf <- Subdomains
  RefusedHosts = {}
  SlowHosts = {}
  Registrations = {r1, r2}
  Tasks = {t1, t2}
  MaxTries = 1
  MostLosses = 1
  MostPointings = 1
  Mails = {m1}
  Owner = Owner
  Support = Support
  Customer = Customer
  NoAddress = NoAddress
  SupportIs = NoAddress
  LastTick = 1
  MaxSends = 2
  StatementsFail = TRUE
  SenderStalls = TRUE
  People = {q1, q2}
  Shops = {s1, s2}
  Nobody = Nobody
  Names = {"feira", "horta", "horta-2"}
  Slugs = {"feira", "horta"}
  WantedNames = {"horta"}
  ReservedNames = {}
  Candidates <- TriedFor
  GivenRoles = {"STORE_SUPPORT"}
  FixtureRoles = {"STORE_MANAGER"}
  MemberRows = {m1, m2, m3}
  Asks = {p1, p2}
  Orders = {x1}
  RemoteOrders = {q1, q2}
  NoOrder = NoOrder
  Runs = {p1, p2}
  ExportBatch = 1
  FirstReach = 0
  LastMoment = 1
  MostFailures = 1
  Goods = {q1, q2}
  Inventories = {i1}
  NoInventory = NoInventory
  SyncRuns = {p1, p2}
  GoodsBatch = 1
  LastMinute = 3
  LastVersion = 2
  Callers = {q1, q2}
  MaxRequests = 2
  Window = 2
  SweepEvery = 2
  ManyBuckets = 2
  LastTime = 4
  Events = {e1, e2}
  Deliveries = {d1, d2, d3}
  NoEvent = NoEvent
  QueueFails = TRUE
  ServerFails = TRUE
  p1 = p1
  p2 = p2
  q1 = q1
  q2 = q2
PROPERTIES
  RemovedStaysRemoved
CHECK_DEADLOCK FALSE
