SPECIFICATION FairJobsSpec
CONSTANTS
  Components = {"webhooks", "domains", "notifications"}
  Intents = {i1}
  Events = {e1}
  Requests = {}
  MaxAttempts = 2
  NoPayment = NoPayment
  FailingSteps <- WithinTry
  JobsTimeOut = TRUE
  Stores = {s1}
  Hosts = {h1, h2, b1}
  NoHost = NoHost
  BadHosts = {b1}
  RootHosts = {}
  SubdomainOf <- Subdomains
  RefusedHosts = {h2}
  SlowHosts = {}
  Registrations = {r1, r2}
  Tasks = {t1, t2}
  MaxTries = 2
  MostLosses = 1
  MostPointings = 1
  Mails = {m1, m2}
  Owner = Owner
  Support = Support
  Customer = Customer
  NoAddress = NoAddress
  SupportIs = Owner
  LastTick = 0
  MaxSends = 2
  StatementsFail = TRUE
  SenderStalls = TRUE
INVARIANTS
  EventsAreAppliedWhole
PROPERTIES
  JobsRunTheirCourse
  RowsLeaveProcessing
  DomainSettles
  MailsRunTheirCourse
CHECK_DEADLOCK FALSE
