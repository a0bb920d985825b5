SPECIFICATION ConsoleSpec
CONSTANTS
  Components = {"accounts", "dashboard", "admin", "onboarding"}
  Users = {u1}
  Calls = {p1, p2}
  FlowTokens = {q1, q2}
  LastSecond = 1
  LastPassword = 1
  MostBreaks = 1
  Folk = {u1, u2}
  Outlets = {oa, ob}
  OutletsOf <- StoresOfFolk
  Consoles = {"overview", "settings", "catalog", "theme", "orders", "domain", "members", "shipping"}
  Fetches = {p1, p2}
  MostRefusals = 1
  NoOne = NoOne
  NoOutlet = NoOutlet
  Staff = {u1, u2}
  Admins = {u1}
  Sections = {"overview", "stores", "users", "orders", "payments", "domains"}
  Subjects = {oa, ob}
  Queries = {q1, q2}
  MostOutages = 1
  NoStaff = NoStaff
  NoSubject = NoSubject
  Words = {q1, q2, "c"}
  KeptWords = {"c"}
  Checks = {p1, p2}
  ChecksFail = TRUE
  NoWord = NoWord
  p1 = p1
  p2 = p2
  q1 = q1
  q2 = q2
  u1 = u1
  u2 = u2
  oa = oa
  ob = ob
INVARIANTS
  ConsoleTypeOK
  FlowTokensHold
  ResetEndsSessions
  PagesShowTheirUser
  ConsoleShowsItsStore
  SentSlugWasFreeOnceChecked
SYMMETRY Interchangeable
VIEW StateOfRunning
CHECK_DEADLOCK FALSE
