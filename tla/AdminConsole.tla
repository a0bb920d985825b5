------------------------------ MODULE AdminConsole ------------------------------
(***************************************************************************)
(* A browser tab on the platform's admin area: the session it holds, the   *)
(* section open and what it lists.  The area is for PLATFORM_ADMIN, which  *)
(* the page asks of the user it shows and the API of the token it is sent. *)
(* Leaving the session waits for no request that is under way.             *)
(***************************************************************************)
EXTENDS Naturals, FiniteSets

CONSTANTS
  Staff,          \* who signs in
  Admins,         \* those whose platform role is PLATFORM_ADMIN
  Sections,       \* of the area
  Subjects,       \* stores, users, orders or payments that have a detail
  Queries,        \* requests of the tab under way at the same time
  MostOutages,    \* bound of the requests that fail for no fault of their own
  NoStaff, NoSubject

ASSUME AdminAssumption ==
  /\ Admins \subseteq Staff /\ NoStaff \notin Staff /\ NoSubject \notin Subjects
  /\ "overview" \in Sections
  /\ Sections \subseteq {"overview", "stores", "users", "orders", "payments", "domains"}
  /\ MostOutages \in Nat

VARIABLES
  keptPass,  \* localStorage: whose access token it holds
  admin,     \* the page's session
  section,   \* the section chosen
  panel,     \* what it shows: whose token its list was read with, and a detail
  query,     \* requests under way
  outages    \* history: the requests that failed

adminVars == <<keptPass, admin, section, panel, query, outages>>

PanelQueries == {"list", "detail"}
Left == [token |-> NoStaff, user |-> NoStaff, loading |-> FALSE, overtaken |-> FALSE]
NoQuery == [pc |-> "idle", kind |-> "none", who |-> NoStaff, of |-> NoSubject, old |-> FALSE]
EmptyPanel == [list |-> NoStaff, detail |-> NoSubject]

AdminTypeOK ==
  /\ keptPass \in Staff \cup {NoStaff}
  /\ admin \in [token : Staff \cup {NoStaff}, user : Staff \cup {NoStaff},
                loading : BOOLEAN, overtaken : BOOLEAN]
  /\ section \in Sections
  /\ panel \in [list : Staff \cup {NoStaff}, detail : Subjects \cup {NoSubject}]
  /\ query \in [Queries -> [pc : {"idle", "sent", "done", "refused"},
                            kind : {"none", "restore", "login", "enter", "refresh", "logout"}
                                   \cup PanelQueries,
                            who : Staff \cup {NoStaff}, of : Subjects \cup {NoSubject},
                            old : BOOLEAN]]
  /\ outages \in 0..MostOutages

AdminInit ==
  /\ keptPass = NoStaff
  /\ admin = Left
  /\ section = "overview"
  /\ panel = EmptyPanel
  /\ query = [q \in Queries |-> NoQuery]
  /\ outages = 0

QueryAt(q, pc) == query[q].pc = pc
HasAnswer(q) == query[q].pc \in {"done", "refused"}
Closed(q) == [query EXCEPT ![q] = NoQuery]

Asking(kind, u, x) == [NoQuery EXCEPT !.pc = "sent", !.kind = kind, !.who = u, !.of = x]
With(queries, asked) ==
  {[queries EXCEPT ![q] = asked] : q \in {r \in Queries : queries[r].pc = "idle"}}

\* Nothing looks at the answers a section waited for that has gone.
Unmounted(queries) ==
  [q \in Queries |-> IF queries[q].kind \in PanelQueries THEN NoQuery ELSE queries[q]]

\* The login form, the sections, or a page that says they are for others.
PageOfSession(a) ==
  CASE NoStaff \in {a.user, a.token} -> "form"
    [] NoStaff \notin {a.user, a.token} /\ a.user \in Admins -> "sections"
    [] OTHER -> "restricted"

AdminPage == PageOfSession(admin)

\* The page after its session has changed: a section lists when it appears, and
\* again when the token is another.
SessionIs(next, queries) ==
  LET stays == AdminPage = "sections" /\ PageOfSession(next) = "sections"
      rest == IF stays THEN queries ELSE Unmounted(queries)
      lists == /\ PageOfSession(next) = "sections"
               /\ stays => next.token # admin.token
  IN /\ admin' = next
     /\ panel' = IF stays THEN panel ELSE EmptyPanel
     /\ IF lists THEN query' \in With(rest, Asking("list", next.token, NoSubject))
        ELSE query' = rest

-------------------------------------------------------------------------------
(* The session *)

\* The page is loaded: a stored token restores the session.
OpenAdmin ==
  LET none == [q \in Queries |-> NoQuery] IN
  /\ admin' = [Left EXCEPT !.token = keptPass, !.loading = keptPass # NoStaff]
  /\ section' = "overview"
  /\ panel' = EmptyPanel
  /\ <<admin, section, panel>>' # <<admin, section, panel>>
  /\ IF keptPass = NoStaff THEN query' = none
     ELSE query' \in With(none, Asking("restore", keptPass, NoSubject))
  /\ UNCHANGED <<keptPass, outages>>

\* The button of the form is disabled while something loads.
LoginToAdmin(u) ==
  /\ AdminPage = "form" /\ ~admin.loading
  /\ query' \in With(query, Asking("login", u, NoSubject))
  /\ admin' = [admin EXCEPT !.loading = TRUE]
  /\ UNCHANGED <<keptPass, section, panel, outages>>

RefreshAdmin ==
  /\ AdminPage = "sections"
  /\ query' \in With(query, Asking("refresh", admin.token, NoSubject))
  /\ admin' = [admin EXCEPT !.loading = TRUE]
  /\ UNCHANGED <<keptPass, section, panel, outages>>

\* Its button is never disabled, and nothing shows that it was pressed.
LogoutOfAdmin ==
  /\ AdminPage # "form"
  /\ query' \in With(query, Asking("logout", admin.token, NoSubject))
  /\ UNCHANGED <<keptPass, admin, section, panel, outages>>

Fails(q) ==
  /\ outages < MostOutages /\ outages' = outages + 1
  /\ query' = [query EXCEPT ![q].pc = "refused"]

ServeAdminSession(q) ==
  /\ QueryAt(q, "sent") /\ query[q].kind \notin PanelQueries
  /\ \/ query' = [query EXCEPT ![q].pc = "done"] /\ UNCHANGED outages
     \/ Fails(q)
  /\ UNCHANGED <<keptPass, admin, section, panel>>

\* An answer ends the loading, also one of an earlier session's request.
Settled(q) == [admin EXCEPT !.loading = FALSE, !.overtaken = @ \/ query[q].old]

\* The token is stored before its user is known.
ReceiveAdminLogin(q) ==
  /\ query[q].kind = "login" /\ HasAnswer(q)
  /\ IF QueryAt(q, "done")
     THEN /\ keptPass' = query[q].who
          /\ SessionIs([admin EXCEPT !.token = query[q].who],
               [query EXCEPT ![q] = Asking("enter", query[q].who, NoSubject)])
     ELSE SessionIs(Settled(q), Closed(q)) /\ UNCHANGED keptPass
  /\ UNCHANGED <<section, outages>>

\* bootstrap: the user of the answer, whatever the page holds by now.  Only a
\* restoring that fails signs out.
ReceiveContext(q) ==
  LET restoring == query[q].kind = "restore" IN
  /\ query[q].kind \in {"restore", "enter", "refresh"} /\ HasAnswer(q)
  /\ CASE QueryAt(q, "done") ->
            SessionIs([Settled(q) EXCEPT !.user = query[q].who], Closed(q)) /\ UNCHANGED keptPass
       [] QueryAt(q, "refused") /\ restoring -> SessionIs(Left, Closed(q)) /\ keptPass' = NoStaff
       [] OTHER -> SessionIs(Settled(q), Closed(q)) /\ UNCHANGED keptPass
  /\ UNCHANGED <<section, outages>>

\* The session is left whatever the API said; the loading flag is not touched
\* and the requests still under way are from now on an earlier session's.
ReceiveAdminLogout(q) ==
  /\ query[q].kind = "logout" /\ HasAnswer(q)
  /\ keptPass' = NoStaff
  /\ SessionIs([admin EXCEPT !.token = NoStaff, !.user = NoStaff,
                             !.overtaken = @ \/ query[q].old],
       [r \in Queries |-> [Closed(q)[r] EXCEPT !.old = Closed(q)[r].pc # "idle"]])
  /\ UNCHANGED <<section, outages>>

-------------------------------------------------------------------------------
(* The sections *)

OpenSection(s) ==
  /\ AdminPage = "sections" /\ s # section
  /\ section' = s
  /\ panel' = EmptyPanel
  /\ query' \in With(Unmounted(query), Asking("list", admin.token, NoSubject))
  /\ UNCHANGED <<keptPass, admin, outages>>

\* The button of a section, and the form of its filters.
Lists(s) ==
  /\ AdminPage = "sections" /\ section = s
  /\ query' \in With(query, Asking("list", admin.token, NoSubject))
  /\ UNCHANGED <<keptPass, admin, section, panel, outages>>

LoadOverview == Lists("overview")
LoadStores   == Lists("stores")
LoadUsers    == Lists("users")
LoadOrders   == Lists("orders")
LoadPayments == Lists("payments")
LoadDomains  == Lists("domains")

\* A row of the list is pressed.
Details(s, x) ==
  /\ AdminPage = "sections" /\ section = s /\ panel.list # NoStaff
  /\ query' \in With(query, Asking("detail", admin.token, x))
  /\ UNCHANGED <<keptPass, admin, section, panel, outages>>

LoadStoreDetail(x)   == Details("stores", x)
LoadUserDetail(x)    == Details("users", x)
LoadOrderDetail(x)   == Details("orders", x)
LoadPaymentDetail(x) == Details("payments", x)

\* AuthorizationGuard: the platform role in the token is the one the route asks.
ServePanel(q) ==
  /\ QueryAt(q, "sent") /\ query[q].kind \in PanelQueries
  /\ \/ /\ query' = [query EXCEPT ![q].pc =
              IF query[q].who \in Admins THEN "done" ELSE "refused"]
        /\ UNCHANGED outages
     \/ Fails(q)
  /\ UNCHANGED <<keptPass, admin, section, panel>>

\* A list that could not be read is shown empty, and the detail stays.
ReceiveList(q) ==
  /\ query[q].kind = "list" /\ HasAnswer(q)
  /\ panel' = [panel EXCEPT !.list = IF QueryAt(q, "done") THEN query[q].who ELSE NoStaff]
  /\ query' = Closed(q)
  /\ UNCHANGED <<keptPass, admin, section, outages>>

ReceiveDetail(q) ==
  /\ query[q].kind = "detail" /\ HasAnswer(q)
  /\ panel' = [panel EXCEPT !.detail = IF QueryAt(q, "done") THEN query[q].of ELSE NoSubject]
  /\ query' = Closed(q)
  /\ UNCHANGED <<keptPass, admin, section, outages>>

AdminNext ==
  \/ OpenAdmin \/ RefreshAdmin \/ LogoutOfAdmin
  \/ LoadOverview \/ LoadStores \/ LoadUsers \/ LoadOrders \/ LoadPayments \/ LoadDomains
  \/ \E u \in Staff : LoginToAdmin(u)
  \/ \E s \in Sections : OpenSection(s)
  \/ \E x \in Subjects :
       \/ LoadStoreDetail(x) \/ LoadUserDetail(x) \/ LoadOrderDetail(x) \/ LoadPaymentDetail(x)
  \/ \E q \in Queries :
       \/ ServeAdminSession(q) \/ ReceiveAdminLogin(q) \/ ReceiveContext(q)
       \/ ReceiveAdminLogout(q)
       \/ ServePanel(q) \/ ReceiveList(q) \/ ReceiveDetail(q)

AdminSpec == AdminInit /\ [][AdminNext]_adminVars

-------------------------------------------------------------------------------
\* Rows and details were read with an admin's token, also when an answer that
\* came late has opened the sections to who signed in after the admin left.
\* Unless an answer to a request of an earlier session came after the next had
\* begun, the page shows the user whose token it holds, and rows read with it.
AdminRowsAreAdmins ==
  /\ panel.detail # NoSubject => admin.user \in Admins
  /\ panel.list \in Admins \cup {NoStaff}
  /\ ~admin.overtaken =>
       /\ NoStaff \notin {admin.user, admin.token} => admin.user = admin.token
       /\ panel.list \in {admin.token, NoStaff}
===============================================================================
