-------------------------------- MODULE Dashboard --------------------------------
(***************************************************************************)
(* A merchant's browser tab on the dashboard: the session it holds, the    *)
(* store selected, and the console open on it with the rows it lists and   *)
(* the form it edits.  Requests overlap, the store may be switched and the *)
(* session left while they are under way, and their answers are applied to *)
(* whatever is on the page when they come.                                 *)
(***************************************************************************)
EXTENDS Naturals, Sequences, FiniteSets

CONSTANTS
  Folk,         \* who signs in
  Outlets,      \* stores
  OutletsOf,    \* the memberships /auth/me lists for each of Folk
  Consoles,     \* sections of the dashboard, and the shipping tab of its settings
  Fetches,      \* requests of the tab under way at the same time
  MostRefusals, \* bound of the requests that are refused or fail for no fault of their own
  NoOne, NoOutlet

ConsoleKinds ==
  {"overview", "settings", "catalog", "theme", "orders", "domain", "members", "shipping"}

ASSUME DashboardAssumption ==
  /\ NoOne \notin Folk /\ NoOutlet \notin Outlets
  /\ OutletsOf \in [Folk -> Seq(Outlets)] /\ \A u \in Folk : OutletsOf[u] # <<>>
  /\ Consoles \subseteq ConsoleKinds /\ "overview" \in Consoles
  /\ MostRefusals \in Nat

VARIABLES
  keptToken,  \* localStorage: whose access token it holds
  dash,    \* the session provider's state
  pane,    \* the section chosen
  board,   \* the state of its console; values are named by the store they are of
  fetch,   \* requests under way
  refusals \* history: the requests that were refused or failed

dashboardVars == <<keptToken, dash, pane, board, fetch, refusals>>

ProfileConsoles == {"settings", "theme"}
RowConsoles == {"catalog", "shipping"}
ConsoleRequests == {"load", "form", "row"}
SignedOut == [token |-> NoOne, user |-> NoOne, selected |-> NoOutlet, loading |-> FALSE,
              overtaken |-> FALSE]
NoFetch == [pc |-> "idle", kind |-> "none", who |-> NoOne, outlet |-> NoOutlet,
            of |-> NoOutlet, old |-> FALSE]

\* The default theme is nobody's, and an empty profile form too.
Blank == [rows |-> NoOutlet, form |-> NoOutlet, astray |-> FALSE]

FirstOf(u) == OutletsOf[u][1]
IsMember(u, o) == \E i \in 1..Len(OutletsOf[u]) : OutletsOf[u][i] = o

\* selectedMembership: the store of the page, when the dashboard is shown.
StoreShown(d) ==
  IF NoOne \in {d.user, d.token} THEN NoOutlet
  ELSE IF IsMember(d.user, d.selected) THEN d.selected ELSE FirstOf(d.user)

Shown == StoreShown(dash)

DashboardTypeOK ==
  /\ keptToken \in Folk \cup {NoOne}
  /\ dash.token \in Folk \cup {NoOne} /\ dash.user \in Folk \cup {NoOne}
  /\ dash.selected \in Outlets \cup {NoOutlet} /\ dash.loading \in BOOLEAN
  /\ pane \in Consoles
  /\ board.rows \in Outlets \cup {NoOutlet} /\ board.form \in Outlets \cup {NoOutlet}
  /\ \A f \in Fetches :
       /\ fetch[f].pc \in {"idle", "sent", "done", "refused", "broken"}
       /\ fetch[f].kind \in {"none", "login", "restore", "enter", "refresh", "logout"} \cup ConsoleRequests
       /\ fetch[f].who \in Folk \cup {NoOne}
  /\ refusals \in 0..MostRefusals

DashboardInit ==
  /\ keptToken = NoOne
  /\ dash = SignedOut
  /\ pane = "overview"
  /\ board = Blank
  /\ fetch = [f \in Fetches |-> NoFetch]
  /\ refusals = 0

FetchAt(f, pc) == fetch[f].pc = pc
Done(f) == [fetch EXCEPT ![f] = NoFetch]

\* How an answer that was to be one of these comes back.
Answered(f, good, bad) ==
  \/ \E how \in good : fetch' = [fetch EXCEPT ![f].pc = how] /\ UNCHANGED refusals
  \/ /\ refusals < MostRefusals /\ refusals' = refusals + 1
     /\ \E how \in bad : fetch' = [fetch EXCEPT ![f].pc = how]

\* Requests with one more; requests without a console's whose page has gone:
\* nothing looks at their answers.
Plus(requests, request) ==
  {[requests EXCEPT ![f] = request] : f \in {g \in Fetches : requests[g].pc = "idle"}}
Away(requests) ==
  [f \in Fetches |-> IF requests[f].kind \in ConsoleRequests THEN NoFetch ELSE requests[f]]

LoadOf(o) == [NoFetch EXCEPT !.pc = "sent", !.kind = "load", !.outlet = o]

-------------------------------------------------------------------------------
(* What a console does with its store: load on opening, or when it changes.   *)

\* The orders console waits for its button.
LoadsByItself(console) == console # "orders"

Starting(console, requests, o) ==
  IF LoadsByItself(console) THEN Plus(requests, LoadOf(o)) ELSE {requests}

\* Catalog and theme put their forms back to the empty and the default one; the
\* others keep what they show until the answer.
OfNewStore(b) == IF pane \in {"catalog", "theme"} THEN [b EXCEPT !.form = NoOutlet] ELSE b

\* Mutant: the console does not notice that its store has changed.
RenderOnce(next, requests) ==
  LET was == StoreShown(dash)
      is  == StoreShown(next) IN
  /\ dash' = next
  /\ IF is = NoOutlet THEN board' = Blank /\ fetch' = Away(requests)
     ELSE IF was = NoOutlet THEN board' = Blank /\ fetch' \in Starting(pane, Away(requests), is)
     ELSE UNCHANGED board /\ fetch' = requests

\* The page after the session's state has changed.
Render(next, requests) ==
  LET was == StoreShown(dash)
      is  == StoreShown(next) IN
  /\ dash' = next
  /\ IF is = NoOutlet THEN board' = Blank /\ fetch' = Away(requests)
     ELSE IF was = NoOutlet THEN board' = Blank /\ fetch' \in Starting(pane, Away(requests), is)
     ELSE IF is # was THEN board' = OfNewStore(board) /\ fetch' \in Starting(pane, requests, is)
     ELSE UNCHANGED board /\ fetch' = requests

-------------------------------------------------------------------------------
(* The session *)

SignInRequest(kind, u) == [NoFetch EXCEPT !.pc = "sent", !.kind = kind, !.who = u]

\* The page is opened, or loaded again: a stored token restores the session.
OpenDashboard ==
  /\ dash' = [SignedOut EXCEPT !.token = keptToken, !.loading = keptToken # NoOne]
  /\ pane' = "overview"
  /\ dash' # dash \/ board # Blank \/ pane # pane'
  /\ board' = Blank
  /\ LET none == [f \in Fetches |-> NoFetch] IN
     IF keptToken = NoOne THEN fetch' = none ELSE fetch' \in Plus(none, SignInRequest("restore", keptToken))
  /\ UNCHANGED <<keptToken, refusals>>

\* The login form, whose button is disabled while something loads.
HandleLogin(u) ==
  /\ Shown = NoOutlet /\ ~dash.loading
  /\ fetch' \in Plus(fetch, SignInRequest("login", u))
  /\ dash' = [dash EXCEPT !.loading = TRUE]
  /\ UNCHANGED <<keptToken, pane, board, refusals>>

RefreshContext ==
  /\ Shown # NoOutlet
  /\ fetch' \in Plus(fetch, SignInRequest("refresh", dash.token))
  /\ dash' = [dash EXCEPT !.loading = TRUE]
  /\ UNCHANGED <<keptToken, pane, board, refusals>>

HandleLogout ==
  /\ Shown # NoOutlet
  /\ fetch' \in Plus(fetch, SignInRequest("logout", dash.token))
  /\ dash' = [dash EXCEPT !.loading = TRUE]
  /\ UNCHANGED <<keptToken, pane, board, refusals>>

ServeSession(f) ==
  /\ FetchAt(f, "sent") /\ fetch[f].kind \notin ConsoleRequests
  /\ Answered(f, {"done"}, {"refused"})
  /\ UNCHANGED <<keptToken, dash, pane, board>>

\* A token is stored, and the user it is of is asked for.
ReceiveLogin(f) ==
  /\ fetch[f].kind = "login" /\ fetch[f].pc \in {"done", "refused"}
  /\ IF FetchAt(f, "done")
     THEN /\ keptToken' = fetch[f].who
          /\ Render([dash EXCEPT !.token = fetch[f].who],
                    [fetch EXCEPT ![f] = SignInRequest("enter", fetch[f].who)])
     ELSE Render([dash EXCEPT !.loading = FALSE], Done(f)) /\ UNCHANGED keptToken
  /\ UNCHANGED <<pane, refusals>>

\* An answer ends the loading, also one of an earlier session's request.
SessionEnded(f) == [dash EXCEPT !.loading = FALSE, !.overtaken = @ \/ fetch[f].old]

\* bootstrapDashboard: the user of the answer is shown, on the first store.
Bootstrapped(f) ==
  [SessionEnded(f) EXCEPT !.user = fetch[f].who, !.selected = FirstOf(fetch[f].who)]

\* A restoring that fails signs out; a login or a refresh that fails does not.
ReceiveMe(f) ==
  LET kind == fetch[f].kind IN
  /\ kind \in {"restore", "enter", "refresh"} /\ fetch[f].pc \in {"done", "refused"}
  /\ CASE FetchAt(f, "done") -> Render(Bootstrapped(f), Done(f)) /\ UNCHANGED keptToken
       [] FetchAt(f, "refused") /\ kind = "restore" -> Render(SignedOut, Done(f)) /\ keptToken' = NoOne
       [] OTHER -> Render(SessionEnded(f), Done(f)) /\ UNCHANGED keptToken
  /\ UNCHANGED <<pane, refusals>>

\* The requests still under way are from now on an earlier session's.
Superseded(f) == [g \in Fetches |-> [Done(f)[g] EXCEPT !.old = Done(f)[g].pc # "idle"]]

\* Mutant: the user stays.
ReceiveLogoutTokenOnly(f) ==
  /\ fetch[f].kind = "logout" /\ fetch[f].pc \in {"done", "refused"}
  /\ Render([SignedOut EXCEPT !.user = dash.user], Superseded(f))
  /\ keptToken' = NoOne
  /\ UNCHANGED <<pane, refusals>>

\* Whatever the API said, the session is left.
ReceiveLogout(f) ==
  /\ fetch[f].kind = "logout" /\ fetch[f].pc \in {"done", "refused"}
  /\ Render([SignedOut EXCEPT !.overtaken = dash.overtaken \/ fetch[f].old], Superseded(f))
  /\ keptToken' = NoOne
  /\ UNCHANGED <<pane, refusals>>

SelectOutlet(o) ==
  /\ Shown # NoOutlet /\ IsMember(dash.user, o) /\ o # dash.selected
  /\ Render([dash EXCEPT !.selected = o], fetch)
  /\ UNCHANGED <<keptToken, pane, refusals>>

-------------------------------------------------------------------------------
(* The consoles *)

OpenConsole(c) ==
  /\ Shown # NoOutlet /\ c # pane
  /\ pane' = c
  /\ board' = Blank
  /\ fetch' \in Starting(c, Away(fetch), Shown)
  /\ UNCHANGED <<keptToken, dash, refusals>>

\* The button of every console.
Reload ==
  /\ Shown # NoOutlet
  /\ fetch' \in Plus(fetch, LoadOf(Shown))
  /\ UNCHANGED <<keptToken, dash, pane, board, refusals>>

ServeLoad(f) ==
  /\ FetchAt(f, "sent") /\ fetch[f].kind = "load"
  /\ Answered(f, {"done"}, {"refused", "broken"})
  /\ UNCHANGED <<keptToken, dash, pane, board>>

Emptied(b) == [b EXCEPT !.rows = NoOutlet]
Listing(b, o) == [b EXCEPT !.rows = o]

\* What each console makes of an answer: of a good one, of a refusal, of a failure.
OrdersLoaded(b, f) ==
  CASE f.pc = "done" -> Listing(b, f.outlet) [] f.pc = "refused" -> Emptied(b) [] OTHER -> b
MembersLoaded(b, f) == IF f.pc = "done" THEN Listing(b, f.outlet) ELSE b
SettingsLoaded(b, f) ==
  IF f.pc = "done" THEN [Listing(b, f.outlet) EXCEPT !.form = f.outlet] ELSE Emptied(b)
ThemeLoaded(b, f) ==
  IF f.pc = "done" THEN [Listing(b, f.outlet) EXCEPT !.form = f.outlet] ELSE b
DomainLoaded(b, f) ==
  CASE f.pc = "done" -> Listing(b, f.outlet) [] f.pc = "refused" -> Emptied(b) [] OTHER -> b
OverviewLoaded(b, f) == IF f.pc = "done" THEN Listing(b, f.outlet) ELSE Emptied(b)
CatalogLoaded(b, f) == IF f.pc = "done" THEN Listing(b, f.outlet) ELSE Emptied(b)
MethodsLoaded(b, f) == IF f.pc = "done" THEN Listing(b, f.outlet) ELSE Emptied(b)

Loaded(b, f) ==
  CASE pane = "orders"   -> OrdersLoaded(b, f)
    [] pane = "members"  -> MembersLoaded(b, f)
    [] pane = "settings" -> SettingsLoaded(b, f)
    [] pane = "theme"    -> ThemeLoaded(b, f)
    [] pane = "domain"   -> DomainLoaded(b, f)
    [] pane = "overview" -> OverviewLoaded(b, f)
    [] pane = "catalog"  -> CatalogLoaded(b, f)
    [] pane = "shipping" -> MethodsLoaded(b, f)

ReceiveLoad(f) ==
  /\ fetch[f].kind = "load" /\ fetch[f].pc \in {"done", "refused", "broken"}
  /\ board' = [Loaded(board, fetch[f]) EXCEPT
       !.astray = ~FetchAt(f, "done") \/ fetch[f].outlet # Shown]
  /\ fetch' = Done(f)
  /\ UNCHANGED <<keptToken, dash, pane, refusals>>

\* editProduct, editCategory, startEditing: a row of the list goes into the form.
StartEditing ==
  /\ Shown # NoOutlet /\ pane \in RowConsoles
  /\ board.rows # NoOutlet /\ board.form # board.rows
  /\ board' = [board EXCEPT !.form = board.rows]
  /\ UNCHANGED <<keptToken, dash, pane, fetch, refusals>>

\* openNewProduct, openNewCategory, resetForm.
ResetForm ==
  /\ Shown # NoOutlet /\ pane \in RowConsoles /\ board.form # NoOutlet
  /\ board' = [board EXCEPT !.form = NoOutlet]
  /\ UNCHANGED <<keptToken, dash, pane, fetch, refusals>>

\* No request of the console's is under way and the last was applied to its own store.
UpToDate ==
  /\ ~board.astray
  /\ \A f \in Fetches : fetch[f].kind \notin ConsoleRequests

\* What is sent with the store shown is a form, of this store's values, or a row of the list.
Send(console, kind, of) ==
  /\ Shown # NoOutlet /\ pane = console
  /\ fetch' \in Plus(fetch, [LoadOf(Shown) EXCEPT !.kind = kind, !.of = of])
  /\ UNCHANGED <<keptToken, dash, pane, board, refusals>>

SendRow(console) == board.rows # NoOutlet /\ Send(console, "row", board.rows)

SubmitProfile == Send("settings", "form", board.form)
SubmitTheme   == Send("theme", "form", board.form)
SubmitProduct == Send("catalog", "form", board.form)
SubmitMethod  == Send("shipping", "form", board.form)
ActOnProduct  == SendRow("catalog")
UpdateOrder   == SendRow("orders")
ChangeMember  == SendRow("members")

\* An invitation and a registration name no row, and a store has one domain.
InviteByMail   == Send("members", "form", NoOutlet)
RegisterDomain == Send("domain", "form", NoOutlet)
ActOnDomain    == board.rows # NoOutlet /\ Send("domain", "row", NoOutlet)

Submit ==
  \/ SubmitProfile \/ SubmitTheme \/ SubmitProduct \/ SubmitMethod \/ InviteByMail \/ RegisterDomain
  \/ ActOnProduct \/ UpdateOrder \/ ChangeMember \/ ActOnDomain

\* The API takes a profile whose name is there, a theme as it comes, and of the
\* rows those of the store it is asked about; without a row it makes one.
Accepts(f) ==
  CASE pane = "settings" -> f.of # NoOutlet
    [] pane = "theme"    -> TRUE
    [] OTHER             -> f.of \in {NoOutlet, f.outlet}

ServeSubmit(f) ==
  /\ FetchAt(f, "sent") /\ fetch[f].kind \in {"form", "row"}
  /\ Answered(f, IF Accepts(fetch[f]) THEN {"done"} ELSE {"refused"}, {"broken"})
  /\ UNCHANGED <<keptToken, dash, pane, board>>

SubmitEnds(f, console, kind) ==
  FetchAt(f, "done") /\ pane = console /\ fetch[f].kind = kind /\ UNCHANGED <<keptToken, dash, pane, refusals>>

\* The values of the answer are shown, of whatever store they are.
ShowAnswer(f, next) ==
  /\ board' = [next EXCEPT !.astray = @ \/ fetch[f].outlet # Shown]
  /\ fetch' = Done(f)

\* The store is loaded again that was shown when the request was sent.
LoadAgain(f, next) == board' = next /\ fetch' = [fetch EXCEPT ![f] = LoadOf(fetch[f].outlet)]

ReceiveProfile(f) ==
  /\ SubmitEnds(f, "settings", "form") \/ SubmitEnds(f, "theme", "form")
  /\ ShowAnswer(f, [board EXCEPT !.rows = fetch[f].outlet, !.form = fetch[f].outlet])

\* The form is empty again.
ReceiveRowForm(f) ==
  /\ SubmitEnds(f, "catalog", "form") \/ SubmitEnds(f, "shipping", "form")
  /\ LoadAgain(f, [board EXCEPT !.form = NoOutlet])

ReceiveChanged(f) ==
  /\ \/ SubmitEnds(f, "catalog", "row") \/ SubmitEnds(f, "orders", "row")
     \/ SubmitEnds(f, "members", "form") \/ SubmitEnds(f, "members", "row")
  /\ LoadAgain(f, board)

\* The console shows the domain registered, and none once it is removed; a check
\* that was queued makes it load.
ReceiveDomain(f) ==
  \/ SubmitEnds(f, "domain", "form") /\ ShowAnswer(f, Listing(board, fetch[f].outlet))
  \/ /\ SubmitEnds(f, "domain", "row")
     /\ ShowAnswer(f, Emptied(board)) \/ LoadAgain(f, board)

\* An error message.
ReceiveRefusal(f) ==
  /\ fetch[f].kind \in {"form", "row"} /\ fetch[f].pc \in {"refused", "broken"}
  /\ fetch' = Done(f)
  /\ UNCHANGED <<keptToken, dash, pane, board, refusals>>

DashboardNext ==
  \/ OpenDashboard \/ RefreshContext \/ HandleLogout \/ Reload \/ StartEditing \/ ResetForm \/ Submit
  \/ \E u \in Folk : HandleLogin(u)
  \/ \E o \in Outlets : SelectOutlet(o)
  \/ \E c \in Consoles : OpenConsole(c)
  \/ \E f \in Fetches :
       \/ ServeSession(f) \/ ReceiveLogin(f) \/ ReceiveMe(f) \/ ReceiveLogout(f)
       \/ ServeLoad(f) \/ ReceiveLoad(f) \/ ServeSubmit(f) \/ ReceiveRefusal(f)
       \/ ReceiveProfile(f) \/ ReceiveRowForm(f) \/ ReceiveChanged(f) \/ ReceiveDomain(f)

DashboardSpec == DashboardInit /\ [][DashboardNext]_dashboardVars

-------------------------------------------------------------------------------
\* The dashboard shown is that of the user whose token it holds, unless the
\* answer to a request of an earlier session came after the next had begun.
ShownUserHoldsToken ==
  NoOne \notin {dash.user, dash.token} /\ ~dash.overtaken => dash.user = dash.token

\* A console whose requests have ended lists the rows of the store it is on, and
\* a profile's form, which a save would write to that store, holds its values:
\* unless a request failed or answers crossed.  The orders console may not have
\* been asked to load.
ConsoleShowsItsStore ==
  Shown # NoOutlet /\ UpToDate =>
    /\ LoadsByItself(pane) => board.rows \in {Shown, NoOutlet}
    /\ pane \in ProfileConsoles => board.form = Shown
===============================================================================
