--------------------------------- MODULE Console ---------------------------------
(***************************************************************************)
(* Who is signed in: accounts at the server, and the pages of the browser  *)
(* that hold their tokens.  They share no state.                           *)
(***************************************************************************)
EXTENDS Accounts, Dashboard, AdminConsole, Onboarding

\* The state of each component is of its type.
ConsoleTypeOK == AccountsTypeOK /\ DashboardTypeOK /\ AdminTypeOK /\ OnboardingTypeOK

\* A page of the dashboard or of the admin area shows the user whose token it
\* holds, and an admin's rows only to an admin.
PagesShowTheirUser == ShownUserHoldsToken /\ AdminRowsAreAdmins
===============================================================================
