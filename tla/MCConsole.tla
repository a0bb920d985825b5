------------------------------- MODULE MCConsole -------------------------------
(***************************************************************************)
(* Instances for TLC of accounts at the server, the dashboard's session    *)
(* and consoles, the admin area, and the form by which merchants register: *)
(* a behaviour is one of Components running, the others as they began.     *)
(***************************************************************************)
EXTENDS Console, TLC

CONSTANTS
  Components,      \* which of the components below
  p1, p2, q1, q2,  \* requests, tokens, slugs: interchangeable
  u1, u2, oa, ob   \* who signs in, their stores

VARIABLE running

\* The others stay as they began.
Stays(c) ==
  /\ IF c = "accounts" THEN TRUE ELSE UNCHANGED accountsVars
  /\ IF c = "dashboard" THEN TRUE ELSE UNCHANGED dashboardVars
  /\ IF c = "admin" THEN TRUE ELSE UNCHANGED adminVars
  /\ IF c = "onboarding" THEN TRUE ELSE UNCHANGED onboardingVars
  /\ UNCHANGED running

ConsoleInit ==
  /\ AccountsInit
  /\ DashboardInit
  /\ AdminInit
  /\ OnboardingInit
  /\ running \in Components

ConsoleNext ==
  \/ running = "accounts" /\ AccountsNext /\ Stays("accounts")
  \/ running = "dashboard" /\ DashboardNext /\ Stays("dashboard")
  \/ running = "admin" /\ AdminNext /\ Stays("admin")
  \/ running = "onboarding" /\ OnboardingNext /\ Stays("onboarding")

consoleVars == <<accountsVars, dashboardVars, adminVars, onboardingVars, running>>

ConsoleSpec == ConsoleInit /\ [][ConsoleNext]_consoleVars

\* What tells two states of a behaviour apart.
StateOfRunning ==
  <<running,
    CASE running = "accounts" -> accountsVars
      [] running = "dashboard" -> dashboardVars
      [] running = "admin" -> adminVars
      [] running = "onboarding" -> onboardingVars>>

-------------------------------------------------------------------------------
Interchangeable == Permutations({p1, p2}) \cup Permutations({q1, q2})

\* The stores of two who sign in.
StoresOfFolk == u1 :> <<oa, ob>> @@ u2 :> <<ob>>
===============================================================================
