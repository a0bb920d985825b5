------------------------------- MODULE MCServer -------------------------------
(***************************************************************************)
(* Instances for TLC of the server's components that share no state: a     *)
(* behaviour is one of Components running, the others as they began.       *)
(***************************************************************************)
EXTENDS Server, TLC

CONSTANTS
  Components,    \* which of the components below
  p1, p2, q1, q2 \* requests, runs, tokens: interchangeable

VARIABLE running

\* The others stay as they began.
Stays(c) ==
  /\ IF c = "domains" THEN TRUE ELSE UNCHANGED domainsVars
  /\ IF c = "notifications" THEN TRUE ELSE UNCHANGED mailVars
  /\ IF c = "members" THEN TRUE ELSE UNCHANGED membersVars
  /\ IF c = "baselinker_orders" THEN TRUE ELSE UNCHANGED baselinkerVars
  /\ IF c = "baselinker_catalog" THEN TRUE ELSE UNCHANGED baselinkerCatalogVars
  /\ IF c = "rate_limit" THEN TRUE ELSE UNCHANGED rateLimitVars
  /\ IF c = "intake" THEN TRUE ELSE UNCHANGED vars
  /\ UNCHANGED running

ServerInit ==
  /\ DomainsInit
  /\ NotificationsInit
  /\ MembersInit
  /\ BaselinkerOrdersInit
  /\ BaselinkerCatalogInit
  /\ RateLimitInit
  /\ Init
  /\ running \in Components

ServerNext ==
  \/ running = "domains" /\ DomainsNext /\ Stays("domains")
  \/ running = "notifications" /\ NotificationsNext /\ Stays("notifications")
  \/ running = "members" /\ MembersNext /\ Stays("members")
  \/ running = "baselinker_orders" /\ BaselinkerOrdersNext /\ Stays("baselinker_orders")
  \/ running = "baselinker_catalog" /\ BaselinkerCatalogNext /\ Stays("baselinker_catalog")
  \/ running = "rate_limit" /\ RateLimitNext /\ Stays("rate_limit")
  \/ running = "intake" /\ Next /\ Stays("intake")

serverVars ==
  <<domainsVars, mailVars, membersVars, baselinkerVars,
    baselinkerCatalogVars, rateLimitVars, vars, running>>

ServerSpec == ServerInit /\ [][ServerNext]_serverVars

\* What tells two states of a behaviour apart.
StateOfRunning ==
  <<running,
    CASE running = "domains" -> domainsVars
      [] running = "notifications" -> mailVars
      [] running = "members" -> membersVars
      [] running = "baselinker_orders" -> baselinkerVars
      [] running = "baselinker_catalog" -> baselinkerCatalogVars
      [] running = "rate_limit" -> rateLimitVars
      [] running = "intake" -> vars>>

-------------------------------------------------------------------------------
Interchangeable == Permutations({p1, p2}) \cup Permutations({q1, q2})

\* Each store has a subdomain of its own.
Subdomains ==
  CHOOSE f \in [Stores -> BadHosts \ RootHosts] :
    \A s, o \in Stores : f[s] = f[o] => s = o

\* The subdomain tried for a name, and the next one.
TriedFor ==
  [n \in {"feira", "horta"} |-> <<n, IF n = "feira" THEN "horta" ELSE "horta-2">>]
===============================================================================
