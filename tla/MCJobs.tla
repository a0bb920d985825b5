-------------------------------- MODULE MCJobs --------------------------------
(***************************************************************************)
(* Instances for TLC of the three systems of queued jobs (webhook jobs,    *)
(* domain jobs and mails), each running while the others stay as they      *)
(* began, under the fairness of their workers.                             *)
(***************************************************************************)
EXTENDS OrderPayments, Domains, Notifications, TLC

CONSTANTS
  Components  \* which of the components below

VARIABLE running

\* The others stay as they began.
Stays(c) ==
  /\ IF c = "webhooks" THEN TRUE ELSE UNCHANGED vars
  /\ IF c = "domains" THEN TRUE ELSE UNCHANGED domainsVars
  /\ IF c = "notifications" THEN TRUE ELSE UNCHANGED mailVars
  /\ UNCHANGED running

JobsInit ==
  /\ Init
  /\ DomainsInit
  /\ NotificationsInit
  /\ running \in Components

JobsNext ==
  \/ running = "webhooks" /\ Next /\ Stays("webhooks")
  \/ running = "domains" /\ DomainsNext /\ Stays("domains")
  \/ running = "notifications" /\ NotificationsNext /\ Stays("notifications")

jobsVars ==
  <<vars, domainsVars, mailVars, running>>

JobsSpec == JobsInit /\ [][JobsNext]_jobsVars

\* A worker goes on with the job it has taken, and takes those that wait.
FairJobsSpec ==
  /\ JobsSpec
  /\ \A r \in Runs : WF_vars(running = "webhooks" /\ RunStep(r))
  /\ \A r \in Registrations : WF_domainsVars(running = "domains" /\ RegistrationStep(r))
  /\ \A t \in Tasks : WF_domainsVars(running = "domains" /\ TaskStep(t))
  /\ \A m \in Mails :
       /\ WF_mailVars(running = "notifications" /\ EnqueueStep(m))
       /\ WF_mailVars(running = "notifications" /\ SendingStep(m))

\* The state of the component that runs is of its type.
JobsTypeOK ==
  CASE running = "webhooks" -> TypeOK
    [] running = "domains" -> DomainsTypeOK
    [] running = "notifications" -> NotificationsTypeOK

-------------------------------------------------------------------------------
\* Each store has a subdomain of its own.
Subdomains ==
  CHOOSE f \in [Stores -> BadHosts \ RootHosts] :
    \A s, o \in Stores : f[s] = f[o] => s = o

\* A webhook job's statements may fail, except those that load or mark its row.
WithinTry == RunSteps \ {"load", "mark", "catch"}
===============================================================================
