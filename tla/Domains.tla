-------------------------------- MODULE Domains --------------------------------
(***************************************************************************)
(* A store's custom domain: registered, verified by a DNS job, given a     *)
(* certificate by two kinds of SSL job, served while ACTIVE, removed and   *)
(* replaced.  Requests and jobs interleave at every database statement,    *)
(* every call of a queue and every answer from outside.                    *)
(*                                                                         *)
(* A store has at most one row of type CUSTOM_DOMAIN and rows are never    *)
(* deleted, so a row is named by its store and every lookup of a row by    *)
(* its id finds it.  Timestamps are kept as "set" or "not set".            *)
(***************************************************************************)
EXTENDS Naturals, FiniteSets

CONSTANTS
  Stores,
  Hosts,            \* what merchants type, normalised
  NoHost,
  BadHosts,         \* hosts without www, under the marketplace's, or malformed
  RootHosts,        \* the dashboard's, the API's and the storefront's own host
  SubdomainOf,      \* the host each store has under the marketplace's
  RefusedHosts,     \* hosts the certificate provider refuses
  SlowHosts,        \* hosts it never finishes
  Registrations,    \* requests that add jobs: POST to register, verify or sync
  Tasks,            \* jobs; a request's job is followed by at most one other
  MaxTries,         \* 5, 8 and 10 in the queues' policies
  MostLosses,       \* bound of the jobs not added and of the workers that die
  MostPointings     \* bound of the changes of CNAME records

ASSUME DomainsAssumption ==
  /\ Stores # {}
  /\ NoHost \notin Hosts
  /\ BadHosts \cup RootHosts \cup RefusedHosts \cup SlowHosts \subseteq Hosts
  /\ SubdomainOf \in [Stores -> BadHosts \ RootHosts]
  /\ \A s, o \in Stores : SubdomainOf[s] = SubdomainOf[o] => s = o
  /\ MaxTries \in Nat \ {0}
  /\ IsFiniteSet(Tasks) /\ IsFiniteSet(Registrations)
  /\ Cardinality(Tasks) >= Cardinality(Registrations)
  /\ {MostLosses, MostPointings} \subseteq Nat

VARIABLES
  domain,      \* the custom domain row of each store
  cname,       \* the stores each host's CNAME record names (at most one)
  registration,
  task,
  proven,      \* history: the <<store, host>> a lookup has confirmed
  wasActive,   \* history: the <<store, host>> that have been ACTIVE
  announced,   \* history: the <<store, host>> merchants were mailed about
  replaced,    \* history: stores whose row was removed at least once
  lost,        \* history: stores for which adding a job failed, or a job gave up
  losses,      \* history: the jobs not added and the workers that died
  pointings    \* history: the changes of CNAME records

domainsBounds == <<losses, pointings>>

domainsHistory == <<proven, wasActive, announced, replaced, lost, domainsBounds>>

domainsVars == <<domain, cname, registration, task, domainsHistory>>

DomainStatus ==
  {"AWAITING_DNS", "VERIFYING", "SSL_PENDING", "ACTIVE", "ERROR", "REMOVED"}

DomainRow ==
  [host : Hosts \cup {NoHost}, status : DomainStatus \cup {"none"},
   verified : BOOLEAN, sslId : BOOLEAN, issued : BOOLEAN, activated : BOOLEAN]

NoDomain ==
  [host |-> NoHost, status |-> "none", verified |-> FALSE, sslId |-> FALSE,
   issued |-> FALSE, activated |-> FALSE]

DomainQueues == {"dns", "provisioning", "sslStatus"}

TaskRow ==
  [pc : {"free", "waiting", "lookup", "matched", "other", "broken",
         "provision", "settle", "recheck", "announce"},
   queue : DomainQueues, store : Stores, host : Hosts \cup {NoHost},
   tries : 0..MaxTries]

DomainsTypeOK ==
  /\ domain \in [Stores -> DomainRow]
  /\ cname \in [Hosts -> SUBSET Stores]
  /\ registration \in
       [Registrations -> [pc : {"idle", "own", "write", "verifying", "add", "over"},
                          store : Stores, host : Hosts \cup {NoHost},
                          seen : {"none", "REMOVED"}]]
  /\ task \in [Tasks -> TaskRow]
  /\ proven \subseteq Stores \X Hosts
  /\ wasActive \subseteq Stores \X Hosts
  /\ announced \subseteq Stores \X Hosts
  /\ replaced \subseteq Stores
  /\ lost \subseteq Stores
  /\ losses \in 0..MostLosses
  /\ pointings \in 0..MostPointings

AnyStore == CHOOSE s \in Stores : TRUE

FreeTask ==
  [pc |-> "free", queue |-> "dns", store |-> AnyStore, host |-> NoHost, tries |-> 0]

DomainsInit ==
  /\ domain = [s \in Stores |-> NoDomain]
  /\ cname = [h \in Hosts |-> {}]
  /\ registration = [r \in Registrations |->
       [pc |-> "idle", store |-> AnyStore, host |-> NoHost, seen |-> "none"]]
  /\ task = [t \in Tasks |-> FreeTask]
  /\ proven = {}
  /\ wasActive = {}
  /\ announced = {}
  /\ replaced = {}
  /\ lost = {}
  /\ losses = 0
  /\ pointings = 0

HasDomain(s) == domain[s].status # "none"

HostTaken(h, s) == \E other \in Stores \ {s} : domain[other].host = h

\* Hosts that normalizeCustomDomainHost lets through.
Registrable(h) == h \notin BadHosts

-------------------------------------------------------------------------------
(* Queues *)

\* A job for the store is added.  There is always room: each request adds one
\* job, and a job adds one only as its own last step.
Queued(tasks, q, s) ==
  LET t == CHOOSE u \in Tasks : tasks[u].pc = "free" IN
  [tasks EXCEPT ![t] = [FreeTask EXCEPT !.pc = "waiting", !.queue = q, !.store = s]]

TaskAt(t, pc) == task[t].pc = pc

TaskGoes(t, pc) == task' = [task EXCEPT ![t].pc = pc]

\* A failed job waits for another try while its queue's policy has one.
Again(t) ==
  IF task[t].tries + 1 < MaxTries
  THEN [task[t] EXCEPT !.pc = "waiting", !.tries = @ + 1]
  ELSE FreeTask

TaskFails(t) ==
  /\ task' = [task EXCEPT ![t] = Again(t)]
  /\ lost' = IF Again(t) = FreeTask THEN lost \cup {task[t].store} ELSE lost
  /\ UNCHANGED <<proven, wasActive, announced, replaced>>

\* A job is not added, or a worker dies.
Loses == losses < MostLosses /\ losses' = losses + 1

TaskEnds(t) == task' = [task EXCEPT ![t] = FreeTask]

-------------------------------------------------------------------------------
(* Requests *)

RegistrationAt(r, pc) == registration[r].pc = pc

RegistrationGoes(r, pc) == registration' = [registration EXCEPT ![r].pc = pc]

RowUnchanged == UNCHANGED <<domain, cname, task, domainsHistory>>

\* findDomainByHost: a host in use ends the request, a removed one does not.
RegisterFindsHost(r, s, h) ==
  /\ RegistrationAt(r, "idle")
  /\ Registrable(h)
  /\ LET taken == \E o \in Stores :
                    domain[o].host = h /\ domain[o].status # "REMOVED"
     IN registration' = [registration EXCEPT ![r] =
          [@ EXCEPT !.pc = IF taken THEN "over" ELSE "own", !.store = s, !.host = h]]
  /\ RowUnchanged

\* findCustomDomainByStoreId.
RegisterFindsOwn(r) ==
  /\ RegistrationAt(r, "own")
  /\ LET status == domain[registration[r].store].status
     IN registration' = [registration EXCEPT ![r] =
          IF status \in {"none", "REMOVED"}
          THEN [@ EXCEPT !.pc = "write", !.seen = status]
          ELSE [@ EXCEPT !.pc = "over"]]
  /\ RowUnchanged

\* Mutant: there is no unique index on the host.
RegisterWritesAnyHost(r) ==
  LET s == registration[r].store
      fresh == [NoDomain EXCEPT !.host = registration[r].host,
                                !.status = "AWAITING_DNS"]
  IN /\ RegistrationAt(r, "write")
     /\ \/ /\ registration[r].seen = "REMOVED" \/ ~HasDomain(s)
           /\ domain' = [domain EXCEPT ![s] = fresh]
           /\ RegistrationGoes(r, "verifying")
        \/ /\ registration[r].seen = "none" /\ HasDomain(s)
           /\ RegistrationGoes(r, "over")
           /\ UNCHANGED domain
     /\ UNCHANGED <<cname, task, domainsHistory>>

\* createCustomDomain, or reactivateCustomDomain when a removed row was seen:
\* the update is by id and asks for no status.  The unique indexes on the host
\* and on the store refuse the rest; a removed row still holds its host.
RegisterWrites(r) ==
  LET s == registration[r].store
      h == registration[r].host
      fresh == [NoDomain EXCEPT !.host = h, !.status = "AWAITING_DNS"]
      refused == \/ HostTaken(h, s)
                 \/ registration[r].seen = "none" /\ HasDomain(s)
  IN /\ RegistrationAt(r, "write")
     /\ \/ /\ refused
           /\ RegistrationGoes(r, "over")
           /\ UNCHANGED domain
        \/ /\ ~refused
           /\ domain' = [domain EXCEPT ![s] = fresh]
           /\ RegistrationGoes(r, "verifying")
     /\ UNCHANGED <<cname, task, domainsHistory>>

\* verifyStoreDomainDns asks only that the row exist.
Verify(r, s) ==
  /\ RegistrationAt(r, "idle")
  /\ HasDomain(s)
  /\ registration' = [registration EXCEPT ![r] =
       [@ EXCEPT !.pc = "verifying", !.store = s]]
  /\ RowUnchanged

\* enqueueDnsVerification writes the status first and then adds the job.
MarkVerifying(r) ==
  /\ RegistrationAt(r, "verifying")
  /\ domain' = [domain EXCEPT ![registration[r].store].status = "VERIFYING"]
  /\ RegistrationGoes(r, "add")
  /\ UNCHANGED <<cname, task, domainsHistory>>

\* Mutant: the job is forgotten.
VerificationNotQueued(r) ==
  /\ RegistrationAt(r, "add")
  /\ RegistrationGoes(r, "over")
  /\ RowUnchanged

QueueVerification(r) ==
  /\ RegistrationAt(r, "add")
  /\ task' = Queued(task, "dns", registration[r].store)
  /\ RegistrationGoes(r, "over")
  /\ UNCHANGED <<domain, cname, domainsHistory>>

VerificationLost(r) ==
  /\ Loses
  /\ RegistrationAt(r, "add")
  /\ RegistrationGoes(r, "over")
  /\ lost' = lost \cup {registration[r].store}
  /\ UNCHANGED <<domain, cname, task, proven, wasActive, announced, replaced, pointings>>

\* syncStoreDomainSsl adds a status job, whatever the row's status.
SyncSsl(r, s) ==
  /\ RegistrationAt(r, "idle")
  /\ HasDomain(s)
  /\ task' = Queued(task, "sslStatus", s)
  /\ RegistrationGoes(r, "over")
  /\ UNCHANGED <<domain, cname, domainsHistory>>

\* markDomainRemoved: dnsVerifiedAt is left as it is.
RemoveDomain(s) ==
  /\ HasDomain(s)
  /\ domain' = [domain EXCEPT ![s] =
       [@ EXCEPT !.status = "REMOVED", !.sslId = FALSE, !.issued = FALSE,
                 !.activated = FALSE]]
  /\ replaced' = replaced \cup {s}
  /\ UNCHANGED <<cname, registration, task, proven, wasActive, announced, lost, domainsBounds>>

\* The owner of a host changes its CNAME record.
PointCname(h, target) ==
  /\ Registrable(h)
  /\ cname[h] # target
  /\ pointings < MostPointings
  /\ pointings' = pointings + 1
  /\ cname' = [cname EXCEPT ![h] = target]
  /\ UNCHANGED <<domain, registration, task, proven, wasActive, announced, replaced, lost,
                 losses>>

-------------------------------------------------------------------------------
(* The DNS job *)

\* The worker takes a job and reads the row; only the host is used later.
TakeDns(t) ==
  /\ TaskAt(t, "waiting") /\ task[t].queue = "dns"
  /\ task' = [task EXCEPT ![t] =
       [@ EXCEPT !.pc = "lookup", !.host = domain[task[t].store].host]]
  /\ UNCHANGED <<domain, cname, registration, domainsHistory>>

\* Mutant: any record is good.
ResolveAny(t) ==
  /\ TaskAt(t, "lookup")
  /\ TaskGoes(t, IF cname[task[t].host] = {} THEN "broken" ELSE "matched")
  /\ proven' = proven \cup
       {<<s, task[t].host>> : s \in cname[task[t].host] \cap {task[t].store}}
  /\ UNCHANGED <<domain, cname, registration, wasActive, announced, replaced, lost,
                    domainsBounds>>

\* Without a record, and when the resolver fails, resolveCname throws.
ResolveCname(t) ==
  LET named == cname[task[t].host]
      s == task[t].store
  IN /\ TaskAt(t, "lookup")
     /\ \/ /\ s \in named
           /\ TaskGoes(t, "matched")
           /\ proven' = proven \cup {<<s, task[t].host>>}
        \/ /\ named # {} /\ s \notin named
           /\ TaskGoes(t, "other")
           /\ UNCHANGED proven
        \/ /\ TaskGoes(t, "broken")
           /\ UNCHANGED proven
     /\ UNCHANGED <<domain, cname, registration, wasActive, announced, replaced, lost,
                    domainsBounds>>

\* updateDomainDnsStatus on the row of that id, whatever became of it.
WriteDnsStatus(t, status, verified) ==
  domain' = [domain EXCEPT ![task[t].store] =
    [@ EXCEPT !.status = status, !.verified = verified]]

DnsMatches(t) ==
  /\ TaskAt(t, "matched")
  /\ WriteDnsStatus(t, "SSL_PENDING", TRUE)
  /\ TaskGoes(t, "provision")
  /\ UNCHANGED <<cname, registration, domainsHistory>>

DnsDiffers(t) ==
  /\ TaskAt(t, "other")
  /\ WriteDnsStatus(t, "AWAITING_DNS", FALSE)
  /\ TaskEnds(t)
  /\ UNCHANGED <<cname, registration, domainsHistory>>

\* The catch: it also covers the adding of the provisioning job.
DnsBreaks(t) ==
  /\ TaskAt(t, "broken")
  /\ WriteDnsStatus(t, "ERROR", FALSE)
  /\ TaskFails(t)
  /\ UNCHANGED <<cname, registration, domainsBounds>>

QueueProvisioning(t) ==
  /\ TaskAt(t, "provision")
  /\ \/ /\ task' = Queued([task EXCEPT ![t] = FreeTask], "provisioning", task[t].store)
        /\ UNCHANGED losses
     \/ Loses /\ TaskGoes(t, "broken")
  /\ UNCHANGED <<domain, cname, registration, proven, wasActive, announced, replaced, lost,
                 pointings>>

-------------------------------------------------------------------------------
(* The SSL jobs *)

TakeProvisioning(t) ==
  /\ TaskAt(t, "waiting") /\ task[t].queue = "provisioning"
  /\ task' = [task EXCEPT ![t] =
       [@ EXCEPT !.pc = "settle", !.host = domain[task[t].store].host]]
  /\ UNCHANGED <<domain, cname, registration, domainsHistory>>

\* A status job of a row without a provisioning id is a bad request.
TakeSslStatus(t) ==
  /\ TaskAt(t, "waiting") /\ task[t].queue = "sslStatus"
  /\ \/ /\ domain[task[t].store].sslId
        /\ task' = [task EXCEPT ![t] =
             [@ EXCEPT !.pc = "settle", !.host = domain[task[t].store].host]]
        /\ UNCHANGED domainsHistory
     \/ /\ ~domain[task[t].store].sslId
        /\ TaskFails(t)
        /\ UNCHANGED domainsBounds
  /\ UNCHANGED <<domain, cname, registration>>

\* provisionDomain and getProvisioningStatus: the provider goes by the host.
ProviderAnswer(queue, host) ==
  CASE host \in RefusedHosts -> "error"
    [] queue = "sslStatus" /\ host \notin SlowHosts \cup RefusedHosts -> "active"
    [] OTHER -> "pending"

\* updateDomainSslStatus: each answer writes the four fields together.
SslRow(row, answer) ==
  [row EXCEPT !.status = CASE answer = "active" -> "ACTIVE"
                           [] answer = "error" -> "ERROR"
                           [] OTHER -> "SSL_PENDING",
              !.sslId = TRUE,
              !.issued = answer = "active",
              !.activated = answer = "active"]

\* After an activation the mail is prepared without being waited for; while
\* the provider is busy another status job is added.
WriteSslStatus(t) ==
  LET s == task[t].store
      answer == ProviderAnswer(task[t].queue, task[t].host)
  IN /\ TaskAt(t, "settle")
     /\ domain' = [domain EXCEPT ![s] = SslRow(@, answer)]
     /\ wasActive' = IF answer = "active"
                     THEN wasActive \cup {<<s, domain[s].host>>} ELSE wasActive
     /\ CASE answer = "active" -> TaskGoes(t, "announce")
          [] answer = "error" -> TaskEnds(t)
          [] OTHER -> TaskGoes(t, "recheck")
     /\ UNCHANGED <<cname, registration, proven, announced, replaced, lost, domainsBounds>>

QueueRecheck(t) ==
  /\ TaskAt(t, "recheck")
  /\ \/ /\ task' = Queued([task EXCEPT ![t] = FreeTask], "sslStatus", task[t].store)
        /\ UNCHANGED domainsHistory
     \/ Loses /\ TaskFails(t) /\ UNCHANGED pointings
  /\ UNCHANGED <<domain, cname, registration>>

\* tryEnqueueDomainActivatedNotification reads the row again for the host.
Announce(t) ==
  /\ TaskAt(t, "announce")
  /\ announced' = announced \cup {<<task[t].store, domain[task[t].store].host>>}
  /\ TaskEnds(t)
  /\ UNCHANGED <<domain, cname, registration, proven, wasActive, replaced, lost, domainsBounds>>

\* A worker that dies leaves its job to be taken again, as one more try here.
Stall(t) ==
  /\ Loses
  /\ task[t].pc \notin {"free", "waiting", "announce"}
  /\ TaskFails(t)
  /\ UNCHANGED <<domain, cname, registration, pointings>>

-------------------------------------------------------------------------------
RegistrationStep(r) ==
  RegisterFindsOwn(r) \/ RegisterWrites(r) \/ MarkVerifying(r) \/ QueueVerification(r)

TaskStep(t) ==
  \/ TakeDns(t) \/ ResolveCname(t) \/ DnsMatches(t) \/ DnsDiffers(t) \/ DnsBreaks(t)
  \/ QueueProvisioning(t) \/ TakeProvisioning(t) \/ TakeSslStatus(t)
  \/ WriteSslStatus(t) \/ QueueRecheck(t) \/ Announce(t)

DomainsNext ==
  \/ \E s \in Stores :
       \/ RemoveDomain(s)
       \/ \E r \in Registrations :
            \/ Verify(r, s) \/ SyncSsl(r, s)
            \/ \E h \in Hosts : RegisterFindsHost(r, s, h)
  \/ \E r \in Registrations : RegistrationStep(r) \/ VerificationLost(r)
  \/ \E t \in Tasks : TaskStep(t) \/ Stall(t)
  \/ \E h \in Hosts : \E target \in {{}} \cup {{s} : s \in Stores} : PointCname(h, target)

DomainsSpec == DomainsInit /\ [][DomainsNext]_domainsVars

-------------------------------------------------------------------------------
(* Public requests *)

\* Only a row that is ACTIVE serves its host.
ServedUnder(h) == {s \in Stores : domain[s].host = h /\ domain[s].status = "ACTIVE"}

\* The store of a request to the host: that of the custom domain, or else the
\* one with that subdomain.  Empty for the system's own hosts and unknown ones.
ResolveHost(h) ==
  CASE h \in RootHosts -> {}
    [] h \notin RootHosts /\ ServedUnder(h) # {} -> ServedUnder(h)
    [] OTHER -> {s \in Stores : SubdomainOf[s] = h}

\* The middleware lets a request through to its host's store, and only when
\* every store named in its path, body, headers or query is that one.
PublicStore(h, named) == {s \in ResolveHost(h) : named \subseteq {s}}

-------------------------------------------------------------------------------
\* Every request that may still add a job finds a task for it, whatever jobs follow
\* one another meanwhile: no job is put in the place of one that is not done.
JobsHaveRoom ==
  \A r \in Registrations : registration[r].pc # "over" => \E t \in Tasks : TaskAt(t, "free")

\* A host never belongs to two stores, however their registrations and
\* removals interleave: a public request reaches at most one store, and no
\* registration takes a store's subdomain away from it.
OneStorePerHost ==
  /\ \A s, o \in Stores : HasDomain(s) /\ domain[s].host = domain[o].host => s = o
  /\ \A h \in Hosts : \A s, o \in PublicStore(h, {}) : s = o
  /\ \A s \in Stores : PublicStore(SubdomainOf[s], {s}) = {s}

\* What is served under a custom host has its certificate: no order of removal,
\* re-registration and late SSL answers leaves ACTIVE without it.
ActiveHasCertificate ==
  \A s \in Stores :
    domain[s].status = "ACTIVE" =>
      domain[s].sslId /\ domain[s].issued /\ domain[s].activated

\* A host is served for a store only after a lookup found the host's CNAME to
\* name that store, and the activation mail, prepared from a row read again
\* after the job's own write, names a host that was served for it.  (Once the
\* store has replaced its domain, jobs queued for the old host act on the new.)
FirstHostIsProven ==
  /\ \A s \in Stores \ replaced :
       domain[s].status = "ACTIVE" => <<s, domain[s].host>> \in proven
  /\ \A a \in announced : a[1] \notin replaced => a \in wasActive

\* What is served under a custom host has its certificate and was proven to be
\* its store's.
ServedIsProven == ActiveHasCertificate /\ FirstHostIsProven

\* The host of each store, whether it is served and has its certificate, and what was
\* looked up, served and told of it, change only as PublicHosts has it, however
\* requests, jobs, losses and changes of the records interleave.
Published == INSTANCE PublicHosts WITH
  host <- [s \in Stores |-> domain[s].host],
  served <- {s \in Stores : domain[s].status = "ACTIVE"},
  certified <- {s \in Stores : domain[s].sslId /\ domain[s].issued /\ domain[s].activated},
  found <- proven,
  shown <- wasActive,
  told <- announced,
  released <- replaced

ImplementsPublicHosts == Published!Spec

\* A domain does not stay in verification or without an answer about its
\* certificate, also when it is removed and replaced meanwhile, unless the
\* provider never finishes or a job was lost on the way.
DomainSettles ==
  \A s \in Stores :
    domain[s].status \in {"VERIFYING", "SSL_PENDING"}
      ~> \/ domain[s].status \notin {"VERIFYING", "SSL_PENDING"}
         \/ domain[s].host \in SlowHosts
         \/ s \in lost

\* MVP_TASKS.md:280, a removal marks the row REMOVED and prevents later
\* conflicts: only a registration brings the row back.
RemovedStaysRemoved ==
  [][\A s \in Stores :
       domain[s].status = "REMOVED" /\ domain'[s].status # "REMOVED"
         => domain'[s].status = "AWAITING_DNS"]_domainsVars

===============================================================================
