----------------------------- MODULE DomainsProofs -----------------------------
(***************************************************************************)
(* A host belongs to one store, and what is served under it was proven to  *)
(* be its store's and has its certificate: for any number of stores,       *)
(* hosts, requests and jobs, however they interleave and are lost.         *)
(***************************************************************************)
EXTENDS Domains, FiniteSetTheorems, TLAPS

\* A row once written keeps being one, its host is one that may be registered,
\* and no other row has it.
RowsOK ==
  /\ \A s \in Stores :
       /\ HasDomain(s) <=> domain[s].host # NoHost
       /\ domain[s].host \notin BadHosts
  /\ \A s, o \in Stores : HasDomain(s) /\ domain[s].host = domain[o].host => s = o

\* A lookup has found the host of the store's row to name the store.
Confirmed(s) == <<s, domain[s].host>> \in proven

\* A request that will write a host or a status may, and one that will take a
\* removed row back has seen it removed.
RequestOK(q) ==
  /\ q.pc \in {"own", "write"} => q.host \in Hosts \ BadHosts
  /\ q.pc \in {"verifying", "add"} => HasDomain(q.store)
  /\ q.pc = "write" /\ q.seen = "REMOVED" => q.store \in replaced

\* A job is about a row.  If that row was never removed it still has the host
\* the job read, and the job comes to the certificate only past the lookup.
JobOK(j) ==
  /\ j.pc # "free" => HasDomain(j.store)
  /\ j.pc \notin {"free", "waiting"} => j.host \in Hosts
  /\ j.store \notin replaced =>
       /\ j.pc \in {"lookup", "matched"} => j.host = domain[j.store].host
       /\ j.pc = "matched" => Confirmed(j.store)
       /\ j.pc \in {"provision", "settle", "recheck", "announce"} => Confirmed(j.store)
       /\ j.pc # "free" /\ j.queue = "provisioning" => Confirmed(j.store)
       /\ j.pc = "announce" => <<j.store, domain[j.store].host>> \in wasActive

WritersOK ==
  /\ \A r \in Registrations : RequestOK(registration[r])
  /\ \A t \in Tasks : JobOK(task[t])

\* A store whose row was never removed has a certificate asked for, and a mail
\* sent, only for a host that was looked up and served.
ProvenOK ==
  /\ \A s \in Stores :
       /\ domain[s].status = "REMOVED" => s \in replaced
       /\ domain[s].sslId /\ s \notin replaced => Confirmed(s)
  /\ \A a \in announced : a[1] \notin replaced => a \in wasActive

DomainsIInv == DomainsTypeOK /\ RowsOK /\ WritersOK /\ ActiveHasCertificate /\ ProvenOK

-------------------------------------------------------------------------------
(* Queues *)

\* A task without a job.
LEMMA FreeTaskTyped == FreeTask \in TaskRow
<1>1. AnyStore \in Stores
  BY DomainsAssumption DEF AnyStore, DomainsAssumption
<1>2. 0 \in 0..MaxTries
  BY DomainsAssumption DEF DomainsAssumption
<1> QED
  BY <1>1, <1>2 DEF FreeTask, TaskRow, DomainQueues

\* Adding a job changes at most one task, into a job that waits.
LEMMA QueuedShape ==
  ASSUME NEW tasks \in [Tasks -> TaskRow], NEW q \in DomainQueues, NEW s \in Stores
  PROVE  /\ Queued(tasks, q, s) \in [Tasks -> TaskRow]
         /\ \A u \in Tasks :
              \/ Queued(tasks, q, s)[u] = tasks[u]
              \/ /\ Queued(tasks, q, s)[u].pc = "waiting"
                 /\ Queued(tasks, q, s)[u].queue = q
                 /\ Queued(tasks, q, s)[u].store = s
<1> DEFINE added == [FreeTask EXCEPT !.pc = "waiting", !.queue = q, !.store = s]
<1>1. added \in TaskRow /\ added.pc = "waiting" /\ added.queue = q /\ added.store = s
  BY FreeTaskTyped DEF FreeTask, TaskRow
<1>2. PICK t : Queued(tasks, q, s) = [tasks EXCEPT ![t] = added]
  BY DEF Queued
<1> QED
  BY <1>1, <1>2

\* A failed job waits again, or its task is free.
LEMMA AgainShape ==
  ASSUME task \in [Tasks -> TaskRow], NEW t \in Tasks
  PROVE  /\ Again(t) \in TaskRow
         /\ \/ Again(t) = FreeTask
            \/ /\ Again(t).pc = "waiting"
               /\ Again(t).queue = task[t].queue
               /\ Again(t).store = task[t].store
<1>1. task[t] \in TaskRow
  OBVIOUS
<1>2. FreeTask \in TaskRow
  BY FreeTaskTyped
<1>3. CASE task[t].tries + 1 < MaxTries
  <2>1. Again(t) = [task[t] EXCEPT !.pc = "waiting", !.tries = @ + 1]
    BY <1>3 DEF Again
  <2>2. task[t].tries + 1 \in 0..MaxTries
    BY <1>1, <1>3, DomainsAssumption DEF TaskRow, DomainsAssumption
  <2> QED
    BY <1>1, <2>1, <2>2 DEF TaskRow
<1>4. CASE ~(task[t].tries + 1 < MaxTries)
  BY <1>2, <1>4 DEF Again
<1> QED
  BY <1>3, <1>4

\* What no step has written is as it was.
LEMMA RowsStay ==
  ASSUME RowsOK, ActiveHasCertificate, UNCHANGED domain
  PROVE  RowsOK' /\ ActiveHasCertificate'
BY DEF RowsOK, HasDomain, ActiveHasCertificate

\* A step that keeps every row's host keeps what is known of a request or a
\* job that it does not touch.
SameHosts ==
  \A s \in Stores : domain'[s].host = domain[s].host /\ (HasDomain(s)' <=> HasDomain(s))

\* Requests and jobs stay sound while no row changes its host.
LEMMA WritersKeep ==
  ASSUME DomainsIInv, SameHosts, DomainsTypeOK',
         proven \subseteq proven', wasActive \subseteq wasActive', replaced \subseteq replaced',
         \A r \in Registrations :
           registration'[r] = registration[r] \/ RequestOK(registration[r])',
         \A t \in Tasks : task'[t] = task[t] \/ JobOK(task[t])'
  PROVE  WritersOK'
<1>1. ASSUME NEW r \in Registrations PROVE RequestOK(registration[r])'
  <2>1. CASE registration'[r] = registration[r]
    <3>1. RequestOK(registration[r]) /\ registration[r].store \in Stores
      BY DEF DomainsIInv, WritersOK, DomainsTypeOK
    <3> QED
      BY <2>1, <3>1 DEF RequestOK, SameHosts
  <2> QED
    BY <2>1
<1>2. ASSUME NEW t \in Tasks PROVE JobOK(task[t])'
  <2>1. CASE task'[t] = task[t]
    <3>1. JobOK(task[t]) /\ task[t].store \in Stores
      BY DEF DomainsIInv, WritersOK, DomainsTypeOK, TaskRow
    <3> QED
      BY <2>1, <3>1 DEF JobOK, Confirmed, SameHosts
  <2> QED
    BY <2>1
<1> QED
  BY <1>1, <1>2 DEF WritersOK

-------------------------------------------------------------------------------
(* Requests *)

\* Looking a host up, and asking for a verification, change the request alone.
LEMMA FindsHostKeeps ==
  ASSUME DomainsIInv, NEW r \in Registrations, NEW s \in Stores, NEW h \in Hosts,
         RegisterFindsHost(r, s, h)
  PROVE  DomainsIInv'
<1> USE DEF DomainsIInv, RowUnchanged, domainsHistory, domainsBounds
<1>1. PICK pc \in {"over", "own"} : registration' = [registration EXCEPT ![r] =
        [@ EXCEPT !.pc = pc, !.store = s, !.host = h]]
  BY DEF RegisterFindsHost
<1>2. UNCHANGED <<domain, cname, task, domainsHistory>> /\ h \in Hosts \ BadHosts
  BY DEF RegisterFindsHost, Registrable
<1>3. DomainsTypeOK'
  BY <1>1, <1>2 DEF DomainsTypeOK
<1>4. RowsOK' /\ ActiveHasCertificate'
  BY <1>2, RowsStay
<1>5. RequestOK(registration[r])' /\ SameHosts
  BY <1>1, <1>2 DEF RequestOK, SameHosts, HasDomain, DomainsTypeOK
<1>6. WritersOK'
  BY <1>1, <1>2, <1>3, <1>5, WritersKeep DEF DomainsTypeOK
<1>7. ProvenOK'
  BY <1>2 DEF ProvenOK, Confirmed
<1> QED
  BY <1>3, <1>4, <1>6, <1>7

\* So does looking at the store's own row: one that is REMOVED was removed.
LEMMA FindsOwnKeeps ==
  ASSUME DomainsIInv, NEW r \in Registrations, RegisterFindsOwn(r)
  PROVE  DomainsIInv'
<1> USE DEF DomainsIInv, RegisterFindsOwn, RegistrationAt, RowUnchanged, domainsHistory,
            domainsBounds
<1>1. DomainsTypeOK'
  <2>1. \/ registration' = [registration EXCEPT ![r] = [@ EXCEPT !.pc = "over"]]
        \/ \E seen \in {"none", "REMOVED"} :
             registration' = [registration EXCEPT ![r] = [@ EXCEPT !.pc = "write", !.seen = seen]]
    OBVIOUS
  <2>2. UNCHANGED <<domain, cname, task, proven, wasActive, announced, replaced, lost, losses,
                    pointings>>
    OBVIOUS
  <2>3. DomainsTypeOK
    OBVIOUS
  <2> HIDE DEF DomainsIInv, RegisterFindsOwn
  <2>4. registration' \in
          [Registrations -> [pc : {"idle", "own", "write", "verifying", "add", "over"},
                             store : Stores, host : Hosts \cup {NoHost},
                             seen : {"none", "REMOVED"}]]
    <3> DEFINE Row == [pc : {"idle", "own", "write", "verifying", "add", "over"},
                       store : Stores, host : Hosts \cup {NoHost},
                       seen : {"none", "REMOVED"}]
    <3>1. registration \in [Registrations -> Row]
      BY <2>3 DEF DomainsTypeOK
    <3>2. [registration[r] EXCEPT !.pc = "over"] \in Row
      BY <3>1
    <3>3. \A seen \in {"none", "REMOVED"} :
            [registration[r] EXCEPT !.pc = "write", !.seen = seen] \in Row
      BY <3>1
    <3> HIDE DEF Row
    <3>4. registration' \in [Registrations -> Row]
      BY <2>1, <3>1, <3>2, <3>3
    <3> QED BY <3>4 DEF Row
  <2> QED BY <2>2, <2>3, <2>4 DEF DomainsTypeOK
<1>2. RowsOK' /\ ActiveHasCertificate'
  BY RowsStay
<1>3. registration[r].store \in Stores /\ RequestOK(registration[r])
  BY DEF DomainsTypeOK, WritersOK
<1>4. RequestOK(registration[r])' /\ SameHosts
  BY <1>3 DEF RequestOK, SameHosts, HasDomain, DomainsTypeOK, ProvenOK
<1>5. WritersOK'
  BY <1>1, <1>4, WritersKeep DEF DomainsTypeOK
<1>6. ProvenOK'
  BY DEF ProvenOK, Confirmed
<1> QED
  BY <1>1, <1>2, <1>5, <1>6

\* The unique indexes keep the host the store's alone; a store whose row was
\* never removed gets a row only when it has none, and then no job has it.
LEMMA WritesKeeps ==
  ASSUME DomainsIInv, NEW r \in Registrations, RegisterWrites(r)
  PROVE  DomainsIInv'
<1> DEFINE s == registration[r].store
           h == registration[r].host
           fresh == [NoDomain EXCEPT !.host = h, !.status = "AWAITING_DNS"]
<1> USE DEF DomainsIInv, domainsHistory, domainsBounds
<1>1. /\ registration[r].pc = "write" /\ RequestOK(registration[r])
      /\ UNCHANGED <<cname, task, domainsHistory>>
  BY DEF RegisterWrites, RegistrationAt, WritersOK
<1>2. s \in Stores /\ h \in Hosts \ BadHosts /\ h # NoHost
  BY <1>1, DomainsAssumption DEF DomainsAssumption, RequestOK, DomainsTypeOK
<1>3. CASE UNCHANGED domain /\ RegistrationGoes(r, "over")
  <2>1. DomainsTypeOK'
    BY <1>1, <1>3 DEF DomainsTypeOK, RegistrationGoes
  <2>2. RowsOK' /\ ActiveHasCertificate'
    BY <1>3, RowsStay
  <2>3. RequestOK(registration[r])' /\ SameHosts
    BY <1>1, <1>3 DEF RequestOK, SameHosts, HasDomain, DomainsTypeOK, RegistrationGoes
  <2>4. WritersOK'
    BY <1>1, <1>3, <2>1, <2>3, WritersKeep DEF DomainsTypeOK, RegistrationGoes
  <2>5. ProvenOK'
    BY <1>1, <1>3 DEF ProvenOK, Confirmed
  <2> QED
    BY <2>1, <2>2, <2>4, <2>5
<1>4. CASE /\ ~HostTaken(h, s)
           /\ ~(registration[r].seen = "none" /\ HasDomain(s))
           /\ domain' = [domain EXCEPT ![s] = fresh]
           /\ RegistrationGoes(r, "verifying")
  <2>1. /\ fresh \in DomainRow /\ fresh.host = h /\ fresh.status = "AWAITING_DNS"
        /\ ~fresh.sslId
    BY <1>2 DEF DomainRow, DomainStatus, NoDomain
  <2>2. /\ domain' \in [Stores -> DomainRow] /\ domain'[s] = fresh
        /\ \A o \in Stores \ {s} : domain'[o] = domain[o]
    BY <1>2, <1>4, <2>1 DEF DomainsTypeOK
  <2>3. DomainsTypeOK'
    BY <1>1, <1>4, <2>2 DEF DomainsTypeOK, RegistrationGoes
  <2>4. RowsOK'
    BY <1>2, <1>4, <2>1, <2>2 DEF RowsOK, HasDomain, HostTaken
  <2>5. ActiveHasCertificate'
    BY <1>2, <2>1, <2>2 DEF ActiveHasCertificate
  <2>6. s \notin replaced => ~HasDomain(s)
    BY <1>1, <1>4 DEF RequestOK, DomainsTypeOK
  <2>7. \A o \in Stores : HasDomain(o) \/ o = s => HasDomain(o)'
    BY <1>2, <2>1, <2>2 DEF HasDomain
  <2>8. ASSUME NEW q \in Registrations PROVE RequestOK(registration[q])'
    <3>1. RequestOK(registration[q]) /\ registration[q].store \in Stores
      BY DEF WritersOK, DomainsTypeOK
    <3> QED
      BY <1>1, <1>4, <2>7, <3>1 DEF RequestOK, DomainsTypeOK, RegistrationGoes
  <2>9. ASSUME NEW t \in Tasks PROVE JobOK(task[t])'
    <3>1. JobOK(task[t]) /\ task[t] \in TaskRow /\ task' = task
      BY <1>1 DEF WritersOK, DomainsTypeOK
    <3>2. CASE task[t].store # s
      BY <1>1, <2>2, <2>7, <3>1, <3>2 DEF JobOK, Confirmed, TaskRow
    <3>3. CASE task[t].store = s
      BY <1>1, <2>6, <2>7, <3>1, <3>3 DEF JobOK, TaskRow
    <3> QED
      BY <3>2, <3>3
  <2>10. WritersOK'
    BY <2>8, <2>9 DEF WritersOK
  <2>11. ProvenOK'
    BY <1>1, <1>2, <2>1, <2>2 DEF ProvenOK, Confirmed
  <2> QED
    BY <2>3, <2>4, <2>5, <2>10, <2>11
<1> QED
  BY <1>3, <1>4 DEF RegisterWrites

\* The owner's verification only starts.
LEMMA VerifyKeeps ==
  ASSUME DomainsIInv, NEW r \in Registrations, NEW s \in Stores, Verify(r, s)
  PROVE  DomainsIInv'
<1> USE DEF DomainsIInv, Verify, RegistrationAt, RowUnchanged, domainsHistory, domainsBounds
<1>1. DomainsTypeOK'
  BY DEF DomainsTypeOK
<1>2. RowsOK' /\ ActiveHasCertificate'
  BY RowsStay
<1>3. RequestOK(registration[r])' /\ SameHosts
  BY DEF RequestOK, SameHosts, HasDomain, DomainsTypeOK
<1>4. WritersOK'
  BY <1>1, <1>3, WritersKeep DEF DomainsTypeOK
<1>5. ProvenOK'
  BY DEF ProvenOK, Confirmed
<1> QED
  BY <1>1, <1>2, <1>4, <1>5

\* A host is marked VERIFYING before its job is queued.
LEMMA MarkKeeps ==
  ASSUME DomainsIInv, NEW r \in Registrations, MarkVerifying(r)
  PROVE  DomainsIInv'
<1> DEFINE s == registration[r].store
           marked == [domain[s] EXCEPT !.status = "VERIFYING"]
<1> USE DEF DomainsIInv, domainsHistory, domainsBounds
<1>1. /\ registration[r].pc = "verifying" /\ RequestOK(registration[r]) /\ s \in Stores
      /\ UNCHANGED <<cname, task, domainsHistory>>
      /\ RegistrationGoes(r, "add")
      /\ domain' = [domain EXCEPT ![s].status = "VERIFYING"]
  BY DEF MarkVerifying, WritersOK, DomainsTypeOK, RegistrationAt
<1>2. /\ HasDomain(s) /\ domain[s] \in DomainRow
  BY <1>1 DEF RequestOK, DomainsTypeOK
<1>3. /\ marked \in DomainRow /\ marked.status = "VERIFYING"
      /\ marked.host = domain[s].host /\ marked.sslId = domain[s].sslId
  BY <1>2 DEF DomainRow, DomainStatus
<1>4. /\ domain' \in [Stores -> DomainRow] /\ domain'[s] = marked
      /\ \A o \in Stores \ {s} : domain'[o] = domain[o]
  BY <1>1, <1>3 DEF DomainsTypeOK
<1>5. DomainsTypeOK'
  BY <1>1, <1>4 DEF DomainsTypeOK, RegistrationGoes
<1>6. SameHosts
  BY <1>2, <1>3, <1>4 DEF SameHosts, HasDomain
<1>7. RowsOK'
  BY <1>6 DEF RowsOK, SameHosts
<1>8. ActiveHasCertificate'
  BY <1>3, <1>4 DEF ActiveHasCertificate
<1>9. RequestOK(registration[r])'
  BY <1>1, <1>2, <1>6 DEF RequestOK, SameHosts, DomainsTypeOK, RegistrationGoes
<1>10. WritersOK'
  BY <1>1, <1>5, <1>6, <1>9, WritersKeep DEF DomainsTypeOK, RegistrationGoes
<1>11. ProvenOK'
  BY <1>1, <1>3, <1>4 DEF ProvenOK, Confirmed
<1> QED
  BY <1>5, <1>7, <1>8, <1>10, <1>11

\* A job that is added waits for a store that has a row.
LEMMA QueueingKeeps ==
  ASSUME DomainsIInv, NEW s \in Stores, HasDomain(s), NEW q \in {"dns", "sslStatus"},
         task' = Queued(task, q, s),
         NEW r \in Registrations, RegistrationGoes(r, "over"),
         UNCHANGED <<domain, cname, domainsHistory>>
  PROVE  DomainsIInv'
<1> USE DEF DomainsIInv, domainsHistory, domainsBounds
<1>1. q \in DomainQueues /\ task \in [Tasks -> TaskRow]
  BY DEF DomainQueues, DomainsTypeOK
<1>2. /\ task' \in [Tasks -> TaskRow]
      /\ \A t \in Tasks :
           \/ task'[t] = task[t]
           \/ task'[t].pc = "waiting" /\ task'[t].queue = q /\ task'[t].store = s
  BY <1>1, QueuedShape
<1>3. DomainsTypeOK'
  <2>1. registration' = [registration EXCEPT ![r].pc = "over"]
    BY DEF RegistrationGoes
  <2> QED BY <1>2, <2>1 DEF DomainsTypeOK
<1>4. RowsOK' /\ ActiveHasCertificate'
  BY RowsStay
<1>5. RequestOK(registration[r])' /\ SameHosts
  BY DEF RequestOK, SameHosts, HasDomain, DomainsTypeOK, RegistrationGoes
<1>6. \A t \in Tasks : task'[t] = task[t] \/ JobOK(task[t])'
  BY <1>2 DEF JobOK, HasDomain
<1>7. WritersOK'
  BY <1>3, <1>5, <1>6, WritersKeep DEF DomainsTypeOK, RegistrationGoes
<1>8. ProvenOK'
  BY DEF ProvenOK, Confirmed
<1> QED
  BY <1>3, <1>4, <1>7, <1>8

\* A verification job is for the store that asked for it.
LEMMA QueueVerificationKeeps ==
  ASSUME DomainsIInv, NEW r \in Registrations, QueueVerification(r)
  PROVE  DomainsIInv'
<1>1. registration[r].store \in Stores /\ HasDomain(registration[r].store)
  BY DEF DomainsIInv, DomainsTypeOK, WritersOK, RequestOK, QueueVerification, RegistrationAt
<1> QED
  BY <1>1, QueueingKeeps DEF QueueVerification

\* And so is the job that looks at a certificate again.
LEMMA SyncKeeps ==
  ASSUME DomainsIInv, NEW r \in Registrations, NEW s \in Stores, SyncSsl(r, s)
  PROVE  DomainsIInv'
BY QueueingKeeps DEF SyncSsl

\* A verification that is not queued leaves the row as it is.
LEMMA VerificationLostKeeps ==
  ASSUME DomainsIInv, NEW r \in Registrations, VerificationLost(r)
  PROVE  DomainsIInv'
<1> USE DEF DomainsIInv, VerificationLost
<1>1. registration[r].store \in Stores
  BY DEF DomainsTypeOK
<1>2. losses' \in 0..MostLosses
  BY DomainsAssumption DEF DomainsTypeOK, DomainsAssumption, Loses
<1>3. registration' \in
        [Registrations -> [pc : {"idle", "own", "write", "verifying", "add", "over"},
                           store : Stores, host : Hosts \cup {NoHost},
                           seen : {"none", "REMOVED"}]]
  BY DEF DomainsTypeOK, RegistrationGoes
<1>4. DomainsTypeOK'
  BY <1>1, <1>2, <1>3 DEF DomainsTypeOK
<1>5. RowsOK' /\ ActiveHasCertificate'
  BY RowsStay
<1>6. RequestOK(registration[r])' /\ SameHosts
  BY DEF RequestOK, SameHosts, HasDomain, DomainsTypeOK, RegistrationGoes
<1>7. WritersOK'
  BY <1>4, <1>6, WritersKeep DEF DomainsTypeOK, RegistrationGoes
<1>8. ProvenOK'
  BY DEF ProvenOK, Confirmed
<1> QED
  BY <1>4, <1>5, <1>7, <1>8

\* A removal names the store replaced, for which nothing is claimed any more.
LEMMA RemoveKeeps ==
  ASSUME DomainsIInv, NEW s \in Stores, RemoveDomain(s)
  PROVE  DomainsIInv'
<1> DEFINE gone == [domain[s] EXCEPT !.status = "REMOVED", !.sslId = FALSE, !.issued = FALSE,
                                     !.activated = FALSE]
<1> USE DEF DomainsIInv, RemoveDomain, domainsBounds
<1>1. gone \in DomainRow /\ gone.host = domain[s].host /\ gone.status = "REMOVED" /\ ~gone.sslId
  <2>1. domain[s] \in DomainRow
    BY DEF DomainsTypeOK
  <2> HIDE DEF DomainsIInv, RemoveDomain
  <2> QED BY <2>1 DEF DomainRow, DomainStatus
<1>2. /\ domain' \in [Stores -> DomainRow] /\ domain'[s] = gone
      /\ \A o \in Stores \ {s} : domain'[o] = domain[o]
  BY <1>1 DEF DomainsTypeOK
<1>3. DomainsTypeOK'
  BY <1>2 DEF DomainsTypeOK
<1>4. SameHosts
  BY <1>1, <1>2 DEF SameHosts, HasDomain
<1>5. RowsOK'
  BY <1>4 DEF RowsOK, SameHosts
<1>6. ActiveHasCertificate'
  BY <1>1, <1>2 DEF ActiveHasCertificate
<1>7. WritersOK'
  BY <1>3, <1>4, WritersKeep
<1>8. ProvenOK'
  BY <1>1, <1>2 DEF ProvenOK, Confirmed
<1> QED
  BY <1>3, <1>5, <1>6, <1>7, <1>8

\* Whoever owns a host may point it elsewhere at any time.
LEMMA PointKeeps ==
  ASSUME DomainsIInv, NEW h \in Hosts, NEW target \in {{}} \cup {{s} : s \in Stores},
         PointCname(h, target)
  PROVE  DomainsIInv'
<1> USE DEF DomainsIInv, PointCname
<1>1. DomainsTypeOK'
  BY DomainsAssumption DEF DomainsTypeOK, DomainsAssumption
<1>2. RowsOK' /\ ActiveHasCertificate'
  BY RowsStay
<1>3. SameHosts
  BY DEF SameHosts, HasDomain
<1>4. WritersOK'
  BY <1>1, <1>3, WritersKeep
<1>5. ProvenOK'
  BY DEF ProvenOK, Confirmed
<1> QED
  BY <1>1, <1>2, <1>4, <1>5
-------------------------------------------------------------------------------
(* Jobs *)

\* What every step of a job comes to: rows keep their hosts and come to a
\* certificate and to ACTIVE only whole, nothing is forgotten, and each task
\* either is left alone or is in order after the step.
LEMMA JobsKeep ==
  ASSUME DomainsIInv, DomainsTypeOK', SameHosts, UNCHANGED <<registration, replaced>>,
         proven \subseteq proven', wasActive \subseteq wasActive',
         \A s \in Stores :
           \/ domain'[s] = domain[s]
           \/ /\ HasDomain(s)
              /\ domain'[s].status = "ACTIVE"
                   => domain'[s].sslId /\ domain'[s].issued /\ domain'[s].activated
              /\ domain'[s].status # "REMOVED"
              /\ domain'[s].sslId /\ s \notin replaced => domain[s].sslId \/ Confirmed(s),
         \A t \in Tasks : task'[t] = task[t] \/ JobOK(task[t])',
         \A a \in announced' \ announced : a[1] \notin replaced => a \in wasActive
  PROVE  DomainsIInv'
<1> USE DEF DomainsIInv
<1>1. RowsOK'
  BY DEF RowsOK, SameHosts
<1>2. ActiveHasCertificate'
  BY DEF ActiveHasCertificate
<1>3. WritersOK'
  BY WritersKeep
<1>4. ASSUME NEW s \in Stores
      PROVE  /\ domain'[s].status = "REMOVED" => s \in replaced'
             /\ domain'[s].sslId /\ s \notin replaced' => Confirmed(s)'
  BY <1>4 DEF ProvenOK, Confirmed, SameHosts
<1>5. \A a \in announced' : a[1] \notin replaced' => a \in wasActive'
  BY DEF ProvenOK
<1> QED
  BY <1>1, <1>2, <1>3, <1>4, <1>5 DEF ProvenOK

\* A step of a job that writes no row.
LEMMA QuietJobKeeps ==
  ASSUME DomainsIInv, DomainsTypeOK', UNCHANGED <<domain, registration, replaced, announced>>,
         proven \subseteq proven', wasActive \subseteq wasActive',
         \A t \in Tasks : task'[t] = task[t] \/ JobOK(task[t])'
  PROVE  DomainsIInv'
<1>1. SameHosts
  BY DEF SameHosts, HasDomain
<1> QED
  BY <1>1, JobsKeep

\* A task that is freed, or whose failed job waits again, is in order.
LEMMA FreedOK ==
  ASSUME NEW t \in Tasks, task'[t] = FreeTask
  PROVE  JobOK(task[t])'
BY FreeTaskTyped DEF JobOK, FreeTask

\* A job that is tried again is the job it was.
LEMMA AgainOK ==
  ASSUME DomainsIInv, NEW t \in Tasks, task[t].pc # "free"
  PROVE  Again(t) \in TaskRow /\ JobOK(Again(t))
<1>1. task \in [Tasks -> TaskRow] /\ JobOK(task[t])
  BY DEF DomainsIInv, DomainsTypeOK, WritersOK
<1>2. CASE Again(t) = FreeTask
  BY <1>2, FreeTaskTyped DEF JobOK, FreeTask
<1>3. CASE Again(t) # FreeTask
  BY <1>1, <1>3, AgainShape DEF JobOK
<1> QED
  BY <1>2, <1>3

\* What a failed job leaves.
LEMMA FailsTyped ==
  ASSUME DomainsIInv, NEW t \in Tasks, task[t].pc # "free", TaskFails(t)
  PROVE  /\ task' \in [Tasks -> TaskRow] /\ task'[t] = Again(t)
         /\ \A u \in Tasks \ {t} : task'[u] = task[u]
         /\ lost' \subseteq Stores
         /\ UNCHANGED <<proven, wasActive, announced, replaced>>
<1>1. Again(t) \in TaskRow
  BY AgainOK
<1>2. task[t].store \in Stores /\ lost \subseteq Stores /\ task \in [Tasks -> TaskRow]
  BY DEF DomainsIInv, DomainsTypeOK, TaskRow
<1> QED
  BY <1>1, <1>2 DEF TaskFails

\* Something lost is counted within its bound.
LEMMA LosesTyped ==
  ASSUME DomainsTypeOK, Loses
  PROVE  losses' \in 0..MostLosses
BY DomainsAssumption DEF DomainsAssumption, DomainsTypeOK, Loses

\* The host of a row that there is, is one.
LEMMA HostOfRow ==
  ASSUME DomainsIInv, NEW t \in Tasks, task[t].pc # "free"
  PROVE  /\ task[t] \in TaskRow /\ task[t].store \in Stores
         /\ JobOK(task[t]) /\ HasDomain(task[t].store)
         /\ domain[task[t].store] \in DomainRow
         /\ domain[task[t].store].host \in Hosts
BY DEF DomainsIInv, DomainsTypeOK, WritersOK, JobOK, RowsOK, TaskRow, DomainRow

\* A worker that takes a DNS job reads the row's host.
LEMMA TakeDnsKeeps ==
  ASSUME DomainsIInv, NEW t \in Tasks, TakeDns(t)
  PROVE  DomainsIInv'
<1> DEFINE taken == [task[t] EXCEPT !.pc = "lookup", !.host = domain[task[t].store].host]
<1> USE DEF TakeDns, TaskAt, domainsHistory, domainsBounds
<1>1. /\ task[t] \in TaskRow /\ task[t].store \in Stores /\ HasDomain(task[t].store)
      /\ domain[task[t].store].host \in Hosts /\ task \in [Tasks -> TaskRow]
  BY HostOfRow DEF DomainsIInv, DomainsTypeOK
<1>2. /\ taken \in TaskRow /\ taken.pc = "lookup" /\ taken.store = task[t].store
      /\ taken.host = domain[task[t].store].host /\ taken.queue = "dns"
  BY <1>1 DEF TaskRow
<1>3. task' \in [Tasks -> TaskRow] /\ task'[t] = taken /\ \A u \in Tasks \ {t} : task'[u] = task[u]
  BY <1>1, <1>2
<1>4. DomainsTypeOK'
  BY <1>3 DEF DomainsIInv, DomainsTypeOK
<1>5. JobOK(task[t])'
  BY <1>1, <1>2, <1>3 DEF JobOK, HasDomain
<1> QED
  BY <1>3, <1>4, <1>5, QuietJobKeeps

\* A lookup that names the store proves the host the job has read, which is the
\* row's host unless the store has replaced it.
LEMMA ResolveKeeps ==
  ASSUME DomainsIInv, NEW t \in Tasks, ResolveCname(t)
  PROVE  DomainsIInv'
<1> DEFINE s == task[t].store
<1> USE DEF TaskAt, domainsHistory, domainsBounds
<1>1. /\ task[t].pc = "lookup" /\ s \in Stores /\ JobOK(task[t]) /\ HasDomain(s)
      /\ task[t] \in TaskRow /\ task \in [Tasks -> TaskRow] /\ proven \subseteq Stores \X Hosts
      /\ UNCHANGED <<domain, cname, registration, wasActive, announced, replaced, lost,
                     domainsBounds>>
  BY HostOfRow DEF ResolveCname, DomainsIInv, DomainsTypeOK
<1>2. task[t].host \in Hosts
  BY <1>1 DEF JobOK
<1>3. PICK pc \in {"matched", "other", "broken"} :
        /\ TaskGoes(t, pc)
        /\ pc = "matched" => proven' = proven \cup {<<s, task[t].host>>}
        /\ pc # "matched" => proven' = proven
  BY DEF ResolveCname
<1>4. /\ task' \in [Tasks -> TaskRow] /\ task'[t] = [task[t] EXCEPT !.pc = pc]
      /\ \A u \in Tasks \ {t} : task'[u] = task[u]
  BY <1>1, <1>3 DEF TaskGoes, TaskRow
<1>5. proven \subseteq proven' /\ proven' \subseteq Stores \X Hosts
  BY <1>1, <1>2, <1>3
<1>6. DomainsTypeOK'
  BY <1>1, <1>4, <1>5 DEF DomainsIInv, DomainsTypeOK
<1>7. JobOK(task[t])'
  BY <1>1, <1>2, <1>3, <1>4 DEF JobOK, Confirmed, HasDomain, TaskRow
<1> QED
  BY <1>1, <1>4, <1>5, <1>6, <1>7, QuietJobKeeps

\* What updateDomainDnsStatus makes of the rows.
LEMMA DnsRow ==
  ASSUME DomainsIInv, NEW t \in Tasks, task[t].pc # "free",
         NEW status \in {"SSL_PENDING", "AWAITING_DNS", "ERROR"}, NEW verified \in BOOLEAN,
         WriteDnsStatus(t, status, verified)
  PROVE  /\ domain' \in [Stores -> DomainRow] /\ SameHosts
         /\ \A s \in Stores :
              \/ domain'[s] = domain[s]
              \/ /\ HasDomain(s)
                 /\ domain'[s].status = status
                 /\ domain'[s].sslId = domain[s].sslId
<1> DEFINE s == task[t].store
           row == [domain[s] EXCEPT !.status = status, !.verified = verified]
<1>1. s \in Stores /\ HasDomain(s) /\ domain[s] \in DomainRow /\ domain \in [Stores -> DomainRow]
  BY HostOfRow DEF DomainsIInv, DomainsTypeOK
<1>2. /\ row \in DomainRow /\ row.status = status
      /\ row.sslId = domain[s].sslId /\ row.host = domain[s].host
  BY <1>1 DEF DomainRow, DomainStatus
<1>3. domain' = [domain EXCEPT ![s] = row]
  BY <1>1 DEF WriteDnsStatus
<1>4. domain'[s] = row /\ \A o \in Stores \ {s} : domain'[o] = domain[o]
  BY <1>1, <1>3
<1> QED
  BY <1>1, <1>2, <1>3, <1>4 DEF SameHosts, HasDomain

\* A host whose record named the store is proven from that write.
LEMMA DnsMatchesKeeps ==
  ASSUME DomainsIInv, NEW t \in Tasks, DnsMatches(t)
  PROVE  DomainsIInv'
<1> USE DEF TaskAt, domainsHistory, domainsBounds
<1>1. /\ task[t].pc = "matched" /\ JobOK(task[t]) /\ HasDomain(task[t].store)
      /\ task[t] \in TaskRow /\ task[t].store \in Stores /\ task \in [Tasks -> TaskRow]
      /\ WriteDnsStatus(t, "SSL_PENDING", TRUE) /\ TaskGoes(t, "provision")
      /\ UNCHANGED <<cname, registration, domainsHistory>>
  BY HostOfRow DEF DnsMatches, DomainsIInv, DomainsTypeOK
<1>2. /\ domain' \in [Stores -> DomainRow] /\ SameHosts
      /\ \A s \in Stores :
           \/ domain'[s] = domain[s]
           \/ /\ HasDomain(s)
              /\ domain'[s].status = "SSL_PENDING"
              /\ domain'[s].sslId = domain[s].sslId
  BY <1>1, DnsRow
<1>3. /\ task' \in [Tasks -> TaskRow] /\ task'[t] = [task[t] EXCEPT !.pc = "provision"]
      /\ \A u \in Tasks \ {t} : task'[u] = task[u]
  BY <1>1 DEF TaskGoes, TaskRow
<1>4. DomainsTypeOK'
  BY <1>1, <1>2, <1>3 DEF DomainsIInv, DomainsTypeOK
<1>5. JobOK(task[t])'
  BY <1>1, <1>2, <1>3 DEF JobOK, Confirmed, SameHosts, TaskRow
<1> QED
  BY <1>1, <1>2, <1>3, <1>4, <1>5, JobsKeep

\* A record that names another target takes the host out of service.
LEMMA DnsDiffersKeeps ==
  ASSUME DomainsIInv, NEW t \in Tasks, DnsDiffers(t)
  PROVE  DomainsIInv'
<1> USE DEF TaskAt, domainsHistory, domainsBounds
<1>1. /\ task[t].pc = "other" /\ WriteDnsStatus(t, "AWAITING_DNS", FALSE) /\ TaskEnds(t)
      /\ UNCHANGED <<cname, registration, domainsHistory>>
  BY DEF DnsDiffers
<1>2. /\ domain' \in [Stores -> DomainRow] /\ SameHosts
      /\ \A s \in Stores :
           \/ domain'[s] = domain[s]
           \/ /\ HasDomain(s)
              /\ domain'[s].status = "AWAITING_DNS"
              /\ domain'[s].sslId = domain[s].sslId
  BY <1>1, DnsRow
<1>3. /\ task' \in [Tasks -> TaskRow] /\ task'[t] = FreeTask
      /\ \A u \in Tasks \ {t} : task'[u] = task[u]
  BY <1>1, FreeTaskTyped DEF TaskEnds, DomainsIInv, DomainsTypeOK
<1>4. DomainsTypeOK'
  BY <1>1, <1>2, <1>3 DEF DomainsIInv, DomainsTypeOK
<1>5. JobOK(task[t])'
  BY <1>3, FreedOK
<1> QED
  BY <1>1, <1>2, <1>3, <1>4, <1>5, JobsKeep

\* A failed job's task is in order after a step that keeps the rows' hosts.
LEMMA FailedOK ==
  ASSUME DomainsIInv, NEW t \in Tasks, task[t].pc # "free", task'[t] = Again(t), SameHosts,
         UNCHANGED <<proven, wasActive, replaced>>
  PROVE  JobOK(task[t])'
<1>1. Again(t) \in TaskRow /\ JobOK(Again(t))
  BY AgainOK
<1> QED
  BY <1>1 DEF JobOK, Confirmed, SameHosts, TaskRow

\* A lookup that fails writes no status that serves.
LEMMA DnsBreaksKeeps ==
  ASSUME DomainsIInv, NEW t \in Tasks, DnsBreaks(t)
  PROVE  DomainsIInv'
<1> USE DEF TaskAt, domainsBounds
<1>1. /\ task[t].pc = "broken" /\ WriteDnsStatus(t, "ERROR", FALSE) /\ TaskFails(t)
      /\ UNCHANGED <<cname, registration, domainsBounds>>
  BY DEF DnsBreaks
<1>2. /\ domain' \in [Stores -> DomainRow] /\ SameHosts
      /\ \A s \in Stores :
           \/ domain'[s] = domain[s]
           \/ /\ HasDomain(s)
              /\ domain'[s].status = "ERROR"
              /\ domain'[s].sslId = domain[s].sslId
  BY <1>1, DnsRow
<1>3. /\ task' \in [Tasks -> TaskRow] /\ task'[t] = Again(t)
      /\ \A u \in Tasks \ {t} : task'[u] = task[u]
      /\ lost' \subseteq Stores
      /\ UNCHANGED <<proven, wasActive, announced, replaced>>
  BY <1>1, FailsTyped
<1>4. DomainsTypeOK'
  BY <1>1, <1>2, <1>3 DEF DomainsIInv, DomainsTypeOK
<1>5. JobOK(task[t])'
  BY <1>1, <1>2, <1>3, FailedOK
<1> QED
  BY <1>1, <1>2, <1>3, <1>4, <1>5, JobsKeep

\* A step of a job that only fails writes no row.
LEMMA OnlyFailsKeeps ==
  ASSUME DomainsIInv, NEW t \in Tasks, task[t].pc # "free", TaskFails(t),
         losses' \in 0..MostLosses, UNCHANGED <<domain, cname, registration, pointings>>
  PROVE  DomainsIInv'
<1>1. /\ task' \in [Tasks -> TaskRow] /\ task'[t] = Again(t)
      /\ \A u \in Tasks \ {t} : task'[u] = task[u]
      /\ lost' \subseteq Stores
      /\ UNCHANGED <<proven, wasActive, announced, replaced>>
  BY FailsTyped
<1>2. DomainsTypeOK' /\ SameHosts
  BY <1>1 DEF DomainsIInv, DomainsTypeOK, SameHosts, HasDomain
<1>3. JobOK(task[t])'
  BY <1>1, <1>2, FailedOK
<1> QED
  BY <1>1, <1>2, <1>3, QuietJobKeeps

\* A job that stalls writes nothing.
LEMMA StallKeeps ==
  ASSUME DomainsIInv, NEW t \in Tasks, Stall(t)
  PROVE  DomainsIInv'
BY OnlyFailsKeeps, LosesTyped DEF Stall, DomainsIInv

\* A job that ends by adding the next one leaves it waiting for the same store.
LEMMA FollowedKeeps ==
  ASSUME DomainsIInv, NEW t \in Tasks, NEW q \in DomainQueues, NEW s \in Stores,
         task[t].pc # "free", task[t].store = s,
         q = "provisioning" /\ s \notin replaced => Confirmed(s),
         task' = Queued([task EXCEPT ![t] = FreeTask], q, s),
         UNCHANGED <<domain, cname, registration, domainsHistory>>
  PROVE  DomainsIInv'
<1> USE DEF domainsHistory, domainsBounds
<1>1. HasDomain(s) /\ task \in [Tasks -> TaskRow]
  BY HostOfRow DEF DomainsIInv, DomainsTypeOK
<1>2. PICK ended \in [Tasks -> TaskRow] :
        ended = [task EXCEPT ![t] = FreeTask] /\ task' = Queued(ended, q, s)
  BY <1>1, FreeTaskTyped
<1>3. /\ task' \in [Tasks -> TaskRow]
      /\ \A u \in Tasks :
           \/ task'[u] = ended[u]
           \/ task'[u].pc = "waiting" /\ task'[u].queue = q /\ task'[u].store = s
  <2>1. /\ Queued(ended, q, s) \in [Tasks -> TaskRow]
        /\ \A u \in Tasks :
             \/ Queued(ended, q, s)[u] = ended[u]
             \/ /\ Queued(ended, q, s)[u].pc = "waiting"
                /\ Queued(ended, q, s)[u].queue = q
                /\ Queued(ended, q, s)[u].store = s
    BY QueuedShape
  <2> QED
    BY <1>2, <2>1
<1>4. DomainsTypeOK'
  BY <1>3 DEF DomainsIInv, DomainsTypeOK
<1>5. ASSUME NEW u \in Tasks PROVE task'[u] = task[u] \/ JobOK(task[u])'
  <2>1. CASE task'[u] = ended[u]
    BY <1>1, <1>2, <2>1, FreedOK
  <2>2. CASE task'[u].pc = "waiting" /\ task'[u].queue = q /\ task'[u].store = s
    BY <1>1, <2>2 DEF JobOK, Confirmed, HasDomain
  <2> QED
    BY <1>3, <2>1, <2>2
<1> QED
  BY <1>4, <1>5, QuietJobKeeps

\* A provisioning job is added only past the lookup.
LEMMA QueueProvisioningKeeps ==
  ASSUME DomainsIInv, NEW t \in Tasks, QueueProvisioning(t)
  PROVE  DomainsIInv'
<1> DEFINE s == task[t].store
<1> USE DEF TaskAt, domainsHistory, domainsBounds
<1>1. /\ task[t].pc = "provision" /\ JobOK(task[t]) /\ HasDomain(s) /\ s \in Stores
      /\ task[t] \in TaskRow /\ task \in [Tasks -> TaskRow]
      /\ UNCHANGED <<domain, cname, registration, proven, wasActive, announced, replaced, lost,
                     pointings>>
  BY HostOfRow DEF QueueProvisioning, DomainsIInv, DomainsTypeOK
<1>2. s \notin replaced => Confirmed(s)
  BY <1>1 DEF JobOK
<1>3. CASE /\ task' = Queued([task EXCEPT ![t] = FreeTask], "provisioning", s)
           /\ UNCHANGED losses
  BY <1>1, <1>2, <1>3, FollowedKeeps DEF DomainQueues
<1>4. CASE Loses /\ TaskGoes(t, "broken")
  <2>1. losses' \in 0..MostLosses
    BY <1>4, LosesTyped DEF DomainsIInv
  <2>2. /\ task' \in [Tasks -> TaskRow] /\ task'[t] = [task[t] EXCEPT !.pc = "broken"]
        /\ \A u \in Tasks \ {t} : task'[u] = task[u]
    BY <1>1, <1>4 DEF TaskGoes, TaskRow
  <2>3. DomainsTypeOK'
    BY <1>1, <2>1, <2>2 DEF DomainsIInv, DomainsTypeOK
  <2>4. JobOK(task[t])'
    BY <1>1, <2>2 DEF JobOK, Confirmed, HasDomain, TaskRow
  <2> QED
    BY <1>1, <2>2, <2>3, <2>4, QuietJobKeeps
<1> QED
  BY <1>3, <1>4 DEF QueueProvisioning

\* A worker that takes an SSL job reads the row's host, and the row has been
\* proven or has a certificate asked for, which comes to the same.
LEMMA TakenKeeps ==
  ASSUME DomainsIInv, NEW t \in Tasks, task[t].pc = "waiting",
         task[t].queue = "provisioning" \/ domain[task[t].store].sslId,
         task' = [task EXCEPT ![t] =
           [@ EXCEPT !.pc = "settle", !.host = domain[task[t].store].host]],
         UNCHANGED <<domain, cname, registration, domainsHistory>>
  PROVE  DomainsIInv'
<1> DEFINE s == task[t].store
           taken == [task[t] EXCEPT !.pc = "settle", !.host = domain[s].host]
<1> USE DEF domainsHistory, domainsBounds
<1>1. /\ task[t] \in TaskRow /\ s \in Stores /\ JobOK(task[t]) /\ HasDomain(s)
      /\ domain[s].host \in Hosts /\ task \in [Tasks -> TaskRow]
  BY HostOfRow DEF DomainsIInv, DomainsTypeOK
<1>2. s \notin replaced => Confirmed(s)
  BY <1>1 DEF JobOK, DomainsIInv, ProvenOK
<1>3. /\ taken \in TaskRow /\ taken.pc = "settle" /\ taken.store = s
      /\ taken.host = domain[s].host
  BY <1>1 DEF TaskRow
<1>4. task' \in [Tasks -> TaskRow] /\ task'[t] = taken /\ \A u \in Tasks \ {t} : task'[u] = task[u]
  BY <1>1, <1>3
<1>5. DomainsTypeOK'
  BY <1>4 DEF DomainsIInv, DomainsTypeOK
<1>6. JobOK(task[t])'
  BY <1>1, <1>2, <1>3, <1>4 DEF JobOK, Confirmed, HasDomain
<1> QED
  BY <1>4, <1>5, <1>6, QuietJobKeeps

\* A job that provisions begins with a row that has a host.
LEMMA TakeProvisioningKeeps ==
  ASSUME DomainsIInv, NEW t \in Tasks, TakeProvisioning(t)
  PROVE  DomainsIInv'
BY TakenKeeps DEF TakeProvisioning, TaskAt

\* A job that looks at the certificate ends where there is none.
LEMMA TakeSslStatusKeeps ==
  ASSUME DomainsIInv, NEW t \in Tasks, TakeSslStatus(t)
  PROVE  DomainsIInv'
<1>1. task[t].pc = "waiting" /\ UNCHANGED <<domain, cname, registration>>
  BY DEF TakeSslStatus, TaskAt
<1>2. CASE /\ domain[task[t].store].sslId
           /\ task' = [task EXCEPT ![t] =
                [@ EXCEPT !.pc = "settle", !.host = domain[task[t].store].host]]
           /\ UNCHANGED domainsHistory
  BY <1>1, <1>2, TakenKeeps
<1>3. CASE TaskFails(t) /\ UNCHANGED domainsBounds
  BY <1>1, <1>3, OnlyFailsKeeps DEF domainsBounds, DomainsIInv, DomainsTypeOK
<1> QED
  BY <1>2, <1>3 DEF TakeSslStatus

\* The answer writes the four fields together, and the job got here past the
\* lookup.
LEMMA WriteSslStatusKeeps ==
  ASSUME DomainsIInv, NEW t \in Tasks, WriteSslStatus(t)
  PROVE  DomainsIInv'
<1> DEFINE s == task[t].store
           answer == ProviderAnswer(task[t].queue, task[t].host)
           row == SslRow(domain[s], answer)
           next == IF answer = "active" THEN "announce" ELSE "recheck"
<1> USE DEF TaskAt, domainsBounds
<1>1. /\ task[t].pc = "settle" /\ JobOK(task[t]) /\ HasDomain(s) /\ s \in Stores
      /\ task[t] \in TaskRow /\ task \in [Tasks -> TaskRow]
      /\ domain \in [Stores -> DomainRow] /\ domain[s] \in DomainRow /\ domain[s].host \in Hosts
      /\ wasActive \subseteq Stores \X Hosts
      /\ UNCHANGED <<cname, registration, proven, announced, replaced, lost, domainsBounds>>
  BY HostOfRow DEF WriteSslStatus, DomainsIInv, DomainsTypeOK
<1>2. s \notin replaced => Confirmed(s)
  BY <1>1 DEF JobOK
<1>3. /\ row \in DomainRow /\ row.host = domain[s].host
      /\ row.status \in {"ACTIVE", "ERROR", "SSL_PENDING"}
      /\ row.status = "ACTIVE" => row.sslId /\ row.issued /\ row.activated
  BY <1>1 DEF SslRow, DomainRow, DomainStatus
<1>4. domain' = [domain EXCEPT ![s] = row]
  BY <1>1 DEF WriteSslStatus
<1> HIDE DEF row
<1>5. /\ domain' \in [Stores -> DomainRow] /\ domain'[s] = row
      /\ \A o \in Stores \ {s} : domain'[o] = domain[o]
  BY <1>1, <1>3, <1>4
<1>6. SameHosts
  BY <1>1, <1>3, <1>5 DEF SameHosts, HasDomain
<1>7. /\ wasActive \subseteq wasActive' /\ wasActive' \subseteq Stores \X Hosts
      /\ answer = "active" => <<s, domain[s].host>> \in wasActive'
  BY <1>1 DEF WriteSslStatus
<1>8. TaskEnds(t) \/ TaskGoes(t, next)
  BY DEF WriteSslStatus
<1> HIDE DEF answer
<1>9. /\ task' \in [Tasks -> TaskRow] /\ \A u \in Tasks \ {t} : task'[u] = task[u]
      /\ task'[t] = FreeTask \/ task'[t] = [task[t] EXCEPT !.pc = next]
  BY <1>1, <1>8, FreeTaskTyped DEF TaskEnds, TaskGoes, TaskRow
<1>10. DomainsTypeOK'
  BY <1>1, <1>5, <1>7, <1>9 DEF DomainsIInv, DomainsTypeOK
<1>11. JobOK(task[t])'
  <2>1. CASE task'[t] = FreeTask
    BY <2>1, FreedOK
  <2>2. CASE task'[t] = [task[t] EXCEPT !.pc = next]
    <3>1. /\ task'[t].pc = next /\ task'[t].store = s
          /\ task'[t].host = task[t].host /\ task'[t].queue = task[t].queue
      BY <1>1, <2>2 DEF TaskRow
    <3>2. task[t].host \in Hosts /\ domain'[s].host = domain[s].host
      BY <1>1, <1>6 DEF SameHosts, JobOK
    <3>3. \A o \in Stores : o = s => HasDomain(o)'
      BY <1>1, <1>6 DEF SameHosts
    <3> QED
      BY <1>1, <1>2, <1>7, <3>1, <3>2, <3>3 DEF JobOK, Confirmed
  <2> QED
    BY <1>9, <2>1, <2>2
<1> QED
  BY <1>1, <1>2, <1>3, <1>5, <1>6, <1>7, <1>9, <1>10, <1>11, JobsKeep

\* The next look at a pending certificate is for the same store.
LEMMA QueueRecheckKeeps ==
  ASSUME DomainsIInv, NEW t \in Tasks, QueueRecheck(t)
  PROVE  DomainsIInv'
<1>1. /\ task[t].pc = "recheck" /\ task[t].store \in Stores
      /\ UNCHANGED <<domain, cname, registration>>
  BY HostOfRow DEF QueueRecheck, TaskAt
<1>2. CASE /\ task' = Queued([task EXCEPT ![t] = FreeTask], "sslStatus", task[t].store)
           /\ UNCHANGED domainsHistory
  BY <1>1, <1>2, FollowedKeeps DEF DomainQueues
<1>3. CASE Loses /\ TaskFails(t) /\ UNCHANGED pointings
  BY <1>1, <1>3, OnlyFailsKeeps, LosesTyped DEF DomainsIInv
<1> QED
  BY <1>2, <1>3 DEF QueueRecheck

\* The row read again has the host that became active, unless replaced.
LEMMA AnnounceKeeps ==
  ASSUME DomainsIInv, NEW t \in Tasks, Announce(t)
  PROVE  DomainsIInv'
<1> DEFINE s == task[t].store
<1> USE DEF TaskAt, domainsBounds
<1>1. /\ task[t].pc = "announce" /\ JobOK(task[t]) /\ s \in Stores /\ domain[s].host \in Hosts
      /\ announced' = announced \cup {<<s, domain[s].host>>} /\ TaskEnds(t)
      /\ UNCHANGED <<domain, cname, registration, proven, wasActive, replaced, lost,
                     domainsBounds>>
  BY HostOfRow DEF Announce
<1>2. /\ task' \in [Tasks -> TaskRow] /\ task'[t] = FreeTask
      /\ \A u \in Tasks \ {t} : task'[u] = task[u]
  BY <1>1, FreeTaskTyped DEF TaskEnds, DomainsIInv, DomainsTypeOK
<1>3. DomainsTypeOK' /\ SameHosts
  BY <1>1, <1>2 DEF DomainsIInv, DomainsTypeOK, SameHosts, HasDomain
<1>4. JobOK(task[t])'
  BY <1>2, FreedOK
<1>5. s \notin replaced => <<s, domain[s].host>> \in wasActive
  BY <1>1 DEF JobOK
<1> QED
  BY <1>1, <1>2, <1>3, <1>4, <1>5, JobsKeep

-------------------------------------------------------------------------------
(* The invariant *)

\* No store has a domain of its own yet.
LEMMA DomainsInitially == DomainsInit => DomainsIInv
<1> SUFFICES ASSUME DomainsInit PROVE DomainsIInv
  OBVIOUS
<1>1. AnyStore \in Stores
  BY DomainsAssumption DEF AnyStore, DomainsAssumption
<1>2. DomainsTypeOK
  <2>1. 0 \in 0..MostLosses /\ 0 \in 0..MostPointings
    BY DomainsAssumption DEF DomainsAssumption
  <2>2. NoDomain \in DomainRow
    BY DEF NoDomain, DomainRow
  <2> QED
    BY <1>1, <2>1, <2>2, FreeTaskTyped DEF DomainsInit, DomainsTypeOK
<1>3. \A s \in Stores : ~HasDomain(s) /\ domain[s] = NoDomain
  BY DEF DomainsInit, HasDomain, NoDomain
<1>4. RowsOK
  BY <1>3, DomainsAssumption DEF RowsOK, NoDomain, DomainsAssumption
<1>5. ActiveHasCertificate
  BY <1>3 DEF ActiveHasCertificate, NoDomain
<1>6. WritersOK
  BY DEF DomainsInit, WritersOK, RequestOK, JobOK, FreeTask
<1>7. ProvenOK
  BY <1>3 DEF DomainsInit, ProvenOK, NoDomain
<1> QED
  BY <1>2, <1>4, <1>5, <1>6, <1>7 DEF DomainsIInv

\* Every step of a request, a job or a host's owner keeps the invariant.
LEMMA DomainsStep == DomainsIInv /\ [DomainsNext]_domainsVars => DomainsIInv'
<1> SUFFICES ASSUME DomainsIInv, [DomainsNext]_domainsVars PROVE DomainsIInv'
  OBVIOUS
<1>1. ASSUME NEW s \in Stores, RemoveDomain(s) PROVE DomainsIInv'
  BY <1>1, RemoveKeeps
<1>2. ASSUME NEW s \in Stores, NEW r \in Registrations, Verify(r, s) \/ SyncSsl(r, s)
      PROVE  DomainsIInv'
  BY <1>2, VerifyKeeps, SyncKeeps
<1>3. ASSUME NEW s \in Stores, NEW r \in Registrations, NEW h \in Hosts,
             RegisterFindsHost(r, s, h)
      PROVE  DomainsIInv'
  BY <1>3, FindsHostKeeps
<1>4. ASSUME NEW r \in Registrations, RegistrationStep(r) \/ VerificationLost(r)
      PROVE  DomainsIInv'
  BY <1>4, FindsOwnKeeps, WritesKeeps, MarkKeeps, QueueVerificationKeeps, VerificationLostKeeps
     DEF RegistrationStep
<1>5. ASSUME NEW t \in Tasks, TaskStep(t) \/ Stall(t) PROVE DomainsIInv'
  BY <1>5, TakeDnsKeeps, ResolveKeeps, DnsMatchesKeeps, DnsDiffersKeeps, DnsBreaksKeeps,
     QueueProvisioningKeeps, TakeProvisioningKeeps, TakeSslStatusKeeps, WriteSslStatusKeeps,
     QueueRecheckKeeps, AnnounceKeeps, StallKeeps
     DEF TaskStep
<1>6. ASSUME NEW h \in Hosts, NEW target \in {{}} \cup {{s} : s \in Stores},
             PointCname(h, target)
      PROVE  DomainsIInv'
  BY <1>6, PointKeeps
<1>7. CASE UNCHANGED domainsVars
  <2> USE <1>7 DEF domainsVars, domainsHistory, domainsBounds, DomainsIInv
  <2>1. DomainsTypeOK' /\ SameHosts
    BY DEF DomainsTypeOK, SameHosts, HasDomain
  <2> QED
    BY <2>1, QuietJobKeeps
<1> QED
  BY <1>1, <1>2, <1>3, <1>4, <1>5, <1>6, <1>7 DEF DomainsNext

\* The invariant holds in every reachable state.
LEMMA DomainsInvariant == DomainsSpec => []DomainsIInv
BY DomainsInitially, DomainsStep, PTL DEF DomainsSpec

\* A public request reaches at most one store, and a store's subdomain stays its
\* own, however registrations and removals of domains interleave: the unique
\* index on the host refuses what the two earlier lookups let through.
THEOREM HostsSafe == DomainsSpec => []OneStorePerHost
<1>1. DomainsIInv => OneStorePerHost
  <2> SUFFICES ASSUME DomainsIInv PROVE OneStorePerHost
    OBVIOUS
  <2>1. \A s, o \in Stores : HasDomain(s) /\ domain[s].host = domain[o].host => s = o
    BY DEF DomainsIInv, RowsOK
  <2>2. ASSUME NEW h \in Hosts, NEW s \in PublicStore(h, {}), NEW o \in PublicStore(h, {})
        PROVE  s = o
    <3>1. \A a, b \in ServedUnder(h) : a = b
      BY <2>1 DEF ServedUnder, HasDomain
    <3>2. s \in Stores /\ o \in Stores /\ s \in ResolveHost(h) /\ o \in ResolveHost(h)
      BY DEF PublicStore, ResolveHost, ServedUnder
    <3> QED
      BY <3>1, <3>2, DomainsAssumption DEF ResolveHost, DomainsAssumption
  <2>3. ASSUME NEW s \in Stores PROVE PublicStore(SubdomainOf[s], {s}) = {s}
    <3>1. SubdomainOf[s] \in BadHosts /\ SubdomainOf[s] \notin RootHosts
      BY DomainsAssumption DEF DomainsAssumption
    <3>2. ServedUnder(SubdomainOf[s]) = {}
      BY <3>1 DEF ServedUnder, DomainsIInv, RowsOK
    <3>3. ResolveHost(SubdomainOf[s]) = {s}
      BY <3>1, <3>2, DomainsAssumption DEF ResolveHost, DomainsAssumption
    <3> QED
      BY <3>3 DEF PublicStore
  <2> QED
    BY <2>1, <2>2, <2>3 DEF OneStorePerHost
<1> QED
  BY <1>1, DomainsInvariant, PTL

\* What is served under a custom host has its certificate, was looked up and
\* found to name its store, and the activation mail names a host that was
\* served, for every interleaving of requests, jobs, losses and changes of the
\* records.
THEOREM ServedSafe == DomainsSpec => []ServedIsProven
<1>1. DomainsIInv => ServedIsProven
  BY DEF DomainsIInv, ServedIsProven, FirstHostIsProven, ActiveHasCertificate, ProvenOK,
         Confirmed
<1> QED
  BY <1>1, DomainsInvariant, PTL

-------------------------------------------------------------------------------
(* Room for the jobs: there are never more of them than requests that are  *)
(* over, each of which has added one.                                      *)

BusyIn(tasks) == {t \in Tasks : tasks[t].pc # "free"}
Over == {r \in Registrations : registration[r].pc = "over"}
RoomOK == Cardinality(BusyIn(task)) <= Cardinality(Over)

\* A job that is added takes one task more.
LEMMA QueuedTakesOne ==
  ASSUME NEW tasks \in [Tasks -> TaskRow], NEW q \in DomainQueues, NEW s \in Stores
  PROVE  Cardinality(BusyIn(Queued(tasks, q, s))) <= Cardinality(BusyIn(tasks)) + 1
<1> DEFINE added == [FreeTask EXCEPT !.pc = "waiting", !.queue = q, !.store = s]
<1>1. PICK t : Queued(tasks, q, s) = [tasks EXCEPT ![t] = added]
  BY DEF Queued
<1>2. BusyIn(Queued(tasks, q, s)) \subseteq BusyIn(tasks) \cup {t}
  BY <1>1 DEF BusyIn
<1>3. IsFiniteSet(BusyIn(tasks))
  <2>1. BusyIn(tasks) \subseteq Tasks
    BY DEF BusyIn
  <2> QED BY <2>1, FS_Subset, DomainsAssumption DEF DomainsAssumption
<1>4. /\ IsFiniteSet(BusyIn(tasks) \cup {t})
      /\ Cardinality(BusyIn(tasks) \cup {t}) <= Cardinality(BusyIn(tasks)) + 1
  <2>1. /\ IsFiniteSet(BusyIn(tasks) \cup {t})
        /\ Cardinality(BusyIn(tasks) \cup {t}) =
             IF t \in BusyIn(tasks) THEN Cardinality(BusyIn(tasks))
             ELSE Cardinality(BusyIn(tasks)) + 1
    BY <1>3, FS_AddElement
  <2>2. Cardinality(BusyIn(tasks)) \in Nat
    BY <1>3, FS_CardinalityType
  <2> QED BY <2>1, <2>2
<1>5. Cardinality(BusyIn(Queued(tasks, q, s))) <= Cardinality(BusyIn(tasks) \cup {t})
  BY <1>2, <1>4, FS_Subset
<1> QED
  BY <1>2, <1>3, <1>4, <1>5, FS_Subset, FS_CardinalityType

\* Tasks and requests are finitely many, so are those at work and those over.
LEMMA FinitelyMany ==
  /\ IsFiniteSet(Tasks) /\ IsFiniteSet(Registrations)
  /\ \A S \in SUBSET Tasks : IsFiniteSet(S) /\ Cardinality(S) \in Nat
  /\ \A S \in SUBSET Registrations : IsFiniteSet(S) /\ Cardinality(S) \in Nat
  /\ BusyIn(task) \in SUBSET Tasks /\ Over \in SUBSET Registrations
  /\ Cardinality(Tasks) >= Cardinality(Registrations)
BY FS_Subset, FS_CardinalityType, DomainsAssumption DEF DomainsAssumption, BusyIn, Over

\* There is as much room as before where no request stops being over and no job begins.
LEMMA RoomStays ==
  ASSUME RoomOK, Over \subseteq Over', BusyIn(task)' \subseteq BusyIn(task)
  PROVE  RoomOK'
<1>1. Over' \in SUBSET Registrations
  BY DEF Over
<1>2. Cardinality(Over) <= Cardinality(Over')
  BY <1>1, FinitelyMany, FS_Subset
<1>3. Cardinality(BusyIn(task)') <= Cardinality(BusyIn(task))
  BY FinitelyMany, FS_Subset
<1>4. BusyIn(task)' \in SUBSET Tasks
  BY DEF BusyIn
<1> QED BY <1>1, <1>2, <1>3, <1>4, FinitelyMany DEF RoomOK

\* A request that ends as its job is added makes the room the job takes.
LEMMA RoomMade ==
  ASSUME DomainsIInv, RoomOK, NEW r \in Registrations, NEW q \in DomainQueues, NEW s \in Stores,
         registration[r].pc # "over", RegistrationGoes(r, "over"), task' = Queued(task, q, s)
  PROVE  RoomOK'
<1>1. Over' = Over \cup {r} /\ r \notin Over
  BY DEF Over, RegistrationGoes, DomainsIInv, DomainsTypeOK
<1>2. Cardinality(Over') = Cardinality(Over) + 1
  BY <1>1, FinitelyMany, FS_AddElement
<1>3. Cardinality(BusyIn(task)') <= Cardinality(BusyIn(task)) + 1
  BY QueuedTakesOne DEF DomainsIInv, DomainsTypeOK
<1>4. BusyIn(task)' \in SUBSET Tasks
  BY DEF BusyIn
<1> QED BY <1>2, <1>3, <1>4, FinitelyMany DEF RoomOK

\* A job that adds another gives it its own place.
LEMMA RoomPassedOn ==
  ASSUME DomainsIInv, RoomOK, NEW t \in Tasks, task[t].pc # "free",
         NEW q \in DomainQueues, NEW s \in Stores,
         task' = Queued([task EXCEPT ![t] = FreeTask], q, s), UNCHANGED registration
  PROVE  RoomOK'
<1>1. PICK ended \in [Tasks -> TaskRow] :
        ended = [task EXCEPT ![t] = FreeTask] /\ task' = Queued(ended, q, s)
  BY FreeTaskTyped DEF DomainsIInv, DomainsTypeOK
<1>2. BusyIn(ended) = BusyIn(task) \ {t} /\ t \in BusyIn(task)
  BY <1>1 DEF BusyIn, FreeTask, DomainsIInv, DomainsTypeOK
<1>3. Cardinality(BusyIn(ended)) = Cardinality(BusyIn(task)) - 1
  BY <1>2, FinitelyMany, FS_RemoveElement
<1>4. Cardinality(BusyIn(task)') <= Cardinality(BusyIn(ended)) + 1
  <2>1. Cardinality(BusyIn(Queued(ended, q, s))) <= Cardinality(BusyIn(ended)) + 1
    BY QueuedTakesOne
  <2>2. BusyIn(task)' = BusyIn(Queued(ended, q, s))
    BY <1>1 DEF BusyIn
  <2> QED BY <2>1, <2>2
<1>5. BusyIn(task)' \in SUBSET Tasks /\ Over' = Over
  BY DEF BusyIn, Over
<1>6. /\ Cardinality(BusyIn(task)) \in Nat /\ Cardinality(BusyIn(task)') \in Nat
      /\ Cardinality(Over) \in Nat
  BY <1>5, FinitelyMany
<1> QED BY <1>3, <1>4, <1>5, <1>6 DEF RoomOK

\* A job that fails waits again in its place, or leaves it.
LEMMA FailingTakesNoRoom ==
  ASSUME DomainsIInv, NEW t \in Tasks, task[t].pc # "free", TaskFails(t)
  PROVE  BusyIn(task)' \subseteq BusyIn(task)
<1>1. task' = [task EXCEPT ![t] = Again(t)]
  BY DEF TaskFails
<1> QED BY <1>1 DEF BusyIn, DomainsIInv, DomainsTypeOK

\* For any numbers of requests and tasks, with as many of these at least, a request
\* finds room for its job, however jobs follow one another, fail and are tried again.
THEOREM RoomForJobs == DomainsSpec => []JobsHaveRoom
<1>1. DomainsInit => RoomOK
  <2> SUFFICES ASSUME DomainsInit PROVE RoomOK
    OBVIOUS
  <2>1. BusyIn(task) = {}
    BY DEF DomainsInit, BusyIn, FreeTask
  <2> QED BY <2>1, FinitelyMany, FS_EmptySet DEF RoomOK
<1>2. DomainsIInv /\ RoomOK /\ [DomainsNext]_domainsVars => RoomOK'
  <2> SUFFICES ASSUME DomainsIInv, RoomOK, [DomainsNext]_domainsVars PROVE RoomOK'
    OBVIOUS
  <2> USE DEF RegistrationAt, RegistrationGoes, TaskAt
  <2>1. /\ task \in [Tasks -> TaskRow]
        /\ \A r \in Registrations : registration[r].store \in Stores
        /\ \A t \in Tasks : task[t].store \in Stores
    BY DEF DomainsIInv, DomainsTypeOK, TaskRow
  <2>2. CASE UNCHANGED domainsVars
    BY <2>2, RoomStays DEF domainsVars, Over, BusyIn
  <2>3. ASSUME NEW s \in Stores, RemoveDomain(s) PROVE RoomOK'
    BY <2>3, RoomStays DEF RemoveDomain, Over, BusyIn
  <2>4. ASSUME NEW r \in Registrations, NEW s \in Stores,
               Verify(r, s) \/ \E h \in Hosts : RegisterFindsHost(r, s, h)
        PROVE  RoomOK'
    <3>1. UNCHANGED task /\ registration[r].pc # "over"
          /\ \A q \in Registrations \ {r} : registration'[q] = registration[q]
      BY <2>4 DEF Verify, RegisterFindsHost, RowUnchanged, DomainsIInv, DomainsTypeOK
    <3> QED BY <3>1, RoomStays DEF Over, BusyIn
  <2>5. ASSUME NEW r \in Registrations, NEW s \in Stores, SyncSsl(r, s) PROVE RoomOK'
    BY <2>5, RoomMade DEF SyncSsl, DomainQueues
  <2>6. ASSUME NEW r \in Registrations, QueueVerification(r) PROVE RoomOK'
    BY <2>1, <2>6, RoomMade DEF QueueVerification, DomainQueues
  <2>7. ASSUME NEW r \in Registrations,
               RegisterFindsOwn(r) \/ RegisterWrites(r) \/ MarkVerifying(r) \/ VerificationLost(r)
        PROVE  RoomOK'
    <3>1. UNCHANGED task /\ registration[r].pc # "over"
          /\ \A q \in Registrations \ {r} : registration'[q] = registration[q]
      BY <2>7 DEF RegisterFindsOwn, RegisterWrites, MarkVerifying, VerificationLost, RowUnchanged,
                  DomainsIInv, DomainsTypeOK
    <3> QED BY <3>1, RoomStays DEF Over, BusyIn
  <2>8. ASSUME NEW t \in Tasks, QueueProvisioning(t) PROVE RoomOK'
    <3>1. CASE task' = Queued([task EXCEPT ![t] = FreeTask], "provisioning", task[t].store)
      BY <2>1, <2>8, <3>1, RoomPassedOn DEF QueueProvisioning, DomainQueues
    <3>2. CASE TaskGoes(t, "broken")
      BY <2>1, <2>8, <3>2, RoomStays DEF QueueProvisioning, TaskGoes, Over, BusyIn
    <3> QED BY <2>8, <3>1, <3>2 DEF QueueProvisioning
  <2>9. ASSUME NEW t \in Tasks, QueueRecheck(t) PROVE RoomOK'
    <3>1. CASE task' = Queued([task EXCEPT ![t] = FreeTask], "sslStatus", task[t].store)
      BY <2>1, <2>9, <3>1, RoomPassedOn DEF QueueRecheck, DomainQueues
    <3>2. CASE TaskFails(t)
      BY <2>9, <3>2, RoomStays, FailingTakesNoRoom DEF QueueRecheck, Over
    <3> QED BY <2>9, <3>1, <3>2 DEF QueueRecheck
  <2>10. ASSUME NEW t \in Tasks,
                \/ TakeDns(t) \/ ResolveCname(t) \/ DnsMatches(t) \/ DnsDiffers(t)
                \/ TakeProvisioning(t) \/ WriteSslStatus(t) \/ Announce(t)
         PROVE  RoomOK'
    <3>1. /\ task[t].pc # "free" /\ UNCHANGED registration
          /\ \A u \in Tasks \ {t} : task'[u] = task[u]
      BY <2>1, <2>10
      DEF TakeDns, ResolveCname, DnsMatches, DnsDiffers, TakeProvisioning, WriteSslStatus,
          Announce, TaskGoes, TaskEnds
    <3> QED BY <3>1, RoomStays DEF Over, BusyIn
  <2>11. ASSUME NEW t \in Tasks, DnsBreaks(t) \/ TakeSslStatus(t) \/ Stall(t) PROVE RoomOK'
    <3>1. /\ task[t].pc # "free" /\ UNCHANGED registration
          /\ TaskFails(t) \/ \A u \in Tasks \ {t} : task'[u] = task[u]
      BY <2>1, <2>11 DEF DnsBreaks, TakeSslStatus, Stall
    <3>2. BusyIn(task)' \subseteq BusyIn(task)
      BY <3>1, FailingTakesNoRoom DEF BusyIn
    <3> QED BY <3>1, <3>2, RoomStays DEF Over
  <2>12. ASSUME NEW h \in Hosts, NEW target \in {{}} \cup {{s} : s \in Stores},
                PointCname(h, target)
         PROVE  RoomOK'
    BY <2>12, RoomStays DEF PointCname, Over, BusyIn
  <2> QED
    BY <2>2, <2>3, <2>4, <2>5, <2>6, <2>7, <2>8, <2>9, <2>10, <2>11, <2>12
    DEF DomainsNext, RegistrationStep, TaskStep
<1>3. DomainsIInv /\ RoomOK => JobsHaveRoom
  <2> SUFFICES ASSUME RoomOK, NEW r \in Registrations, registration[r].pc # "over",
                      \A t \in Tasks : ~TaskAt(t, "free")
               PROVE  FALSE
    BY DEF JobsHaveRoom
  <2>1. BusyIn(task) = Tasks
    BY DEF BusyIn, TaskAt
  <2>2. Cardinality(Over) <= Cardinality(Registrations) /\ Over # Registrations
    BY FinitelyMany, FS_Subset DEF Over
  <2>3. Cardinality(Over) = Cardinality(Registrations)
    BY <2>1, <2>2, FinitelyMany DEF RoomOK
  <2> QED BY <2>2, <2>3, FinitelyMany, FS_Subset
<1> QED BY <1>1, <1>2, <1>3, DomainsInvariant, PTL DEF DomainsSpec

-------------------------------------------------------------------------------
(* The hosts as the public sees them: Domains implements PublicHosts. *)

HostOf == [s \in Stores |-> domain[s].host]
Served == {s \in Stores : domain[s].status = "ACTIVE"}
Certified == {s \in Stores : domain[s].sslId /\ domain[s].issued /\ domain[s].activated}

\* One row is written, and the three views of the rows change for its store alone.
LEMMA ViewsOfRow ==
  ASSUME domain \in [Stores -> DomainRow], NEW s \in Stores, NEW row \in DomainRow,
         domain' = [domain EXCEPT ![s] = row]
  PROVE  /\ HostOf' = [HostOf EXCEPT ![s] = row.host]
         /\ Served' = IF row.status = "ACTIVE" THEN Served \cup {s} ELSE Served \ {s}
         /\ Certified' = IF row.sslId /\ row.issued /\ row.activated
                         THEN Certified \cup {s} ELSE Certified \ {s}
<1>1. domain'[s] = row /\ \A o \in Stores \ {s} : domain'[o] = domain[o]
  OBVIOUS
<1>2. HostOf' = [HostOf EXCEPT ![s] = row.host]
  BY <1>1 DEF HostOf
<1>3. Served' = IF row.status = "ACTIVE" THEN Served \cup {s} ELSE Served \ {s}
  BY <1>1 DEF Served
<1>4. Certified' = IF row.sslId /\ row.issued /\ row.activated
                   THEN Certified \cup {s} ELSE Certified \ {s}
  BY <1>1 DEF Certified
<1> QED BY <1>2, <1>3, <1>4

\* A row that keeps its host and is not served, and its certificate neither gained
\* nor touched, is suspended.
LEMMA Suspends ==
  ASSUME domain \in [Stores -> DomainRow], NEW s \in Stores, NEW row \in DomainRow,
         domain' = [domain EXCEPT ![s] = row],
         row.host = domain[s].host, row.status # "ACTIVE",
         \/ ~(row.sslId /\ row.issued /\ row.activated)
         \/ /\ row.sslId = domain[s].sslId /\ row.issued = domain[s].issued
            /\ row.activated = domain[s].activated,
         UNCHANGED <<proven, wasActive, announced, replaced>>
  PROVE  Published!Suspend(s)
<1>1. HostOf' = HostOf
  BY ViewsOfRow DEF HostOf
<1>2. Served' = Served \ {s}
  BY ViewsOfRow
<1>3. Certified' \in {Certified, Certified \ {s}}
  BY ViewsOfRow DEF Certified
<1> QED BY <1>1, <1>2, <1>3 DEF Published!Suspend, HostOf, Served, Certified

\* The public sees nothing of a step that leaves the rows and their history.
LEMMA PublicSeesNothing ==
  ASSUME UNCHANGED <<domain, proven, wasActive, announced, replaced>>
  PROVE  UNCHANGED Published!vars
BY DEF Published!vars

\* A removal gives the host up, which the row keeps.
LEMMA RemovesPublish ==
  ASSUME DomainsIInv, NEW s \in Stores, RemoveDomain(s)
  PROVE  [Published!Next]_(Published!vars)
<1> DEFINE row == [domain[s] EXCEPT !.status = "REMOVED", !.sslId = FALSE, !.issued = FALSE,
                                    !.activated = FALSE]
<1>1. /\ domain \in [Stores -> DomainRow]
      /\ HasDomain(s) /\ domain' = [domain EXCEPT ![s] = row]
      /\ replaced' = replaced \cup {s} /\ UNCHANGED <<proven, wasActive, announced>>
  BY DEF RemoveDomain, DomainsIInv, DomainsTypeOK
<1>2. row \in DomainRow /\ row.host = domain[s].host /\ row.status = "REMOVED" /\ ~row.sslId
  BY <1>1 DEF DomainRow, DomainStatus
<1> HIDE DEF row
<1>3. HostOf' = HostOf /\ Served' = Served \ {s} /\ Certified' = Certified \ {s}
  <2>1. HostOf' = [HostOf EXCEPT ![s] = domain[s].host]
    BY <1>1, <1>2, ViewsOfRow
  <2>2. Served' = Served \ {s} /\ Certified' = Certified \ {s}
    BY <1>1, <1>2, ViewsOfRow
  <2> QED BY <2>1, <2>2 DEF HostOf
<1>4. HostOf[s] # NoHost
  BY <1>1 DEF DomainsIInv, RowsOK, HostOf
<1>5. Published!GiveUp(s)
  BY <1>1, <1>3, <1>4 DEF Published!GiveUp, HostOf, Served, Certified
<1> QED BY <1>5 DEF Published!Next

\* Of requests, the public sees a domain registered and verified again.
LEMMA RequestsPublish ==
  ASSUME DomainsIInv, NEW r \in Registrations, NEW s \in Stores,
         \/ RegistrationStep(r) \/ VerificationLost(r)
         \/ Verify(r, s) \/ SyncSsl(r, s) \/ \E h \in Hosts : RegisterFindsHost(r, s, h)
  PROVE  [Published!Next]_(Published!vars)
<1> USE DEF domainsHistory, domainsBounds
<1>1. /\ domain \in [Stores -> DomainRow] /\ registration[r].store \in Stores
      /\ RequestOK(registration[r])
  BY DEF DomainsIInv, DomainsTypeOK, WritersOK
<1>2. CASE RegisterFindsOwn(r) \/ QueueVerification(r) \/ VerificationLost(r) \/ Verify(r, s)
           \/ SyncSsl(r, s) \/ \E h \in Hosts : RegisterFindsHost(r, s, h)
  BY <1>2, PublicSeesNothing
  DEF RegisterFindsOwn, QueueVerification, VerificationLost, Verify, SyncSsl, RegisterFindsHost,
      RowUnchanged
<1>3. CASE RegisterWrites(r)
  <2>0. PICK o \in Stores, h \in {registration[r].host} :
          o = registration[r].store /\ h = registration[r].host
    BY <1>1
  <2> DEFINE fresh == [NoDomain EXCEPT !.host = h, !.status = "AWAITING_DNS"]
  <2>1. o \in Stores /\ h \in Hosts
    BY <1>1, <1>3, <2>0 DEF RegisterWrites, RegistrationAt, RequestOK
  <2>2. /\ fresh \in DomainRow /\ fresh.host = h /\ fresh.status = "AWAITING_DNS"
        /\ ~fresh.sslId
    BY <2>1 DEF NoDomain, DomainRow, DomainStatus
  <2>3. CASE UNCHANGED domain
    BY <1>3, <2>3, PublicSeesNothing DEF RegisterWrites
  <2>4. CASE /\ ~HostTaken(h, o) /\ ~(registration[r].seen = "none" /\ HasDomain(o))
             /\ domain' = [domain EXCEPT ![o] = fresh]
    <3>1. UNCHANGED <<proven, wasActive, announced, replaced>>
      BY <1>3 DEF RegisterWrites
    <3> HIDE DEF fresh
    <3>2. /\ HostOf' = [HostOf EXCEPT ![o] = h]
          /\ Served' = Served \ {o} /\ Certified' = Certified \ {o}
      BY <1>1, <2>1, <2>2, <2>4, ViewsOfRow
    <3>3. \A q \in Stores \ {o} : HostOf[q] # h
      BY <2>1, <2>4 DEF HostTaken, HostOf
    <3>4. HostOf[o] = NoHost \/ o \in replaced
      <4>1. CASE registration[r].seen = "REMOVED"
        BY <1>1, <1>3, <2>0, <4>1 DEF RequestOK, RegisterWrites, RegistrationAt
      <4>2. CASE ~HasDomain(o)
        BY <2>1, <4>2 DEF DomainsIInv, RowsOK, HostOf
      <4>3. registration[r].seen \in {"none", "REMOVED"}
        BY DEF DomainsIInv, DomainsTypeOK
      <4> QED BY <2>4, <4>1, <4>2, <4>3
    <3>5. Published!Claim(o, h)
      BY <3>1, <3>2, <3>3, <3>4 DEF Published!Claim, HostOf, Served, Certified
    <3> QED BY <2>1, <3>5 DEF Published!Next
  <2> QED BY <1>3, <2>0, <2>3, <2>4 DEF RegisterWrites
<1>4. CASE MarkVerifying(r)
  <2>0. PICK o \in Stores : o = registration[r].store
    BY <1>1
  <2> DEFINE row == [domain[o] EXCEPT !.status = "VERIFYING"]
  <2>1. domain' = [domain EXCEPT ![o] = row] /\ UNCHANGED <<proven, wasActive, announced, replaced>>
    BY <1>1, <1>4, <2>0 DEF MarkVerifying
  <2>2. /\ row \in DomainRow /\ row.host = domain[o].host /\ row.status = "VERIFYING"
        /\ row.sslId = domain[o].sslId /\ row.issued = domain[o].issued
        /\ row.activated = domain[o].activated
    BY <1>1, <2>0 DEF DomainRow, DomainStatus
  <2> HIDE DEF row
  <2>3. Published!Suspend(o)
    BY <1>1, <2>1, <2>2, Suspends
  <2> QED BY <1>1, <2>3 DEF Published!Next
<1> QED BY <1>2, <1>3, <1>4 DEF RegistrationStep

\* Of jobs, the public sees a host found, suspended and served, and the mail.
LEMMA JobsPublish ==
  ASSUME DomainsIInv, NEW t \in Tasks, TaskStep(t) \/ Stall(t)
  PROVE  [Published!Next]_(Published!vars)
<1> USE DEF domainsHistory, domainsBounds, TaskAt
<1>0. PICK s \in Stores : s = task[t].store
  BY DEF DomainsIInv, DomainsTypeOK, TaskRow
<1>1. /\ domain \in [Stores -> DomainRow] /\ domain[s] \in DomainRow /\ s = task[t].store
      /\ JobOK(task[t])
  BY <1>0 DEF DomainsIInv, DomainsTypeOK, WritersOK
<1>2. CASE TakeDns(t) \/ QueueProvisioning(t) \/ TakeProvisioning(t) \/ TakeSslStatus(t)
           \/ QueueRecheck(t) \/ Stall(t)
  BY <1>2, PublicSeesNothing
  DEF TakeDns, QueueProvisioning, TakeProvisioning, TakeSslStatus, QueueRecheck, Stall, TaskFails
<1>3. CASE ResolveCname(t)
  <2>0. PICK h : h = task[t].host
    OBVIOUS
  <2>1. UNCHANGED <<domain, wasActive, announced, replaced>> /\ task[t].pc = "lookup"
    BY <1>3 DEF ResolveCname
  <2>2. CASE UNCHANGED proven
    BY <2>1, <2>2, PublicSeesNothing
  <2>3. CASE proven' = proven \cup {<<s, h>>}
    <3>1. h \in Hosts /\ (h = HostOf[s] \/ s \in replaced)
      BY <1>1, <2>0, <2>1 DEF JobOK, HostOf
    <3>2. Published!Find(s, h)
      BY <2>1, <2>3, <3>1 DEF Published!Find, HostOf
    <3> QED BY <1>1, <3>1, <3>2 DEF Published!Next
  <2> QED BY <1>1, <1>3, <2>0, <2>2, <2>3 DEF ResolveCname
<1>4. CASE DnsMatches(t) \/ DnsDiffers(t) \/ DnsBreaks(t)
  <2>1. UNCHANGED <<proven, wasActive, announced, replaced>>
    BY <1>4 DEF DnsMatches, DnsDiffers, DnsBreaks, TaskFails
  <2>2. PICK status \in {"SSL_PENDING", "AWAITING_DNS", "ERROR"}, verified \in BOOLEAN :
          WriteDnsStatus(t, status, verified)
    BY <1>4 DEF DnsMatches, DnsDiffers, DnsBreaks
  <2> DEFINE row == [domain[s] EXCEPT !.status = status, !.verified = verified]
  <2>3. domain' = [domain EXCEPT ![s] = row]
    BY <1>1, <2>2 DEF WriteDnsStatus
  <2>4. /\ row \in DomainRow /\ row.host = domain[s].host /\ row.status # "ACTIVE"
        /\ row.sslId = domain[s].sslId /\ row.issued = domain[s].issued
        /\ row.activated = domain[s].activated
    BY <1>1, <2>2 DEF DomainRow, DomainStatus
  <2> HIDE DEF row
  <2>5. Published!Suspend(s)
    BY <1>1, <2>1, <2>3, <2>4, Suspends
  <2> QED BY <1>1, <2>5 DEF Published!Next
<1>5. CASE WriteSslStatus(t)
  <2>0. PICK answer : answer = ProviderAnswer(task[t].queue, task[t].host)
    OBVIOUS
  <2> DEFINE row == SslRow(domain[s], answer)
  <2>1. /\ task[t].pc = "settle" /\ domain' = [domain EXCEPT ![s] = row]
        /\ UNCHANGED <<proven, announced, replaced>>
        /\ wasActive' = IF answer = "active"
                        THEN wasActive \cup {<<s, domain[s].host>>} ELSE wasActive
    BY <1>1, <1>5, <2>0 DEF WriteSslStatus
  <2>2. /\ row \in DomainRow /\ row.host = domain[s].host
        /\ answer = "active" => /\ row.status = "ACTIVE"
                                /\ row.sslId /\ row.issued /\ row.activated
        /\ answer # "active" => row.status # "ACTIVE" /\ ~row.issued
    BY <1>1 DEF SslRow, DomainRow, DomainStatus
  <2> HIDE DEF row
  <2>3. CASE answer # "active"
    <3>1. Published!Suspend(s)
      BY <1>1, <2>1, <2>2, <2>3, Suspends
    <3> QED BY <1>1, <3>1 DEF Published!Next
  <2>4. CASE answer = "active"
    <3>1. Served' = Served \cup {s} /\ Certified' = Certified \cup {s}
      BY <1>1, <2>1, <2>2, <2>4, ViewsOfRow
    <3>2. HostOf' = HostOf
      <4>1. HostOf' = [HostOf EXCEPT ![s] = row.host]
        BY <1>1, <2>1, <2>2, ViewsOfRow
      <4> QED BY <1>1, <2>2, <4>1 DEF HostOf
    <3>3. HostOf[s] = domain[s].host /\ HostOf[s] # NoHost
      BY <1>1, <2>1 DEF JobOK, DomainsIInv, RowsOK, HostOf
    <3>4. <<s, HostOf[s]>> \in proven \/ s \in replaced
      BY <1>1, <2>1, <3>3 DEF JobOK, Confirmed
    <3>5. wasActive' = wasActive \cup {<<s, HostOf[s]>>}
      BY <2>1, <2>4, <3>3
    <3>6. Published!Serve(s)
      BY <2>1, <3>1, <3>2, <3>3, <3>4, <3>5 DEF Published!Serve, HostOf, Served, Certified
    <3> QED BY <1>1, <3>6 DEF Published!Next
  <2> QED BY <2>3, <2>4
<1>6. CASE Announce(t)
  <2>1. /\ task[t].pc = "announce" /\ announced' = announced \cup {<<s, domain[s].host>>}
        /\ UNCHANGED <<domain, proven, wasActive, replaced>>
    BY <1>1, <1>6 DEF Announce
  <2>2. HostOf[s] = domain[s].host
    BY <1>1 DEF HostOf
  <2>3. <<s, HostOf[s]>> \in wasActive \/ s \in replaced
    BY <1>1, <2>1, <2>2 DEF JobOK
  <2>4. Published!Tell(s)
    BY <2>1, <2>2, <2>3 DEF Published!Tell, HostOf
  <2> QED BY <1>1, <2>4 DEF Published!Next
<1> QED BY <1>2, <1>3, <1>4, <1>5, <1>6 DEF TaskStep

\* For any stores, hosts, requests and jobs, however they interleave and are lost,
\* the rows of the domains are a behaviour of PublicHosts: a store takes a host no
\* other holds, is served under it once it was found to be its own, and is told of
\* it afterwards.
THEOREM HostsRefined == DomainsSpec => ImplementsPublicHosts
<1>1. DomainsInit => Published!Init
  BY DEF DomainsInit, Published!Init, NoDomain
<1>2. DomainsIInv /\ [DomainsNext]_domainsVars => [Published!Next]_(Published!vars)
  <2> SUFFICES ASSUME DomainsIInv, [DomainsNext]_domainsVars
               PROVE  [Published!Next]_(Published!vars)
    OBVIOUS
  <2>1. CASE UNCHANGED domainsVars
    BY <2>1, PublicSeesNothing DEF domainsVars, domainsHistory
  <2>2. ASSUME NEW h \in Hosts, NEW target \in {{}} \cup {{s} : s \in Stores},
               PointCname(h, target)
        PROVE  [Published!Next]_(Published!vars)
    BY <2>2, PublicSeesNothing DEF PointCname
  <2>3. ASSUME NEW s \in Stores, RemoveDomain(s) PROVE [Published!Next]_(Published!vars)
    BY <2>3, RemovesPublish
  <2>4. ASSUME NEW r \in Registrations, RegistrationStep(r) \/ VerificationLost(r)
        PROVE  [Published!Next]_(Published!vars)
    <3>1. registration[r].store \in Stores
      BY DEF DomainsIInv, DomainsTypeOK
    <3> QED BY <2>4, <3>1, RequestsPublish
  <2> QED BY <2>1, <2>2, <2>3, <2>4, RequestsPublish, JobsPublish DEF DomainsNext
<1> QED BY <1>1, <1>2, DomainsInvariant, PTL DEF DomainsSpec, ImplementsPublicHosts, Published!Spec

\* What PublicHosts says suffices for its promise: one holder of each host, nothing
\* served without its certificate or before it was found, nobody told too early.
LEMMA HostsKept == ImplementsPublicHosts => []Published!HostsAreKept
<1> DEFINE Kept ==
      /\ \A s, o \in Stores : HostOf[s] # NoHost /\ HostOf[s] = HostOf[o] => s = o
      /\ Served \subseteq Certified
      /\ \A s \in Served \ replaced : <<s, HostOf[s]>> \in proven
      /\ \A a \in announced : a[1] \in replaced \/ a \in wasActive
<1> USE DEF Published!HostsAreKept, HostOf, Served, Certified
<1>1. Published!Init => Kept
  BY DEF Published!Init
<1>2. Kept /\ [Published!Next]_(Published!vars) => Kept'
  <2> SUFFICES ASSUME Kept, [Published!Next]_(Published!vars) PROVE Kept'
    OBVIOUS
  <2> USE DEF Published!vars
  <2> HIDE DEF HostOf, Served, Certified
  <2>0. HostOf = [s \in Stores |-> HostOf[s]]
    BY DEF HostOf
  <2>1. CASE UNCHANGED <<HostOf, Served, Certified, proven, wasActive, announced, replaced>>
    BY <2>1
  <2>2. ASSUME NEW s \in Stores, NEW h \in Hosts, Published!Claim(s, h) PROVE Kept'
    <3>1. /\ HostOf' = [HostOf EXCEPT ![s] = h] /\ \A o \in Stores \ {s} : HostOf[o] # h
          /\ Served' = Served \ {s} /\ Certified' = Certified \ {s}
          /\ UNCHANGED <<proven, wasActive, announced, replaced>>
      BY <2>2 DEF Published!Claim, HostOf, Served, Certified
    <3>2. HostOf'[s] = h /\ \A o \in Stores \ {s} : HostOf'[o] = HostOf[o]
      BY <2>0, <3>1
    <3>3. \A o, q \in Stores : HostOf'[o] # NoHost /\ HostOf'[o] = HostOf'[q] => o = q
      BY <3>1, <3>2
    <3>4. \A o \in Served' : o \in Stores \ {s} /\ o \in Served
      BY <3>1 DEF Served
    <3>5. \A o \in Served' \ replaced' : <<o, HostOf'[o]>> \in proven'
      BY <3>1, <3>2, <3>4
    <3> QED BY <3>1, <3>3, <3>5
  <2>3. ASSUME NEW s \in Stores, NEW h \in Hosts, Published!Find(s, h) PROVE Kept'
    <3>1. /\ proven' = proven \cup {<<s, h>>}
          /\ UNCHANGED <<HostOf, Served, Certified, wasActive, announced, replaced>>
      BY <2>3 DEF Published!Find, HostOf, Served, Certified
    <3> QED BY <3>1
  <2>4. ASSUME NEW s \in Stores, Published!Serve(s) PROVE Kept'
    <3>1. /\ <<s, HostOf[s]>> \in proven \/ s \in replaced
          /\ Served' = Served \cup {s} /\ Certified' = Certified \cup {s}
          /\ wasActive' = wasActive \cup {<<s, HostOf[s]>>}
          /\ UNCHANGED <<HostOf, proven, announced, replaced>>
      BY <2>4 DEF Published!Serve, HostOf, Served, Certified
    <3> QED BY <3>1
  <2>5. ASSUME NEW s \in Stores, Published!Suspend(s) \/ Published!GiveUp(s) PROVE Kept'
    <3>1. /\ Served' = Served \ {s} /\ Certified' \in {Certified, Certified \ {s}}
          /\ replaced \subseteq replaced'
          /\ UNCHANGED <<HostOf, proven, wasActive, announced>>
      BY <2>5 DEF Published!Suspend, Published!GiveUp, HostOf, Served, Certified
    <3> QED BY <3>1
  <2>6. ASSUME NEW s \in Stores, Published!Tell(s) PROVE Kept'
    <3>1. /\ <<s, HostOf[s]>> \in wasActive \/ s \in replaced
          /\ announced' = announced \cup {<<s, HostOf[s]>>}
          /\ UNCHANGED <<HostOf, Served, Certified, proven, wasActive, replaced>>
      BY <2>6 DEF Published!Tell, HostOf, Served, Certified
    <3> QED BY <3>1
  <2> QED BY <2>1, <2>2, <2>3, <2>4, <2>5, <2>6 DEF Published!Next, HostOf, Served, Certified
<1>3. Kept => Published!HostsAreKept
  OBVIOUS
<1> QED BY <1>1, <1>2, <1>3, PTL DEF ImplementsPublicHosts, Published!Spec

===============================================================================
