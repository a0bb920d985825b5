------------------------------ MODULE ServerProofs ------------------------------
(***************************************************************************)
(* Components of the server that share no state with the others: how an    *)
(* event of the gateway gets into the store, notifications by mail, stores *)
(* with their addresses, memberships and invitations, what goes to and     *)
(* comes from Baselinker, and the rate limit.                              *)
(***************************************************************************)
EXTENDS Server, DomainsProofs, FiniteSetTheorems, WellFoundedInduction, TLAPS

-------------------------------------------------------------------------------
(* WebhookIntake: for any number of events and of deliveries, failing      *)
(* queues and servers included.                                            *)

\* A request knows its event once it has begun; past the unique index it is
\* the only one of its event there, and the event has no job yet.
HandlersOK ==
  /\ \A d \in Deliveries : ~At(d, "idle") => EventOf(d) \in Events
  /\ \A d \in Deliveries :
       At(d, "enqueue") => EventOf(d) \in stored /\ jobs[EventOf(d)] = 0
  /\ \A d, g \in Deliveries :
       At(d, "enqueue") /\ At(g, "enqueue") /\ EventOf(d) = EventOf(g) => d = g
  /\ \A d \in Deliveries : At(d, "reply") => EventOf(d) \in stored

IInv ==
  /\ TypeOK
  /\ HandlersOK
  /\ QueuedAtMostOnce
  /\ NothingIsInvented
  /\ StoredIsQueued

\* The invariant holds at first.
LEMMA InitIInv == Init => IInv
  BY DEF Init, IInv, TypeOK, HandlersOK, QueuedAtMostOnce, NothingIsInvented, StoredIsQueued,
         At, EventOf, Steps, Ended

\* Every step keeps the invariant.
LEMMA NextIInv == IInv /\ [Next]_vars => IInv'
<1> SUFFICES ASSUME IInv, [Next]_vars PROVE IInv'
  OBVIOUS
<1> USE DEF IInv, TypeOK, HandlersOK, QueuedAtMostOnce, NothingIsInvented, StoredIsQueued,
            At, EventOf, Goes, Steps, Ended
<1>1. ASSUME NEW d \in Deliveries, NEW e \in Events, Deliver(d, e)
      PROVE  IInv'
  BY <1>1 DEF Deliver
<1>2. ASSUME NEW d \in Deliveries, FindStored(d)
      PROVE  IInv'
  BY <1>2 DEF FindStored
<1>3. ASSUME NEW d \in Deliveries, Store(d)
      PROVE  IInv'
  <2> DEFINE e == EventOf(d)
  <2>0. /\ At(d, "create") /\ e \in Events
        /\ UNCHANGED <<jobs, answered>>
    BY <1>3 DEF Store
  <2>1. CASE e \notin stored
    <3>1. stored' = stored \cup {e} /\ Goes(d, "enqueue")
      BY <1>3, <2>1 DEF Store
    <3>2. /\ delivery'[d].pc = "enqueue" /\ delivery'[d].event = e
          /\ \A g \in Deliveries \ {d} : delivery'[g] = delivery[g]
      BY <3>1
    <3>3. TypeOK'
      BY <2>0, <3>1
    <3>4. jobs[e] = 0 /\ \A g \in Deliveries : At(g, "enqueue") => EventOf(g) # e
      BY <2>0, <2>1
    <3>5. HandlersOK'
      BY <2>0, <3>1, <3>2, <3>4
    <3>6. QueuedAtMostOnce' /\ NothingIsInvented'
      BY <2>0, <3>1
    <3>7. StoredIsQueued'
      BY <2>0, <3>1, <3>2
    <3> QED BY <3>3, <3>5, <3>6, <3>7
  <2>2. CASE e \in stored
    <3>1. UNCHANGED stored /\ Goes(d, "refused")
      BY <1>3, <2>2 DEF Store
    <3>2. /\ delivery'[d].pc = "refused" /\ delivery'[d].event = e
          /\ \A g \in Deliveries \ {d} : delivery'[g] = delivery[g]
      BY <3>1
    <3>3. TypeOK' /\ QueuedAtMostOnce' /\ NothingIsInvented'
      BY <2>0, <3>1
    <3>4. HandlersOK'
      BY <2>0, <3>1, <3>2
    <3>5. StoredIsQueued'
      BY <2>0, <3>1, <3>2
    <3> QED BY <3>3, <3>4, <3>5
  <2> QED BY <2>1, <2>2
<1>4. ASSUME NEW d \in Deliveries, Enqueue(d)
      PROVE  IInv'
  BY <1>4 DEF Enqueue
<1>5. ASSUME NEW d \in Deliveries, Reply(d)
      PROVE  IInv'
  BY <1>5 DEF Reply
<1>6. ASSUME NEW d \in Deliveries, EnqueueFails(d) \/ Dies(d)
      PROVE  IInv'
  <2>1. /\ delivery[d].pc \notin {"idle"} \cup Ended
        /\ Goes(d, "broken")
        /\ UNCHANGED <<stored, jobs, answered>>
    BY <1>6 DEF EnqueueFails, Dies
  <2>2. delivery'[d] = [delivery[d] EXCEPT !.pc = "broken"]
        /\ \A g \in Deliveries \ {d} : delivery'[g] = delivery[g]
    BY <2>1
  <2>3. delivery'[d].pc = "broken" /\ delivery'[d].event = delivery[d].event
    BY <2>2
  <2>4. TypeOK'
    BY <2>1
  <2>5. HandlersOK' /\ QueuedAtMostOnce' /\ NothingIsInvented'
    BY <2>1, <2>2, <2>3
  <2>6. StoredIsQueued'
    BY <2>1, <2>2, <2>3
  <2> QED BY <2>4, <2>5, <2>6
<1>7. CASE UNCHANGED vars
  BY <1>7 DEF vars
<1> QED
  BY <1>1, <1>2, <1>3, <1>4, <1>5, <1>6, <1>7 DEF Next, Handle

\* However deliveries race, fail and repeat, an event is queued at most once,
\* nothing is answered or queued that is not stored, and what is stored is
\* queued unless the request that stored it is still to do so or broke off.
THEOREM IntakeSafe == Spec => [](QueuedAtMostOnce /\ NothingIsInvented /\ StoredIsQueued)
<1>1. IInv => QueuedAtMostOnce /\ NothingIsInvented /\ StoredIsQueued
  BY DEF IInv
<1> QED
  BY <1>1, InitIInv, NextIInv, PTL DEF Spec

\* Whatever the deliveries do, the rows and the queue are a behaviour of EventQueue:
\* the request the unique index lets through is the one that queues the job.
THEOREM IntakeRefined == Spec => ImplementsEventQueue
<1>1. Init => Intake!Init
  BY DEF Init, Intake!Init
<1>2. IInv /\ [Next]_vars => [Intake!Next]_(Intake!vars)
  <2> SUFFICES ASSUME IInv, [Next]_vars PROVE [Intake!Next]_(Intake!vars)
    OBVIOUS
  <2>1. CASE UNCHANGED <<stored, jobs>>
    BY <2>1 DEF Intake!vars
  <2>2. ASSUME NEW d \in Deliveries, Store(d) PROVE [Intake!Next]_(Intake!vars)
    <3>1. PICK e \in Events : e = EventOf(d)
      BY <2>2 DEF IInv, HandlersOK, Store, At
    <3>2. Intake!Store(e) \/ UNCHANGED <<stored, jobs>>
      BY <2>2, <3>1 DEF Store, Intake!Store
    <3> QED BY <2>1, <3>2 DEF Intake!Next
  <2>3. ASSUME NEW d \in Deliveries, Enqueue(d) PROVE [Intake!Next]_(Intake!vars)
    <3>1. PICK e \in Events : e = EventOf(d)
      BY <2>3 DEF IInv, HandlersOK, Enqueue, At
    <3>2. e \in stored /\ jobs[e] = 0
      BY <2>3, <3>1 DEF IInv, HandlersOK, Enqueue
    <3>3. stored' = stored /\ jobs' = [jobs EXCEPT ![e] = 1]
      BY <2>3, <3>1, <3>2 DEF Enqueue, IInv, TypeOK
    <3>4. Intake!Queue(e)
      BY <3>2, <3>3 DEF Intake!Queue
    <3> QED BY <3>4 DEF Intake!Next
  <2> QED
    BY <2>1, <2>2, <2>3 DEF Next, Handle, Deliver, FindStored, Reply, EnqueueFails, Dies, vars
<1> QED
  BY <1>1, <1>2, InitIInv, NextIInv, PTL DEF Spec, ImplementsEventQueue, Intake!Spec

-------------------------------------------------------------------------------
(* Notifications: for any number of mails, failing statements and stalling *)
(* workers included.                                                       *)

\* The mail that begins after this one waits for it, and for it alone.
NextFits(m) ==
  /\ mail[m].next # {} => mail[m].pc \in {"create", "add", "mark", "catch"}
  /\ \A n \in mail[m].next : MailAt(n, "later")
  /\ \A k \in Mails : mail[m].next \cap mail[k].next # {} => m = k

\* A mail has no job before its row is there, and no worker is at it before
\* its request is over unless it overtook it; what the worker has done, and
\* how often, shows in the row unless something failed.
MailFits(m) ==
  /\ mail[m].pc \in {"idle", "later", "create", "add"} => SendingAt(m, "none")
  /\ mail[m].pc \in {"idle", "later", "create"} => mail[m].status = "none"
  /\ mail[m].status = "DELIVERED" => sent[m] > 0
  /\ SendingAt(m, "none") => sent[m] = 0
  /\ sending[m].pc \in {"sent", "completed"} => sent[m] > 0
  /\ m \notin mailBroken =>
       sent[m] = IF sending[m].pc \in {"sent", "completed"} THEN 1 ELSE 0
  /\ m \notin overtaken =>
       (sending[m].pc \notin {"none", "waiting"} => MailAt(m, "over"))
  /\ m \notin overtaken \cup mailBroken =>
       /\ SendingAt(m, "completed") => mail[m].status = "DELIVERED"
       /\ SendingAt(m, "failed") => mail[m].status = "FAILED"

LinksOK == \A m \in Mails : NextFits(m)

MailsOK == NotificationsTypeOK /\ LinksOK /\ \A m \in Mails : MailFits(m)

\* A mail nobody has touched.
LEMMA MailKept ==
  ASSUME NEW m \in Mails, MailFits(m),
         mail'[m] = mail[m], sending'[m] = sending[m], sent'[m] = sent[m],
         m \in overtaken' <=> m \in overtaken, m \in mailBroken' <=> m \in mailBroken
  PROVE  MailFits(m)'
BY DEF MailFits, MailAt, SendingAt

\* Rows that neither begin nor are over keep their links.
LEMMA LinksKept ==
  ASSUME MailsOK,
         \A m \in Mails :
           /\ mail'[m].next = mail[m].next
           /\ \/ mail'[m].pc = mail[m].pc
              \/ mail[m].pc # "later" /\ mail'[m].pc \in {"create", "add", "mark", "catch"}
  PROVE  LinksOK'
<1>1. \A m \in Mails : mail[m].next \subseteq Mails
  BY DEF MailsOK, NotificationsTypeOK, MailRow
<1>2. ASSUME NEW m \in Mails PROVE NextFits(m)'
  <2>1. NextFits(m)
    BY DEF MailsOK, LinksOK
  <2> QED BY <1>1, <2>1 DEF NextFits, MailAt
<1> QED BY <1>2 DEF LinksOK

\* A mail that begins has a row of its type.
LEMMA BeginsTyped ==
  ASSUME MailsOK, NEW to \in Addresses, NEW template \in Templates, NEW next \in SUBSET Mails
  PROVE  /\ BeginsMail(to, template, next) \in MailRow
         /\ BeginsMail(to, template, next).pc = "create"
         /\ BeginsMail(to, template, next).status = "none"
         /\ BeginsMail(to, template, next).next = next
         /\ NoMail \in MailRow
         /\ NoMail.pc = "idle" /\ NoMail.status = "none" /\ NoMail.next = {}
<1>1. NoMail \in MailRow
  BY NotificationsAssumption DEF NoMail, MailRow, Templates
<1>2. clock \in 0..LastTick
  BY DEF MailsOK, NotificationsTypeOK
<1>3. BeginsMail(to, template, next) \in MailRow
  BY <1>2, NotificationsAssumption DEF BeginsMail, NoMail, MailRow
<1> QED
  BY <1>1, <1>3 DEF BeginsMail, NoMail

\* A mail that is about to begin, or begins, has no job.
LEMMA FreshMailFits ==
  ASSUME MailsOK, NEW m \in Mails, mail[m].pc \in {"idle", "later"},
         mail'[m].pc \in {"idle", "later", "create"}, mail'[m].status = "none",
         UNCHANGED <<sending, sent, overtaken, mailBroken>>
  PROVE  MailFits(m)'
<1>1. MailFits(m) /\ SendingAt(m, "none")
  BY DEF MailsOK, MailFits
<1> QED BY <1>1 DEF MailFits, MailAt, SendingAt

\* Payments, activations and auth flows begin mails.
LEMMA BeginningKeepsMails ==
  ASSUME MailsOK,
         \/ NotifyPayment
         \/ \E m \in Mails : NotifyAuthFlow(m) \/ \E n \in Mails : NotifyActivation(m, n)
  PROVE  MailsOK'
<1>0. /\ mail \in [Mails -> MailRow] /\ clock \in 0..LastTick
      /\ LinksOK /\ \A m \in Mails : MailFits(m)
      /\ NotificationsTypeOK
  BY DEF MailsOK, NotificationsTypeOK
<1>1. ASSUME UNCHANGED <<clock, sending, sent, overtaken, mailBroken>>,
             mail' \in [Mails -> MailRow],
             \A m \in Mails :
               \/ mail'[m] = mail[m]
               \/ /\ mail[m].pc = "idle"
                  /\ mail'[m].pc \in {"later", "create"}
                  /\ mail'[m].status = "none"
                  /\ mail'[m].next # {} => mail'[m].pc = "create",
             \A m \in Mails : mail[m].pc = "idle" =>
               \A n \in mail'[m].next : mail'[n].pc = "later" /\ mail[n].pc = "idle",
             \A m, k \in Mails : mail[m].pc = "idle" /\ mail[k].pc = "idle" =>
               \A n \in mail'[m].next : n \in mail'[k].next => m = k
      PROVE  MailsOK'
  <2>1. NotificationsTypeOK'
    BY <1>0, <1>1 DEF NotificationsTypeOK
  <2>2. ASSUME NEW m \in Mails PROVE MailFits(m)'
    <3>1. CASE mail'[m] = mail[m]
      BY <1>0, <1>1, <3>1, MailKept
    <3>2. CASE mail'[m] # mail[m]
      BY <1>1, <3>2, FreshMailFits
    <3> QED BY <3>1, <3>2
  <2>3. \A m \in Mails : mail[m].next \subseteq Mails /\ mail'[m].next \subseteq Mails
    BY <1>0, <1>1 DEF MailRow
  <2>4. ASSUME NEW m \in Mails, mail[m].pc # "idle"
        PROVE  mail'[m] = mail[m] /\ \A n \in mail[m].next : mail[n].pc = "later"
    BY <1>0, <1>1, <2>4 DEF LinksOK, NextFits, MailAt
  <2>5. ASSUME NEW m \in Mails PROVE NextFits(m)'
    <3>1. mail'[m].next # {} => mail'[m].pc \in {"create", "add", "mark", "catch"}
      BY <1>0, <1>1 DEF LinksOK, NextFits
    <3>2. \A n \in mail'[m].next : MailAt(n, "later")'
      <4>1. CASE mail[m].pc = "idle"
        BY <1>1, <4>1 DEF MailAt
      <4>2. CASE mail[m].pc # "idle"
        <5>1. \A n \in mail[m].next : mail[n].pc = "later" /\ n \in Mails
          BY <2>3, <2>4, <4>2
        <5>2. \A n \in mail[m].next : mail'[n] = mail[n]
          BY <1>1, <5>1
        <5> QED BY <2>4, <4>2, <5>1, <5>2 DEF MailAt
      <4> QED BY <4>1, <4>2
    <3>3. ASSUME NEW k \in Mails, mail'[m].next \cap mail'[k].next # {}
          PROVE  m = k
      <4>1. PICK n \in mail'[m].next : n \in mail'[k].next
        BY <3>3
      <4>2. mail[m].pc = "idle" <=> mail[n].pc = "idle"
        BY <1>1, <2>4, <4>1
      <4>3. mail[k].pc = "idle" <=> mail[n].pc = "idle"
        BY <1>1, <2>4, <4>1
      <4>4. CASE mail[m].pc = "idle"
        BY <1>1, <4>1, <4>2, <4>3, <4>4
      <4>5. CASE mail[m].pc # "idle"
        <5>1. mail'[m] = mail[m] /\ mail'[k] = mail[k]
          BY <2>4, <4>2, <4>3, <4>5
        <5> QED BY <1>0, <3>3, <5>1 DEF LinksOK, NextFits
      <4> QED BY <4>4, <4>5
    <3> QED BY <3>1, <3>2, <3>3 DEF NextFits
  <2> QED BY <2>1, <2>2, <2>5 DEF MailsOK, LinksOK
<1>2. \A m \in Mails : mail[m].pc = "idle" => mail[m].next = {}
  BY <1>0 DEF LinksOK, NextFits
<1>7. ASSUME UNCHANGED <<clock, sending, sent, overtaken, mailBroken>>,
             mail' \in [Mails -> MailRow],
             \A m \in Mails :
               \/ mail'[m] = mail[m]
               \/ /\ mail[m].pc = "idle"
                  /\ mail'[m].pc = "create"
                  /\ mail'[m].status = "none"
                  /\ mail'[m].next = {}
      PROVE  MailsOK'
  <2>1. \A m \in Mails : mail[m].pc = "idle" => mail'[m].next = {}
    BY <1>2, <1>7
  <2>2. \A m \in Mails :
          \/ mail'[m] = mail[m]
          \/ /\ mail[m].pc = "idle"
             /\ mail'[m].pc \in {"later", "create"}
             /\ mail'[m].status = "none"
             /\ mail'[m].next # {} => mail'[m].pc = "create"
    BY <1>7
  <2>3. \A m \in Mails : mail[m].pc = "idle" =>
          \A n \in mail'[m].next : mail'[n].pc = "later" /\ mail[n].pc = "idle"
    BY <2>1
  <2>4. \A m, k \in Mails : mail[m].pc = "idle" /\ mail[k].pc = "idle" =>
          \A n \in mail'[m].next : n \in mail'[k].next => m = k
    BY <2>1
  <2> QED BY <1>1, <1>7, <2>2, <2>3, <2>4
<1>3. Customer \in Addresses /\ Owner \in Addresses
      /\ {"payment-customer", "payment-store", "domain-activated", "auth-flow"} \subseteq Templates
  BY DEF Addresses, Templates
<1>4. ASSUME NotifyPayment PROVE MailsOK'
  <2>0. PICK chosen \in SUBSET IdleMails : \E who \in [chosen -> PaymentRecipients] :
          mail' = [m \in Mails |->
                    IF m \in chosen THEN BeginsMail(who[m][1], who[m][2], {}) ELSE mail[m]]
    BY <1>4 DEF NotifyPayment
  <2>1. PICK who \in [chosen -> PaymentRecipients] :
          mail' = [m \in Mails |->
                    IF m \in chosen THEN BeginsMail(who[m][1], who[m][2], {}) ELSE mail[m]]
    BY <2>0
  <2>2. \A r \in PaymentRecipients : r[1] \in Addresses /\ r[2] \in Templates
    BY NotificationsAssumption DEF PaymentRecipients, Addresses, Templates
  <2>3. ASSUME NEW m \in chosen
        PROVE  /\ m \in Mails /\ mail[m].pc = "idle" /\ mail'[m] \in MailRow
               /\ mail'[m].pc = "create" /\ mail'[m].status = "none" /\ mail'[m].next = {}
    <3>1. m \in Mails /\ mail[m].pc = "idle"
      BY DEF IdleMails, MailAt
    <3>2. who[m][1] \in Addresses /\ who[m][2] \in Templates
      BY <2>2
    <3>3. mail'[m] = BeginsMail(who[m][1], who[m][2], {})
      BY <2>1, <3>1
    <3> QED BY <3>1, <3>2, <3>3, BeginsTyped
  <2>4. \A m \in Mails \ chosen : mail'[m] = mail[m]
    BY <2>1
  <2>5. mail' \in [Mails -> MailRow]
    <3>1. \A m \in Mails : mail'[m] \in MailRow
      BY <1>0, <2>3, <2>4
    <3> QED BY <2>1, <3>1
  <2>6. UNCHANGED <<clock, sending, sent, overtaken, mailBroken>>
    BY <1>4 DEF NotifyPayment
  <2> QED BY <1>7, <2>3, <2>4, <2>5, <2>6
<1>5. ASSUME NEW m \in Mails, NotifyAuthFlow(m) PROVE MailsOK'
  <2>1. mail[m].pc = "idle"
    BY <1>5 DEF NotifyAuthFlow, IdleMails, MailAt
  <2>2. /\ mail'[m] = BeginsMail(Customer, "auth-flow", {})
        /\ \A n \in Mails \ {m} : mail'[n] = mail[n]
    BY <1>0, <1>5 DEF NotifyAuthFlow
  <2>3. /\ mail'[m] \in MailRow /\ mail'[m].pc = "create"
        /\ mail'[m].status = "none" /\ mail'[m].next = {}
    BY <1>3, <2>2, BeginsTyped
  <2>4. mail' \in [Mails -> MailRow]
    BY <1>0, <1>5, <2>2, <2>3 DEF NotifyAuthFlow
  <2>5. UNCHANGED <<clock, sending, sent, overtaken, mailBroken>>
    BY <1>5 DEF NotifyAuthFlow
  <2> QED BY <1>7, <2>1, <2>2, <2>3, <2>4, <2>5
<1>6. ASSUME NEW m \in Mails, NEW n \in Mails, NotifyActivation(m, n) PROVE MailsOK'
  <2>1. mail[m].pc = "idle" /\ UNCHANGED <<clock, sending, sent, overtaken, mailBroken>>
    BY <1>6 DEF NotifyActivation, IdleMails, MailAt
  <2>2. CASE mail' = [mail EXCEPT ![m] = BeginsMail(Owner, "domain-activated", {})]
    <3>1. /\ mail'[m] = BeginsMail(Owner, "domain-activated", {})
          /\ \A k \in Mails \ {m} : mail'[k] = mail[k]
      BY <1>0, <2>2
    <3>2. /\ mail'[m] \in MailRow /\ mail'[m].pc = "create"
          /\ mail'[m].status = "none" /\ mail'[m].next = {}
      BY <1>3, <3>1, BeginsTyped
    <3>3. mail' \in [Mails -> MailRow]
      BY <1>0, <2>2, <3>1, <3>2
    <3> QED BY <1>7, <2>1, <3>1, <3>2, <3>3
  <2>3. CASE /\ n \in IdleMails \ {m}
             /\ mail' = [mail EXCEPT ![m] = BeginsMail(Owner, "domain-activated", {n}),
                                     ![n] = [NoMail EXCEPT !.pc = "later"]]
    <3>1. /\ mail'[m] = BeginsMail(Owner, "domain-activated", {n})
          /\ mail'[n] = [NoMail EXCEPT !.pc = "later"]
          /\ mail[n].pc = "idle" /\ m # n
          /\ \A k \in Mails \ {m, n} : mail'[k] = mail[k]
      BY <1>0, <2>3 DEF IdleMails, MailAt
    <3>2. /\ mail'[m] \in MailRow /\ mail'[m].pc = "create"
          /\ mail'[m].status = "none" /\ mail'[m].next = {n}
      BY <1>3, <3>1, BeginsTyped
    <3>3. NoMail \in MailRow
      BY <1>3, BeginsTyped
    <3>4. /\ mail'[n] \in MailRow /\ mail'[n].pc = "later"
          /\ mail'[n].status = "none" /\ mail'[n].next = {}
      BY <3>1, <3>3 DEF NoMail, MailRow
    <3>5. mail' \in [Mails -> MailRow]
      BY <1>0, <2>3, <3>1, <3>2, <3>4
    <3>6. \A k \in Mails :
            \/ mail'[k] = mail[k]
            \/ /\ mail[k].pc = "idle" /\ mail'[k].pc \in {"later", "create"}
               /\ mail'[k].status = "none"
               /\ mail'[k].next # {} => mail'[k].pc = "create"
      BY <2>1, <3>1, <3>2, <3>4
    <3>7. \A k \in Mails : mail[k].pc = "idle" =>
            mail'[k].next = IF k = m THEN {n} ELSE {}
      BY <1>2, <3>1, <3>2, <3>4
    <3>8. \A k \in Mails : mail[k].pc = "idle" =>
            \A j \in mail'[k].next : mail'[j].pc = "later" /\ mail[j].pc = "idle"
      <4> SUFFICES ASSUME NEW k \in Mails, mail[k].pc = "idle", NEW j \in mail'[k].next
                   PROVE  mail'[j].pc = "later" /\ mail[j].pc = "idle"
        OBVIOUS
      <4>1. j = n
        BY <3>7
      <4> QED BY <4>1, <3>1, <3>4
    <3>9. \A j, k \in Mails : mail[j].pc = "idle" /\ mail[k].pc = "idle" =>
            \A i \in mail'[j].next : i \in mail'[k].next => j = k
      BY <3>7
    <3> QED BY <1>1, <2>1, <3>5, <3>6, <3>8, <3>9
  <2> QED BY <1>6, <2>2, <2>3 DEF NotifyActivation
<1> QED
  BY <1>4, <1>5, <1>6

\* The request's statements and its failures.
LEMMA EnqueuingKeepsMails ==
  ASSUME MailsOK, NEW m \in Mails, EnqueueStep(m) \/ EnqueuingFails(m)
  PROVE  MailsOK'
<1>0. /\ mail \in [Mails -> MailRow] /\ mail[m] \in MailRow
      /\ sending \in [Mails -> SendingRow]
      /\ LinksOK /\ (\A n \in Mails : MailFits(n)) /\ MailFits(m) /\ NextFits(m)
      /\ NotificationsTypeOK
  BY DEF MailsOK, NotificationsTypeOK, LinksOK
<1>1. CreateRow(m) => MailsOK'
  <2> SUFFICES ASSUME CreateRow(m) PROVE MailsOK'
    OBVIOUS
  <2>1. /\ mail'[m] = [mail[m] EXCEPT !.pc = "add", !.status = "PENDING"]
        /\ \A n \in Mails \ {m} : mail'[n] = mail[n]
        /\ MailAt(m, "create") /\ UNCHANGED <<clock, sending, sent, overtaken, mailBroken>>
    BY <1>0 DEF CreateRow
  <2>2. /\ mail'[m].pc = "add" /\ mail'[m].status = "PENDING" /\ mail'[m].next = mail[m].next
        /\ mail'[m] \in MailRow
    BY <1>0, <2>1 DEF MailRow
  <2>3. NotificationsTypeOK'
    BY <1>0, <2>1, <2>2 DEF CreateRow, NotificationsTypeOK
  <2>4. MailFits(m)'
    BY <1>0, <2>1, <2>2 DEF MailFits, MailAt, SendingAt
  <2>5. \A n \in Mails : MailFits(n)'
    BY <1>0, <2>1, <2>4, MailKept
  <2>7. LinksOK'
    BY <1>0, <2>1, <2>2, LinksKept DEF MailAt
  <2> QED BY <2>3, <2>5, <2>7 DEF MailsOK
<1>2. ASSUME NEW pc \in {"mark", "catch"}, mail' = [mail EXCEPT ![m].pc = pc],
             mail[m].pc \in {"add", "mark"}, UNCHANGED <<clock, sent, overtaken>>,
             sending' = sending \/
               (SendingAt(m, "none") /\ sending' = [sending EXCEPT ![m].pc = "waiting"]),
             mailBroken' = mailBroken \/ mailBroken' = mailBroken \cup {m}
      PROVE  MailsOK'
  <2>1. /\ mail'[m].pc = pc /\ mail'[m].status = mail[m].status /\ mail'[m].next = mail[m].next
        /\ \A n \in Mails \ {m} : mail'[n] = mail[n]
        /\ mail' \in [Mails -> MailRow]
    BY <1>0, <1>2 DEF MailRow
  <2>2. /\ sending' \in [Mails -> SendingRow]
        /\ \A n \in Mails \ {m} : sending'[n] = sending[n]
        /\ sending'[m].pc = sending[m].pc \/ (SendingAt(m, "none") /\ sending'[m].pc = "waiting")
    BY <1>0, <1>2 DEF SendingRow
  <2>3. NotificationsTypeOK'
    BY <1>0, <1>2, <2>1, <2>2 DEF NotificationsTypeOK
  <2>4. MailFits(m)'
    BY <1>0, <1>2, <2>1, <2>2 DEF MailFits, MailAt, SendingAt
  <2>5. \A n \in Mails : MailFits(n)'
    BY <1>0, <1>2, <2>1, <2>2, <2>4, MailKept
  <2>7. LinksOK'
    BY <1>0, <1>2, <2>1, LinksKept DEF MailAt
  <2> QED BY <2>3, <2>5, <2>7 DEF MailsOK
<1>3. AddJob(m) => MailsOK'
  <2>1. AddJob(m) => SendingAt(m, "none")
    BY <1>0 DEF AddJob, MailFits, MailAt
  <2> QED BY <1>2, <2>1 DEF AddJob, MailAt
<1>4. EnqueuingFails(m) => MailsOK'
  BY <1>2 DEF EnqueuingFails
<1>5. ASSUME NEW status \in {"QUEUED", "FAILED"}, mail[m].pc \in {"mark", "catch"},
             status = "FAILED" => MailAt(m, "catch"),
             UNCHANGED <<clock, sending, sent, overtaken, mailBroken>>,
             mail'[m] = [mail[m] EXCEPT !.pc = "over", !.status = status, !.next = {}],
             \A n \in Mails \ {m} :
               IF n \in mail[m].next
               THEN /\ mail'[n] \in MailRow
                    /\ mail'[n].pc \in {"idle", "create"}
                    /\ mail'[n].status = "none" /\ mail'[n].next = {}
               ELSE mail'[n] = mail[n],
             DOMAIN mail' = Mails, mail' = [n \in Mails |-> mail'[n]]
      PROVE  MailsOK'
  <2>1. /\ mail'[m].pc = "over" /\ mail'[m].status = status /\ mail'[m].next = {}
        /\ mail'[m] \in MailRow
    BY <1>0, <1>5 DEF MailRow
  <2>2. /\ m \notin mail[m].next /\ mail[m].next \subseteq Mails
        /\ \A n \in mail[m].next : mail[n].pc = "later"
    BY <1>0, <1>5 DEF NextFits, MailAt, MailRow
  <2>3. mail' \in [Mails -> MailRow]
    <3>1. \A n \in Mails : mail'[n] \in MailRow
      BY <1>0, <1>5, <2>1
    <3> QED BY <1>5, <3>1
  <2>4. NotificationsTypeOK'
    BY <1>0, <1>5, <2>3 DEF NotificationsTypeOK
  <2>5. MailFits(m)'
    BY <1>0, <1>5, <2>1 DEF MailFits, MailAt, SendingAt
  <2>6. ASSUME NEW n \in Mails \ {m} PROVE MailFits(n)'
    <3>1. CASE n \in mail[m].next
      BY <1>5, <2>2, <3>1, FreshMailFits
    <3>2. CASE n \notin mail[m].next
      BY <1>0, <1>5, <3>2, MailKept
    <3> QED BY <3>1, <3>2
  <2>7. ASSUME NEW n \in Mails PROVE NextFits(n)'
    <3>1. CASE mail'[n].next = {}
      BY <3>1 DEF NextFits
    <3>2. CASE mail'[n].next # {}
      <4>1. n # m /\ n \notin mail[m].next /\ mail'[n] = mail[n] /\ NextFits(n)
        BY <1>0, <1>5, <2>1, <3>2 DEF LinksOK
      <4>2. \A k \in mail[n].next : k \in Mails /\ k # m /\ k \notin mail[m].next
        BY <1>0, <1>5, <2>2, <4>1 DEF NextFits, MailAt, MailRow
      <4>3. \A k \in mail'[n].next : MailAt(k, "later")'
        BY <1>5, <4>1, <4>2 DEF NextFits, MailAt
      <4>4. ASSUME NEW k \in Mails, mail'[n].next \cap mail'[k].next # {} PROVE n = k
        <5>1. k # m /\ k \notin mail[m].next
          BY <1>5, <2>1, <4>4
        <5>2. mail'[k] = mail[k]
          BY <1>5, <5>1
        <5> QED BY <4>1, <4>4, <5>2 DEF NextFits
      <4> QED BY <4>1, <4>3, <4>4 DEF NextFits
    <3> QED BY <3>1, <3>2
  <2> QED BY <2>4, <2>5, <2>6, <2>7 DEF MailsOK, LinksOK
<1>6. MarkQueued(m) => MailsOK'
  <2> SUFFICES ASSUME MarkQueued(m) PROVE MailsOK'
    OBVIOUS
  <2>1. MailAt(m, "mark") /\ UNCHANGED <<clock, sending, sent, overtaken, mailBroken>>
    BY DEF MarkQueued
  <2> DEFINE body(n) ==
        CASE n = m -> [mail[m] EXCEPT !.pc = "over", !.status = "QUEUED", !.next = {}]
          [] n \in mail[m].next -> BeginsMail(SupportIs, "domain-activated", {})
          [] OTHER -> mail[n]
  <2>8. m \notin mail[m].next
    BY <1>0, <2>1 DEF MailAt, NextFits
  <2>6. body(m) = [mail[m] EXCEPT !.pc = "over", !.status = "QUEUED", !.next = {}]
    BY <2>8
  <2>7. mail' = [n \in Mails |-> body(n)]
    BY DEF MarkQueued
  <2> HIDE DEF body
  <2>2. /\ mail'[m] = [mail[m] EXCEPT !.pc = "over", !.status = "QUEUED", !.next = {}]
        /\ mail' = [n \in Mails |-> mail'[n]]
    BY <2>6, <2>7
  <2>5. ASSUME NEW n \in Mails \ {m}
        PROVE  mail'[n] = IF n \in mail[m].next THEN BeginsMail(SupportIs, "domain-activated", {})
                          ELSE mail[n]
    <3>1. CASE n \in mail[m].next
      BY <3>1 DEF MarkQueued
    <3>2. CASE n \notin mail[m].next
      BY <3>2 DEF MarkQueued
    <3> QED BY <3>1, <3>2
  <2>3. BeginsMail(SupportIs, "domain-activated", {}) \in MailRow
    <3>1. clock \in 0..LastTick
      BY <1>0 DEF NotificationsTypeOK
    <3> QED
      BY <3>1, NotificationsAssumption DEF BeginsMail, NoMail, MailRow, Addresses, Templates
  <2>4. /\ BeginsMail(SupportIs, "domain-activated", {}).pc = "create"
        /\ BeginsMail(SupportIs, "domain-activated", {}).status = "none"
        /\ BeginsMail(SupportIs, "domain-activated", {}).next = {}
    BY DEF BeginsMail, NoMail
  <2> QED BY <1>5, <2>1, <2>2, <2>3, <2>4, <2>5 DEF MailAt
<1>7. MarkMailFailed(m) => MailsOK'
  <2> SUFFICES ASSUME MarkMailFailed(m) PROVE MailsOK'
    OBVIOUS
  <2>1. MailAt(m, "catch") /\ UNCHANGED <<clock, sending, sent, overtaken, mailBroken>>
    BY DEF MarkMailFailed
  <2> DEFINE body(n) ==
        CASE n = m -> [mail[m] EXCEPT !.pc = "over", !.status = "FAILED", !.next = {}]
          [] n \in mail[m].next -> NoMail
          [] OTHER -> mail[n]
  <2>8. m \notin mail[m].next
    BY <1>0, <2>1 DEF MailAt, NextFits
  <2>6. body(m) = [mail[m] EXCEPT !.pc = "over", !.status = "FAILED", !.next = {}]
    BY <2>8
  <2>7. mail' = [n \in Mails |-> body(n)]
    BY DEF MarkMailFailed
  <2> HIDE DEF body
  <2>2. /\ mail'[m] = [mail[m] EXCEPT !.pc = "over", !.status = "FAILED", !.next = {}]
        /\ mail' = [n \in Mails |-> mail'[n]]
    BY <2>6, <2>7
  <2>5. ASSUME NEW n \in Mails \ {m}
        PROVE  mail'[n] = IF n \in mail[m].next THEN NoMail
                          ELSE mail[n]
    <3>1. CASE n \in mail[m].next
      BY <3>1 DEF MarkMailFailed
    <3>2. CASE n \notin mail[m].next
      BY <3>2 DEF MarkMailFailed
    <3> QED BY <3>1, <3>2
  <2>3. NoMail \in MailRow
    BY NotificationsAssumption DEF NoMail, MailRow, Templates
  <2>4. NoMail.pc = "idle" /\ NoMail.status = "none" /\ NoMail.next = {}
    BY DEF NoMail
  <2> QED BY <1>5, <2>1, <2>2, <2>3, <2>4, <2>5 DEF MailAt
<1> QED
  BY <1>1, <1>3, <1>4, <1>6, <1>7 DEF EnqueueStep

\* The worker's statements and its failures.
LEMMA SendingKeepsMails ==
  ASSUME MailsOK, NEW m \in Mails, SendingStep(m) \/ SendingBreaks(m)
  PROVE  MailsOK'
<1>0. /\ mail \in [Mails -> MailRow] /\ mail[m] \in MailRow
      /\ sending \in [Mails -> SendingRow] /\ sending[m] \in SendingRow
      /\ sent \in [Mails -> Nat]
      /\ LinksOK /\ (\A n \in Mails : MailFits(n)) /\ MailFits(m)
      /\ NotificationsTypeOK
  BY DEF MailsOK, NotificationsTypeOK
<1>1. SendAgain(m) \in SendingRow /\ SendAgain(m).pc \in {"waiting", "failed"}
  BY <1>0, NotificationsAssumption DEF SendAgain, SendingRow
<1>2. ASSUME UNCHANGED clock, mail' \in [Mails -> MailRow], sending' \in [Mails -> SendingRow],
             sent' \in [Mails -> Nat], overtaken' \subseteq Mails, mailBroken' \subseteq Mails,
             \A n \in Mails : mail'[n].next = mail[n].next /\ mail'[n].pc = mail[n].pc,
             MailFits(m)',
             \A n \in Mails \ {m} :
               /\ mail'[n] = mail[n] /\ sending'[n] = sending[n] /\ sent'[n] = sent[n]
               /\ n \in overtaken' <=> n \in overtaken
               /\ n \in mailBroken' <=> n \in mailBroken
      PROVE  MailsOK'
  BY <1>0, <1>2, LinksKept, MailKept DEF MailsOK, NotificationsTypeOK
<1>3. overtaken \subseteq Mails /\ mailBroken \subseteq Mails
  BY <1>0 DEF NotificationsTypeOK
<1>4. CASE TakeMail(m)
  <2>1. /\ sending'[m].pc = "send" /\ sending' \in [Mails -> SendingRow]
        /\ \A n \in Mails \ {m} : sending'[n] = sending[n]
        /\ UNCHANGED <<clock, mail, sent, mailBroken>>
    BY <1>0, <1>4 DEF TakeMail, SendingRow
  <2>2. MailFits(m)'
    BY <1>0, <1>4, <2>1 DEF TakeMail, MailFits, MailAt, SendingAt
  <2>3. /\ overtaken' \subseteq Mails
        /\ \A n \in Mails \ {m} : n \in overtaken' <=> n \in overtaken
    BY <1>3, <1>4 DEF TakeMail
  <2> QED BY <1>0, <1>2, <1>3, <2>1, <2>2, <2>3
<1>5. CASE SendMail(m)
  <2>1. /\ sending' \in [Mails -> SendingRow]
        /\ \A n \in Mails \ {m} : sending'[n] = sending[n]
        /\ \A n \in Mails \ {m} : sent'[n] = sent[n]
        /\ sent' \in [Mails -> Nat]
        /\ \/ sending'[m].pc = "sent" /\ sent'[m] = sent[m] + 1
           \/ sending'[m].pc = "refused" /\ sent'[m] = sent[m]
    BY <1>0, <1>5 DEF SendMail, SendingRow
  <2>2. sent[m] \in Nat
    BY <1>0
  <2>3. SendingAt(m, "send") /\ UNCHANGED <<clock, mail, overtaken, mailBroken>>
    BY <1>5 DEF SendMail
  <2>4. MailFits(m)'
    BY <1>0, <2>1, <2>2, <2>3 DEF MailFits, MailAt, SendingAt
  <2> QED BY <1>0, <1>2, <1>3, <2>1, <2>3, <2>4
<1>6. CASE RecordDelivered(m)
  <2>1. /\ sending' \in [Mails -> SendingRow] /\ sending'[m].pc = "completed"
        /\ \A n \in Mails \ {m} : sending'[n] = sending[n]
    BY <1>0, <1>6 DEF RecordDelivered, SendingRow
  <2>2. /\ mail' \in [Mails -> MailRow] /\ mail'[m].status = "DELIVERED"
        /\ \A n \in Mails : mail'[n].next = mail[n].next /\ mail'[n].pc = mail[n].pc
        /\ \A n \in Mails \ {m} : mail'[n] = mail[n]
    BY <1>0, <1>6 DEF RecordDelivered, MailRow
  <2>3. SendingAt(m, "sent") /\ UNCHANGED <<clock, sent, overtaken, mailBroken>>
    BY <1>6 DEF RecordDelivered
  <2>4. MailFits(m)'
    BY <1>0, <2>1, <2>2, <2>3 DEF MailFits, MailAt, SendingAt
  <2> QED BY <1>0, <1>2, <1>3, <2>1, <2>2, <2>3, <2>4
<1>7. CASE RecordRefused(m)
  <2>1. /\ sending' \in [Mails -> SendingRow] /\ sending'[m].pc \in {"waiting", "failed"}
        /\ \A n \in Mails \ {m} : sending'[n] = sending[n]
    BY <1>0, <1>1, <1>7 DEF RecordRefused
  <2>2. /\ mail' \in [Mails -> MailRow] /\ mail'[m].status = "FAILED"
        /\ \A n \in Mails : mail'[n].next = mail[n].next /\ mail'[n].pc = mail[n].pc
        /\ \A n \in Mails \ {m} : mail'[n] = mail[n]
    BY <1>0, <1>7 DEF RecordRefused, MailRow
  <2>3. SendingAt(m, "refused") /\ UNCHANGED <<clock, sent, overtaken, mailBroken>>
    BY <1>7 DEF RecordRefused
  <2>4. MailFits(m)'
    BY <1>0, <2>1, <2>2, <2>3 DEF MailFits, MailAt, SendingAt
  <2> QED BY <1>0, <1>2, <1>3, <2>1, <2>2, <2>3, <2>4
<1>8. CASE SendingBreaks(m)
  <2>1. /\ sending' \in [Mails -> SendingRow] /\ sending'[m].pc \in {"waiting", "failed"}
        /\ \A n \in Mails \ {m} : sending'[n] = sending[n]
    BY <1>0, <1>1, <1>8 DEF SendingBreaks
  <2>2. /\ sending[m].pc \in {"send", "sent", "refused"}
        /\ mailBroken' = mailBroken \cup {m} /\ UNCHANGED <<clock, mail, sent, overtaken>>
    BY <1>8 DEF SendingBreaks
  <2>3. MailFits(m)'
    BY <1>0, <2>1, <2>2 DEF MailFits, MailAt, SendingAt
  <2> QED BY <1>0, <1>2, <1>3, <2>1, <2>2, <2>3
<1> QED
  BY <1>4, <1>5, <1>6, <1>7, <1>8 DEF SendingStep

\* At first there is no mail.
LEMMA InitMails == NotificationsInit => MailsOK
<1> SUFFICES ASSUME NotificationsInit PROVE MailsOK
  OBVIOUS
<1>1. NoMail \in MailRow /\ NoMail.pc = "idle" /\ NoMail.status = "none" /\ NoMail.next = {}
  BY NotificationsAssumption DEF NoMail, MailRow, Templates
<1>2. NotificationsTypeOK
  BY <1>1, NotificationsAssumption DEF NotificationsInit, NotificationsTypeOK, SendingRow
<1>3. \A m \in Mails : NextFits(m) /\ MailFits(m)
  BY <1>1 DEF NotificationsInit, NextFits, MailFits, MailAt, SendingAt
<1> QED BY <1>2, <1>3 DEF MailsOK, LinksOK

\* Every step keeps the invariant of the mails.
LEMMA NextMails == MailsOK /\ [NotificationsNext]_mailVars => MailsOK'
<1>1. ASSUME MailsOK, TimePasses PROVE MailsOK'
  <2>1. NotificationsTypeOK'
    BY <1>1, NotificationsAssumption DEF TimePasses, MailsOK, NotificationsTypeOK
  <2>2. LinksOK' /\ \A m \in Mails : MailFits(m)'
    BY <1>1, LinksKept, MailKept DEF TimePasses, MailsOK
  <2> QED BY <2>1, <2>2 DEF MailsOK
<1>2. ASSUME MailsOK, UNCHANGED mailVars PROVE MailsOK'
  <2>1. LinksOK' /\ \A m \in Mails : MailFits(m)'
    BY <1>2, LinksKept, MailKept DEF mailVars, MailsOK
  <2> QED BY <1>2, <2>1 DEF mailVars, MailsOK, NotificationsTypeOK
<1> QED
  BY <1>1, <1>2, BeginningKeepsMails, EnqueuingKeepsMails, SendingKeepsMails
  DEF NotificationsNext

\* Whatever fails or stalls, a mail goes once unless its worker broke, no row
\* says DELIVERED of a mail that was not sent, and once both are done the row
\* tells what became of the mail unless the worker overtook the request.
THEOREM MailsSafe == NotificationsSpec => [](NotificationsTypeOK /\ MailsAreAccountedFor)
<1>1. MailsOK => NotificationsTypeOK /\ MailsAreAccountedFor
  <2> SUFFICES ASSUME MailsOK PROVE OutcomeIsRecorded /\ SentOnce
    BY DEF MailsAreAccountedFor, MailsOK
  <2>1. ASSUME NEW m \in Mails
        PROVE  /\ m \notin mailBroken => sent[m] <= 1
               /\ mail[m].status = "DELIVERED" => sent[m] > 0
               /\ m \notin overtaken \cup mailBroken /\ Settled(m) =>
                    mail[m].status = IF sent[m] > 0 THEN "DELIVERED" ELSE "FAILED"
    <3>1. MailFits(m)
      BY DEF MailsOK
    <3> QED BY <3>1 DEF MailFits, Settled, MailAt, SendingAt
  <2> QED BY <2>1 DEF OutcomeIsRecorded, SentOnce
<1> QED
  BY <1>1, InitMails, NextMails, PTL DEF NotificationsSpec

-------------------------------------------------------------------------------
(* The mails' jobs and the queue's policy, as RetriedJobs has it.          *)

\* A mail that is not given up has an attempt left.
TriesOK == \A m \in Mails : sending[m].pc # "failed" => sending[m].tries < MaxSends

\* What the queue sees of a row of sending.
StateIn(entry) == IF entry.pc \in {"send", "sent", "refused"} THEN "active" ELSE entry.pc

\* A step that writes one mail's sending row is a step of the policy, or the worker's
\* going on with a job that stays active.
LEMMA MailGoes ==
  ASSUME sending \in [Mails -> SendingRow], TriesOK, NEW m \in Mails, NEW entry \in SendingRow,
         sending' = [sending EXCEPT ![m] = entry],
         \/ /\ entry.tries = sending[m].tries
            /\ \/ sending[m].pc = "none" /\ entry.pc = "waiting"
               \/ sending[m].pc = "waiting" /\ StateIn(entry) = "active"
               \/ StateIn(sending[m]) = "active" /\ StateIn(entry) = "active"
               \/ StateIn(sending[m]) = "active" /\ entry.pc = "completed"
         \/ /\ StateIn(sending[m]) = "active"
            /\ entry = SendAgain(m)
  PROVE  /\ TriesOK'
         /\ [SendRetries!Next]_(SendRetries!vars)
<1> DEFINE S == [n \in Mails |-> SendState(n)]
           F == [n \in Mails |-> sending[n].tries]
<1>0. MaxSends \in Nat \ {0} /\ sending[m].tries \in Nat
  BY NotificationsAssumption DEF SendingRow
<1>1. S[m] = StateIn(sending[m]) /\ F[m] = sending[m].tries
  BY DEF SendState, StateIn
<1>2. /\ sending'[m] = entry
      /\ \A n \in Mails \ {m} : sending'[n] = sending[n]
  OBVIOUS
<1>3. S' = [S EXCEPT ![m] = StateIn(entry)]
  BY <1>2 DEF SendState, StateIn
<1>4. F' = [F EXCEPT ![m] = entry.tries]
  BY <1>2
<1>5. CASE /\ entry.tries = sending[m].tries
           /\ \/ sending[m].pc = "none" /\ entry.pc = "waiting"
              \/ sending[m].pc = "waiting" /\ StateIn(entry) = "active"
              \/ StateIn(sending[m]) = "active" /\ StateIn(entry) = "active"
              \/ StateIn(sending[m]) = "active" /\ entry.pc = "completed"
  <2>1. F' = F
    BY <1>1, <1>4, <1>5
  <2>2. TriesOK'
    <3>1. sending[m].pc # "failed" /\ sending[m].tries < MaxSends
      BY <1>5 DEF StateIn, TriesOK
    <3> QED BY <1>2, <1>5, <3>1 DEF TriesOK
  <2>3. CASE sending[m].pc = "none" /\ entry.pc = "waiting"
    <3>1. SendRetries!Add(m)
      BY <1>1, <1>3, <2>1, <2>3 DEF StateIn, SendRetries!Add, SendRetries!Goes
    <3> QED BY <2>2, <3>1 DEF SendRetries!Next
  <2>4. CASE sending[m].pc = "waiting" /\ StateIn(entry) = "active"
    <3>1. S[m] = "waiting"
      BY <1>1, <2>4 DEF StateIn
    <3>2. SendRetries!Take(m)
      BY <1>3, <2>1, <2>4, <3>1 DEF SendRetries!Take, SendRetries!Goes
    <3> QED BY <2>2, <3>2 DEF SendRetries!Next
  <2>5. CASE StateIn(sending[m]) = "active" /\ StateIn(entry) = "active"
    <3>1. S' = S
      BY <1>1, <1>3, <2>5
    <3> QED BY <2>1, <2>2, <3>1 DEF SendRetries!vars
  <2>6. CASE StateIn(sending[m]) = "active" /\ entry.pc = "completed"
    <3>1. StateIn(entry) = "completed"
      BY <2>6 DEF StateIn
    <3>2. SendRetries!Succeed(m)
      BY <1>1, <1>3, <2>1, <2>6, <3>1 DEF SendRetries!Succeed, SendRetries!Goes
    <3> QED BY <2>2, <3>2 DEF SendRetries!Next
  <2> QED BY <1>5, <2>3, <2>4, <2>5, <2>6
<1>6. CASE StateIn(sending[m]) = "active" /\ entry = SendAgain(m)
  <2>1. sending[m].tries < MaxSends
    BY <1>6 DEF StateIn, TriesOK
  <2>2. /\ entry.tries = sending[m].tries + 1
        /\ entry.pc = IF sending[m].tries + 1 < MaxSends THEN "waiting" ELSE "failed"
    <3>1. CASE sending[m].tries + 1 < MaxSends
      BY <1>6, <3>1 DEF SendAgain
    <3>2. CASE ~(sending[m].tries + 1 < MaxSends)
      <4>1. entry = [pc |-> "failed", tries |-> MaxSends]
        BY <1>6, <3>2 DEF SendAgain
      <4>2. MaxSends = sending[m].tries + 1
        BY <1>0, <2>1, <3>2
      <4> QED BY <3>2, <4>1, <4>2
    <3> QED BY <3>1, <3>2
  <2>3. TriesOK'
    BY <1>2, <2>2 DEF TriesOK
  <2>4. F' = [F EXCEPT ![m] = F[m] + 1]
    BY <1>1, <1>4, <2>2
  <2>5. StateIn(entry) = IF F[m] + 1 < MaxSends THEN "waiting" ELSE "failed"
    BY <1>1, <2>2 DEF StateIn
  <2>6. S[m] = "active"
    BY <1>1, <1>6
  <2>7. S' = [S EXCEPT ![m] = IF F[m] + 1 < MaxSends THEN "waiting" ELSE "failed"]
    BY <1>3, <2>5
  <2>8. SendRetries!Fail(m)
    BY <2>4, <2>6, <2>7 DEF SendRetries!Fail, SendRetries!Goes
  <2> QED BY <2>3, <2>8 DEF SendRetries!Next
<1> QED BY <1>5, <1>6

\* The worker writes the sending row of its own mail.
LEMMA SendingRetries ==
  ASSUME MailsOK, TriesOK, NEW m \in Mails, SendingStep(m) \/ SendingBreaks(m)
  PROVE  TriesOK' /\ [SendRetries!Next]_(SendRetries!vars)
<1>0. sending \in [Mails -> SendingRow] /\ sending[m] \in SendingRow
  BY DEF MailsOK, NotificationsTypeOK
<1>1. SendAgain(m) \in SendingRow
  BY <1>0, NotificationsAssumption DEF SendAgain, SendingRow
<1>2. ASSUME NEW pc \in {"send", "sent", "refused", "completed"},
             sending' = [sending EXCEPT ![m].pc = pc],
             \/ SendingAt(m, "waiting") /\ pc = "send"
             \/ SendingAt(m, "send") /\ pc \in {"sent", "refused"}
             \/ SendingAt(m, "sent") /\ pc = "completed"
      PROVE  TriesOK' /\ [SendRetries!Next]_(SendRetries!vars)
  <2>1. [sending[m] EXCEPT !.pc = pc] \in SendingRow
    BY <1>0, <1>2 DEF SendingRow
  <2>2. PICK entry \in SendingRow : entry = [sending[m] EXCEPT !.pc = pc]
    BY <2>1
  <2>3. entry.pc = pc /\ entry.tries = sending[m].tries
    BY <1>0, <2>2 DEF SendingRow
  <2>4. sending' = [sending EXCEPT ![m] = entry]
    BY <1>0, <1>2, <2>2
  <2>5. CASE SendingAt(m, "waiting") /\ pc = "send"
    <3>1. sending[m].pc = "waiting" /\ StateIn(entry) = "active"
      BY <2>3, <2>5 DEF SendingAt, StateIn
    <3> QED BY <1>0, <2>3, <2>4, <3>1, MailGoes
  <2>6. CASE SendingAt(m, "send") /\ pc \in {"sent", "refused"}
    <3>1. StateIn(sending[m]) = "active" /\ StateIn(entry) = "active"
      BY <2>3, <2>6 DEF SendingAt, StateIn
    <3> QED BY <1>0, <2>3, <2>4, <3>1, MailGoes
  <2>7. CASE SendingAt(m, "sent") /\ pc = "completed"
    <3>1. StateIn(sending[m]) = "active" /\ entry.pc = "completed"
      BY <2>3, <2>7 DEF SendingAt, StateIn
    <3> QED BY <1>0, <2>3, <2>4, <3>1, MailGoes
  <2> QED BY <1>2, <2>5, <2>6, <2>7
<1>3. CASE TakeMail(m)
  BY <1>2, <1>3 DEF TakeMail
<1>4. CASE SendMail(m)
  BY <1>2, <1>4 DEF SendMail
<1>5. CASE RecordDelivered(m)
  BY <1>2, <1>5 DEF RecordDelivered
<1>6. CASE RecordRefused(m) \/ SendingBreaks(m)
  <2>1. StateIn(sending[m]) = "active"
    BY <1>6 DEF RecordRefused, SendingBreaks, SendingAt, StateIn
  <2>2. sending' = [sending EXCEPT ![m] = SendAgain(m)]
    BY <1>6 DEF RecordRefused, SendingBreaks
  <2>3. PICK entry \in SendingRow : entry = SendAgain(m)
    BY <1>1
  <2> QED BY <1>0, <2>1, <2>2, <2>3, MailGoes
<1> QED BY <1>3, <1>4, <1>5, <1>6 DEF SendingStep

\* However statements fail and workers die, a mail's job is retried by the queue's
\* policy and by nothing else.
THEOREM MailsRetried == NotificationsSpec => RetriesMails
<1>1. NotificationsInit => SendRetries!Init /\ TriesOK
  BY NotificationsAssumption DEF NotificationsInit, SendRetries!Init, SendState, TriesOK
<1>2. MailsOK /\ TriesOK /\ [NotificationsNext]_mailVars
        => TriesOK' /\ [SendRetries!Next]_(SendRetries!vars)
  <2> SUFFICES ASSUME MailsOK, TriesOK, [NotificationsNext]_mailVars
               PROVE  TriesOK' /\ [SendRetries!Next]_(SendRetries!vars)
    OBVIOUS
  <2>1. CASE UNCHANGED sending
    BY <2>1 DEF TriesOK, SendRetries!vars, SendState
  <2>2. ASSUME NEW m \in Mails, AddJob(m)
        PROVE  TriesOK' /\ [SendRetries!Next]_(SendRetries!vars)
    <3>0. sending \in [Mails -> SendingRow] /\ sending[m].pc = "none"
      BY <2>2 DEF MailsOK, NotificationsTypeOK, MailFits, AddJob, MailAt, SendingAt
    <3>1. CASE sending' = [sending EXCEPT ![m].pc = "waiting"]
      <4>1. [sending[m] EXCEPT !.pc = "waiting"] \in SendingRow
        BY <3>0 DEF SendingRow
      <4>2. PICK entry \in SendingRow : entry = [sending[m] EXCEPT !.pc = "waiting"]
        BY <4>1
      <4>3. entry.pc = "waiting" /\ entry.tries = sending[m].tries
        BY <3>0, <4>2 DEF SendingRow
      <4>4. sending' = [sending EXCEPT ![m] = entry]
        BY <3>0, <3>1, <4>2
      <4> QED BY <3>0, <4>3, <4>4, MailGoes
    <3> QED BY <2>1, <2>2, <3>1 DEF AddJob
  <2>3. ASSUME NEW m \in Mails,
               CreateRow(m) \/ MarkQueued(m) \/ MarkMailFailed(m) \/ EnqueuingFails(m)
        PROVE  UNCHANGED sending
    BY <2>3 DEF CreateRow, MarkQueued, MarkMailFailed, EnqueuingFails
  <2>4. ASSUME \/ TimePasses \/ NotifyPayment
               \/ \E m \in Mails : NotifyAuthFlow(m) \/ \E n \in Mails : NotifyActivation(m, n)
        PROVE  UNCHANGED sending
    BY <2>4 DEF TimePasses, NotifyPayment, NotifyAuthFlow, NotifyActivation
  <2>5. CASE UNCHANGED mailVars
    BY <2>1, <2>5 DEF mailVars
  <2> QED
    BY <2>1, <2>2, <2>3, <2>4, <2>5, SendingRetries DEF NotificationsNext, EnqueueStep
<1> QED
  BY <1>1, <1>2, InitMails, NextMails, PTL
  DEF NotificationsSpec, RetriesMails, SendRetries!Spec

\* What the policy promises: a mail is given up after MaxSends failures, and no earlier.
LEMMA MailsGivenUpAtTheLimit == RetriesMails => []SendRetries!GivenUpAtTheLimit
<1> DEFINE S == [n \in Mails |-> SendState(n)]
           F == [n \in Mails |-> sending[n].tries]
           Limit == /\ \A n \in Mails : F[n] \in 0..MaxSends
                    /\ \A n \in Mails : S[n] = "failed" <=> F[n] = MaxSends
<1>0. MaxSends \in Nat \ {0}
  BY NotificationsAssumption
<1>1. SendRetries!Init => Limit
  BY <1>0 DEF SendRetries!Init
<1>2. Limit /\ [SendRetries!Next]_(SendRetries!vars) => Limit'
  <2> SUFFICES ASSUME Limit, [SendRetries!Next]_(SendRetries!vars) PROVE Limit'
    OBVIOUS
  <2>1. CASE UNCHANGED SendRetries!vars
    <3>1. S' = S /\ F' = F
      BY <2>1 DEF SendRetries!vars
    <3> HIDE DEF S, F
    <3> QED BY <3>1
  <2>2. ASSUME NEW m \in Mails,
               \/ SendRetries!Add(m) \/ SendRetries!Take(m)
               \/ SendRetries!Succeed(m) \/ SendRetries!Fail(m)
        PROVE  Limit'
    <3>1. PICK to \in {"waiting", "active", "completed", "failed"} :
            /\ S' = [S EXCEPT ![m] = to]
            /\ S[m] # "failed"
            /\ \/ to # "failed" /\ F' = F
               \/ /\ F' = [F EXCEPT ![m] = F[m] + 1]
                  /\ to = IF F[m] + 1 < MaxSends THEN "waiting" ELSE "failed"
      BY <2>2
      DEF SendRetries!Add, SendRetries!Take, SendRetries!Succeed, SendRetries!Fail,
          SendRetries!Goes
    <3>2. DOMAIN S = Mails /\ DOMAIN F = Mails
      OBVIOUS
    <3> HIDE DEF S, F
    <3>3. F[m] < MaxSends /\ F[m] \in Nat
      BY <1>0, <3>1
    <3>4. \A n \in Mails \ {m} : S'[n] = S[n] /\ F'[n] = F[n]
      BY <3>1, <3>2
    <3>5. S'[m] = to /\ F'[m] \in 0..MaxSends /\ (to = "failed" <=> F'[m] = MaxSends)
      BY <1>0, <3>1, <3>2, <3>3
    <3> QED BY <3>4, <3>5
  <2> QED BY <2>1, <2>2 DEF SendRetries!Next
<1>3. Limit => SendRetries!GivenUpAtTheLimit
  BY DEF SendRetries!GivenUpAtTheLimit
<1> HIDE DEF Limit
<1> QED BY <1>1, <1>2, <1>3, PTL DEF RetriesMails, SendRetries!Spec

-------------------------------------------------------------------------------
(* Members *)

IsRow(r, kind, s, p) == row[r].kind = kind /\ row[r].shop = s /\ row[r].person = p

\* A membership is of a person with an account, in an open store, the only one
\* of that person there, and its role is STORE_OWNER only for who owns the store.
RowFits(r) ==
  LET s == row[r].shop
      p == row[r].person
  IN /\ row[r].kind \in {"member", "invite"} => s \in Open
     /\ row[r].kind = "member" =>
          /\ p \in registered
          /\ row[r].role = "STORE_OWNER" => p = shop[s].owner
          /\ \A other \in MemberRows : IsRow(other, "member", s, p) => other = r

\* An open store keeps the membership its owner was given, and has taken the
\* first candidate that was free.
ShopFits(s) ==
  LET tries == Candidates[shop[s].slug] IN
  s \in Open =>
    /\ shop[s].slug \in Slugs
    /\ shop[s].made = "fixture"
       \/ \E r \in MemberRows : /\ IsRow(r, "member", s, shop[s].owner)
                                /\ row[r].role = "STORE_OWNER"
    /\ shop[s].made = "registration" =>
         \A k \in 1..Len(tries) : \A j \in 1..(k - 1) :
           shop[s].subdomain = tries[k]
           => \E other \in Open \ {s} : shop[other].subdomain = tries[j]

\* The candidates before n are the subdomains of stores, or the slug is in use.
PassedOver(slug, n) ==
  \/ \E s \in Open : shop[s].slug = slug
  \/ \A j \in 1..n : \E s \in Open : shop[s].subdomain = Candidates[slug][j]

\* What a request about a store's address has found out.
AddressFits(a) ==
  LET q == ask[a] IN
  /\ q.pc \in {"subdomain", "create"} => q.who \in People /\ q.slug \in Slugs
  /\ q.pc = "subdomain" /\ q.made = "registration" => PassedOver(q.slug, q.tried)
  /\ q.pc = "create" /\ q.made = "registration" =>
       /\ q.tried \in 1..Len(Candidates[q.slug])
       /\ q.subdomain = Candidates[q.slug][q.tried]
       /\ PassedOver(q.slug, q.tried - 1)

\* What a request about a row has found out and still holds: a row it will
\* change or delete is not an owner's.
TargetFits(a) ==
  LET q == ask[a] IN
  /\ q.pc = "fixture" =>
       q.shop \in Open /\ shop[q.shop].made = "fixture" /\ q.role # "STORE_OWNER"
  /\ q.pc = "change" => q.role # "STORE_OWNER"
  /\ q.pc \in {"change", "remove"} =>
       \/ row[q.row].kind = "deleted"
       \/ row[q.row].kind = "member" /\ row[q.row].role # "STORE_OWNER"
  /\ q.pc = "withdraw" => row[q.row].kind \in {"invite", "deleted"}

\* What an invitation has found out, unless another one overlapped it.
InvitationFits(a) ==
  LET q == ask[a]
      overlapped == <<q.shop, q.target>> \in tangled
  IN q.pc \in InviteSteps \cup {"invite"} =>
       /\ q.shop \in Open /\ q.target \in People /\ q.role # "STORE_OWNER"
       /\ q.pc \in {"membership", "add"} => q.target \in registered
       /\ q.pc \in InviteSteps =>
            overlapped \/ \A r \in MemberRows : ~IsRow(r, "invite", q.shop, q.target)
       /\ q.pc = "pend" =>
            overlapped \/ \A r \in MemberRows : ~IsRow(r, "member", q.shop, q.target)
       /\ \A b \in Asks \ {a} :
            /\ q.pc \in InviteSteps /\ ask[b].pc \in InviteSteps
            /\ ask[b].shop = q.shop /\ ask[b].target = q.target
            => overlapped

MembersOK ==
  /\ MembersTypeOK
  /\ \A r \in MemberRows : RowFits(r)
  /\ \A s \in Shops : ShopFits(s)
  /\ \A a \in Asks : AddressFits(a) /\ TargetFits(a) /\ InvitationFits(a)
  /\ MemberNotInvited

\* Stores are made and then stay as they are.
StoresStay == \A s \in Open : s \in Open' /\ shop'[s] = shop[s]

\* What may become of a row that was written.
RowStays(r) ==
  /\ row'[r].shop = row[r].shop /\ row'[r].person = row[r].person
  /\ row'[r].kind \in {row[r].kind, "deleted"}
  /\ row'[r].role = "STORE_OWNER" => row[r].role = "STORE_OWNER"

\* A request that does nothing, and what it is made of.
LEMMA NoAskFits ==
  /\ AnyName \in Names /\ AnyShop \in Shops /\ AnyRow \in MemberRows
  /\ NoAsk \in AskRow /\ NoAsk.pc = "idle"
<1>1. AnyName \in Names /\ AnyShop \in Shops /\ AnyRow \in MemberRows
  BY MembersAssumption DEF MembersAssumption, AnyName, AnyShop, AnyRow
<1> QED
  BY <1>1 DEF NoAsk, AskRow, Roles

\* What was passed over stays so.
LEMMA PassedOverStays ==
  ASSUME NEW slug, NEW n, StoresStay, PassedOver(slug, n) PROVE PassedOver(slug, n)'
BY DEF StoresStay, PassedOver

\* Nor does a request about an address learn that something was freed.
LEMMA AddressKept ==
  ASSUME NEW a \in Asks, AddressFits(a), ask'[a] = ask[a], StoresStay
  PROVE  AddressFits(a)'
<1>1. PassedOver(ask[a].slug, ask[a].tried) => PassedOver(ask[a].slug, ask[a].tried)'
  BY PassedOverStays
<1>2. PassedOver(ask[a].slug, ask[a].tried - 1) => PassedOver(ask[a].slug, ask[a].tried - 1)'
  BY PassedOverStays
<1> QED BY <1>1, <1>2 DEF AddressFits, PassedOver

\* A request keeps the row it is for while others change or delete rows.
LEMMA TargetKept ==
  ASSUME NEW a \in Asks, TargetFits(a), ask[a] \in AskRow, ask'[a] = ask[a], StoresStay,
         \A r \in MemberRows : row[r].kind # "unused" => RowStays(r)
  PROVE  TargetFits(a)'
<1>1. ask[a].row \in MemberRows
  BY DEF AskRow
<1> QED BY <1>1 DEF TargetFits, RowStays, StoresStay

\* An invitation keeps what it has found out unless another overlaps it.
LEMMA InvitationKept ==
  ASSUME NEW a \in Asks, InvitationFits(a), ask'[a] = ask[a], StoresStay,
         registered \subseteq registered', tangled \subseteq tangled',
         \A r \in MemberRows :
           /\ ask[a].pc \in InviteSteps /\ IsRow(r, "invite", ask[a].shop, ask[a].target)'
              => \/ IsRow(r, "invite", ask[a].shop, ask[a].target)
                 \/ <<ask[a].shop, ask[a].target>> \in tangled'
           /\ ask[a].pc = "pend" /\ IsRow(r, "member", ask[a].shop, ask[a].target)'
              => \/ IsRow(r, "member", ask[a].shop, ask[a].target)
                 \/ <<ask[a].shop, ask[a].target>> \in tangled',
         \A b \in Asks \ {a} :
           /\ ask[a].pc \in InviteSteps /\ ask'[b].pc \in InviteSteps
           /\ ask'[b].shop = ask[a].shop /\ ask'[b].target = ask[a].target
           => \/ /\ ask[b].pc \in InviteSteps
                 /\ ask[b].shop = ask[a].shop /\ ask[b].target = ask[a].target
              \/ <<ask[a].shop, ask[a].target>> \in tangled'
  PROVE  InvitationFits(a)'
<1> DEFINE q == ask[a]
<1>1. CASE q.pc \notin InviteSteps \cup {"invite"}
  BY <1>1 DEF InvitationFits
<1>2. CASE q.pc \in InviteSteps \cup {"invite"}
  <2>1. q.shop \in Open' /\ q.target \in People /\ q.role # "STORE_OWNER"
    BY <1>2 DEF InvitationFits, StoresStay
  <2>2. q.pc \in {"membership", "add"} => q.target \in registered'
    BY <1>2 DEF InvitationFits
  <2>3. q.pc \in InviteSteps =>
          \/ <<q.shop, q.target>> \in tangled'
          \/ \A r \in MemberRows : ~IsRow(r, "invite", q.shop, q.target)'
    BY <1>2 DEF InvitationFits
  <2>4. q.pc = "pend" =>
          \/ <<q.shop, q.target>> \in tangled'
          \/ \A r \in MemberRows : ~IsRow(r, "member", q.shop, q.target)'
    BY <1>2 DEF InvitationFits
  <2>5. \A b \in Asks \ {a} :
          /\ q.pc \in InviteSteps /\ ask'[b].pc \in InviteSteps
          /\ ask'[b].shop = q.shop /\ ask'[b].target = q.target
          => <<q.shop, q.target>> \in tangled'
    BY <1>2 DEF InvitationFits
  <2> QED BY <2>1, <2>2, <2>3, <2>4, <2>5 DEF InvitationFits, IsRow
<1> QED BY <1>1, <1>2

\* A row another step did not touch, or only deleted.
LEMMA RowKept ==
  ASSUME NEW r \in MemberRows, RowFits(r), row[r] \in MemberRow, RowStays(r), StoresStay,
         registered \subseteq registered',
         row[r].kind = "member" =>
           \A other \in MemberRows :
             IsRow(other, "member", row[r].shop, row[r].person)'
             => IsRow(other, "member", row[r].shop, row[r].person) \/ other = r
  PROVE  RowFits(r)'
<1> DEFINE s == row[r].shop
<1>1. CASE row'[r].kind = "deleted"
  BY <1>1 DEF RowFits
<1>2. CASE row'[r].kind # "deleted"
  <2>1. row'[r].kind = row[r].kind /\ row'[r].shop = s /\ row'[r].person = row[r].person
    BY <1>2 DEF RowStays
  <2>2. row[r].kind \in {"member", "invite"} => s \in Open' /\ shop'[s] = shop[s]
    BY DEF RowFits, StoresStay
  <2>3. row'[r].role = "STORE_OWNER" => row[r].role = "STORE_OWNER"
    BY DEF RowStays
  <2>4. row[r].kind = "member" =>
          \A other \in MemberRows : IsRow(other, "member", s, row[r].person)' => other = r
    BY DEF RowFits
  <2> QED BY <2>1, <2>2, <2>3, <2>4 DEF RowFits, IsRow
<1> QED BY <1>1, <1>2

\* A store keeps its owner's membership and what stood in front of its address.
LEMMA ShopKept ==
  ASSUME NEW s \in Open, ShopFits(s), StoresStay,
         \A r \in MemberRows :
           /\ row[r].kind = "member" /\ row[r].shop = s /\ row[r].role = "STORE_OWNER"
           /\ shop[s].made # "fixture"
           => row'[r] = row[r]
  PROVE  ShopFits(s)'
<1> DEFINE tries == Candidates[shop[s].slug]
<1>1. shop'[s] = shop[s] /\ s \in Shops
  BY DEF StoresStay, Open
<1>2. /\ shop'[s].slug \in Slugs
      /\ shop'[s].made = "fixture"
         \/ \E r \in MemberRows : /\ IsRow(r, "member", s, shop[s].owner)'
                                  /\ row'[r].role = "STORE_OWNER"
  BY <1>1 DEF ShopFits, IsRow
<1>3. ASSUME shop[s].made = "registration", NEW k \in 1..Len(tries), NEW j \in 1..(k - 1),
             shop[s].subdomain = tries[k]
      PROVE  \E other \in Open' \ {s} : shop'[other].subdomain = tries[j]
  BY <1>1, <1>3 DEF ShopFits, StoresStay
<1> QED BY <1>1, <1>2, <1>3 DEF ShopFits, IsRow

\* A step that moves one request and writes no row and no store.
LEMMA AskStep ==
  ASSUME MembersOK, NEW a \in Asks, NEW r \in AskRow, ask' = [ask EXCEPT ![a] = r],
         UNCHANGED <<shop, row>>,
         registered \subseteq registered', registered' \subseteq People,
         tangled \subseteq tangled', tangled' \subseteq Shops \X People,
         \A b \in Asks \ {a} :
           /\ r.pc \in InviteSteps /\ ask[b].pc \in InviteSteps
           /\ ask[b].shop = r.shop /\ ask[b].target = r.target
           => \/ /\ ask[a].pc \in InviteSteps
                 /\ ask[a].shop = r.shop /\ ask[a].target = r.target
              \/ <<r.shop, r.target>> \in tangled',
         AddressFits(a)', TargetFits(a)', InvitationFits(a)'
  PROVE  MembersOK'
<1>0. MembersTypeOK
  BY DEF MembersOK
<1>1. ask'[a] = r /\ \A b \in Asks \ {a} : ask'[b] = ask[b]
  BY <1>0 DEF MembersTypeOK
<1>2. MembersTypeOK'
  BY <1>0 DEF MembersTypeOK
<1>3. StoresStay /\ \A k \in MemberRows : RowStays(k)
  BY DEF StoresStay, RowStays, Open
<1>4. ASSUME NEW k \in MemberRows PROVE RowFits(k)'
  <2>1. row[k] \in MemberRow /\ RowFits(k)
    BY <1>0 DEF MembersOK, MembersTypeOK
  <2> QED BY <1>3, <2>1, RowKept DEF IsRow
<1>5. ASSUME NEW s \in Shops PROVE ShopFits(s)'
  <2>1. CASE s \in Open
    BY <1>3, <2>1, ShopKept DEF MembersOK
  <2>2. CASE s \notin Open
    BY <2>2 DEF ShopFits, Open
  <2> QED BY <2>1, <2>2
<1>6. ASSUME NEW b \in Asks PROVE (AddressFits(b) /\ TargetFits(b) /\ InvitationFits(b))'
  <2>1. CASE b = a
    BY <2>1
  <2>2. CASE b # a
    <3>1. AddressFits(b) /\ TargetFits(b) /\ InvitationFits(b) /\ ask[b] \in AskRow
      BY <1>0 DEF MembersOK, MembersTypeOK
    <3>2. AddressFits(b)' /\ TargetFits(b)'
      BY <1>1, <1>3, <2>2, <3>1, AddressKept, TargetKept
    <3>3. \A k \in MemberRows, kind \in {"invite", "member"} :
            IsRow(k, kind, ask[b].shop, ask[b].target)'
            => IsRow(k, kind, ask[b].shop, ask[b].target)
      BY <1>1, <2>2 DEF IsRow
    <3>4. ASSUME NEW d \in Asks \ {b}, ask[b].pc \in InviteSteps, ask'[d].pc \in InviteSteps,
                 ask'[d].shop = ask[b].shop, ask'[d].target = ask[b].target
          PROVE  \/ /\ ask[d].pc \in InviteSteps
                    /\ ask[d].shop = ask[b].shop /\ ask[d].target = ask[b].target
                 \/ <<ask[b].shop, ask[b].target>> \in tangled'
      BY <1>1, <2>2, <3>4
    <3>5. InvitationFits(b)'
      BY <1>1, <1>3, <2>2, <3>1, <3>3, <3>4, InvitationKept
    <3> QED BY <3>2, <3>5
  <2> QED BY <2>1, <2>2
<1>7. MemberNotInvited'
  BY DEF MembersOK, MemberNotInvited, MembershipOf, InviteOf, Open
<1> QED BY <1>2, <1>4, <1>5, <1>6, <1>7 DEF MembersOK

\* A step that ends its request, or moves it to where it owes nothing.
LEMMA AskEndsStep ==
  ASSUME MembersOK, NEW a \in Asks, AskEnds(a), UNCHANGED <<registered, shop, row, tangled>>
  PROVE  MembersOK'
<1>1. ask' = [ask EXCEPT ![a] = NoAsk] /\ ask'[a] = NoAsk
  BY DEF AskEnds, MembersOK, MembersTypeOK
<1>2. AddressFits(a)' /\ TargetFits(a)' /\ InvitationFits(a)'
  BY <1>1, NoAskFits DEF AddressFits, TargetFits, InvitationFits, InviteSteps
<1>3. registered' \subseteq People /\ tangled' \subseteq Shops \X People
  BY DEF MembersOK, MembersTypeOK
<1> QED BY <1>1, <1>2, <1>3, NoAskFits, AskStep DEF InviteSteps

\* Registration of an account and the first reads of a request.
LEMMA StartingKeeps ==
  ASSUME MembersOK, NEW a \in Asks, NEW p \in People, NEW n \in Slugs,
         \/ RegisterMerchant(a, p, n)
         \/ \E wanted \in {{}} \cup {{w} : w \in WantedNames}, role \in Roles :
              AskForStore(a, p, n, wanted, role)
  PROVE  MembersOK'
<1>0. /\ registered \subseteq People /\ tangled \subseteq Shops \X People
      /\ ask \in [Asks -> AskRow] /\ n \in Names /\ n \in Slugs
  BY MembersAssumption DEF MembersOK, MembersTypeOK, MembersAssumption
<1>1. ASSUME NEW r \in AskRow, ask' = [ask EXCEPT ![a] = r],
             UNCHANGED <<registered, shop, row, tangled>>,
             r.pc \in {"subdomain", "create"}, r.who \in People, r.slug = n,
             r.pc = "create" => r.made # "registration", r.tried = 0
      PROVE  MembersOK'
  <2>1. ask'[a] = r
    BY <1>0, <1>1
  <2>2. AddressFits(a)' /\ TargetFits(a)' /\ InvitationFits(a)'
    BY <1>0, <1>1, <2>1 DEF AddressFits, PassedOver, TargetFits, InvitationFits, InviteSteps
  <2> QED BY <1>0, <1>1, <2>2, AskStep DEF InviteSteps
<1>2. CASE RegisterMerchant(a, p, n)
  <2> DEFINE r == [NoAsk EXCEPT !.pc = "subdomain", !.who = p, !.made = "registration",
                                !.slug = n]
  <2>1. r \in AskRow
    BY <1>0, NoAskFits DEF AskRow
  <2>2. r.pc = "subdomain" /\ r.who = p /\ r.slug = n /\ r.tried = 0
    BY DEF NoAsk
  <2>3. ask' = [ask EXCEPT ![a] = r] /\ UNCHANGED <<registered, shop, row, tangled>>
    BY <1>2 DEF RegisterMerchant
  <2> HIDE DEF r
  <2> QED BY <1>1, <2>1, <2>2, <2>3
<1>3. ASSUME NEW wanted \in {{}} \cup {{w} : w \in WantedNames}, NEW role \in Roles,
             AskForStore(a, p, n, wanted, role)
      PROVE  MembersOK'
  <2>1. PICK made \in {"request", "fixture"} :
          ask' = [ask EXCEPT ![a] =
            [NoAsk EXCEPT !.pc = IF wanted = {} THEN "subdomain" ELSE "create",
                          !.who = p, !.made = made, !.slug = n, !.role = role,
                          !.subdomain = IF wanted = {} THEN n ELSE CHOOSE w \in wanted : TRUE]]
    BY <1>3 DEF AskForStore
  <2>2. wanted # {} => (CHOOSE w \in wanted : TRUE) \in Names
    BY MembersAssumption DEF MembersAssumption
  <2> DEFINE first == IF wanted = {} THEN n ELSE CHOOSE w \in wanted : TRUE
  <2>3. first \in Names
    BY <1>0, <2>2
  <2> HIDE DEF first
  <2> DEFINE r == [NoAsk EXCEPT !.pc = IF wanted = {} THEN "subdomain" ELSE "create",
                                !.who = p, !.made = made, !.slug = n, !.role = role,
                                !.subdomain = first]
  <2>4. r \in AskRow
    BY <1>0, <2>3, NoAskFits DEF AskRow
  <2>5. /\ r.pc \in {"subdomain", "create"} /\ r.who = p /\ r.slug = n /\ r.tried = 0
        /\ r.made # "registration"
    BY DEF NoAsk
  <2>6. ask' = [ask EXCEPT ![a] = r] /\ UNCHANGED <<registered, shop, row, tangled>>
    BY <1>3, <2>1 DEF AskForStore, first
  <2> HIDE DEF r
  <2> QED BY <1>1, <2>4, <2>5, <2>6
<1> QED BY <1>2, <1>3

\* One more candidate is passed over, or the first free one is kept.
LEMMA TryingKeeps ==
  ASSUME MembersOK, NEW a \in Asks, TrySubdomain(a)
  PROVE  MembersOK'
<1> DEFINE q == ask[a]
<1> DEFINE tries == Candidates[q.slug]
<1> DEFINE k == q.tried + 1
<1>0. /\ registered \subseteq People /\ tangled \subseteq Shops \X People
      /\ ask \in [Asks -> AskRow] /\ q \in AskRow /\ q.tried \in Nat /\ q.slug \in Slugs
      /\ q.pc = "subdomain" /\ AddressFits(a)
      /\ UNCHANGED <<registered, shop, row, tangled>>
  BY DEF MembersOK, MembersTypeOK, TrySubdomain, AskAt, AskRow, AddressFits
<1>1. tries \in Seq(Names)
  BY <1>0, MembersAssumption DEF MembersAssumption
<1>5. PICK slug, n : slug = q.slug /\ n = q.tried
  OBVIOUS
<1> DEFINE taken == \E s \in Open : \/ shop[s].subdomain = tries[k]
                                    \/ q.made = "registration" /\ shop[s].slug = q.slug
<1>2. CASE k > Len(tries) /\ AskEnds(a)
  BY <1>0, <1>2, AskEndsStep
<1>3. CASE /\ k <= Len(tries) /\ taken
           /\ ask' = [ask EXCEPT ![a].tried = k]
  <2> DEFINE r == [q EXCEPT !.tried = k]
  <2>1. r \in AskRow /\ r.tried = k /\ r.pc = "subdomain"
    BY <1>0 DEF AskRow
  <2>2. r.made = q.made /\ r.slug = q.slug /\ r.who = q.who
    BY <1>0 DEF AskRow
  <2>3. ask' = [ask EXCEPT ![a] = r] /\ ask'[a] = r
    BY <1>0, <1>3
  <2> HIDE DEF r
  <2>4. q.made = "registration" => PassedOver(q.slug, k)
    <3> SUFFICES ASSUME q.made = "registration", ~\E s \in Open : shop[s].slug = q.slug,
                        NEW j \in 1..k
                 PROVE  \E s \in Open : shop[s].subdomain = tries[j]
      BY DEF PassedOver
    <3>1. CASE j = k
      BY <1>3, <3>1
    <3>2. CASE j # k
      BY <1>0, <3>2 DEF AddressFits, PassedOver
    <3> QED BY <3>1, <3>2
  <2>5. AddressFits(a)' /\ TargetFits(a)' /\ InvitationFits(a)'
    <3>1. q.made = "registration" => PassedOver(slug, n + 1)'
      BY <1>0, <1>5, <2>4 DEF PassedOver, Open
    <3> QED
      BY <1>0, <1>5, <2>1, <2>2, <2>3, <3>1
      DEF AddressFits, PassedOver, TargetFits, InvitationFits, InviteSteps
  <2> QED BY <1>0, <2>1, <2>3, <2>5, AskStep DEF InviteSteps
<1>4. CASE /\ k <= Len(tries) /\ ~taken
           /\ ask' = [ask EXCEPT ![a] =
                [@ EXCEPT !.pc = "create", !.subdomain = tries[k], !.tried = k]]
  <2> DEFINE r == [q EXCEPT !.pc = "create", !.subdomain = tries[k], !.tried = k]
  <2>0. k \in 1..Len(tries) /\ k \in Nat /\ tries[k] \in Names /\ k - 1 = q.tried
    BY <1>0, <1>1, <1>4
  <2>1. r \in AskRow /\ r.tried = k /\ r.pc = "create" /\ r.subdomain = tries[k]
    <3> HIDE DEF k, tries
    <3>1. \A i \in Nat, w \in Names :
            [q EXCEPT !.pc = "create", !.subdomain = w, !.tried = i] \in AskRow
      BY <1>0 DEF AskRow
    <3> QED BY <1>0, <2>0, <3>1 DEF AskRow
  <2>2. r.made = q.made /\ r.slug = q.slug /\ r.who = q.who
    BY <1>0 DEF AskRow
  <2>3. ask' = [ask EXCEPT ![a] = r] /\ ask'[a] = r
    BY <1>0, <1>4
  <2> HIDE DEF r
  <2>5. AddressFits(a)' /\ TargetFits(a)' /\ InvitationFits(a)'
    <3>1. q.made = "registration" => PassedOver(slug, n)'
      BY <1>0, <1>5 DEF AddressFits, PassedOver, Open
    <3>2. /\ r.who \in People /\ r.slug \in Slugs /\ r.slug = slug /\ r.tried = k
          /\ k \in 1..Len(Candidates[r.slug]) /\ r.subdomain = Candidates[r.slug][k]
          /\ k - 1 = n
      BY <1>0, <1>5, <2>0, <2>1, <2>2 DEF AddressFits
    <3>3. ask'[a].slug = slug /\ ask'[a].tried - 1 = n /\ ask'[a].made = q.made
      BY <2>1, <2>2, <2>3, <3>2
    <3>4. AddressFits(a)'
      BY <2>1, <2>3, <3>1, <3>2, <3>3 DEF AddressFits, PassedOver
    <3>5. TargetFits(a)' /\ InvitationFits(a)'
      BY <2>1, <2>3 DEF TargetFits, InvitationFits, InviteSteps
    <3> QED BY <3>4, <3>5
  <2> QED BY <1>0, <2>1, <2>3, <2>5, AskStep DEF InviteSteps
<1> QED BY <1>2, <1>3, <1>4 DEF TrySubdomain

\* An owner begins an invitation.
LEMMA InvitingKeeps ==
  ASSUME MembersOK, NEW a \in Asks, NEW p \in People, NEW s \in Shops, NEW target \in People,
         NEW role \in GivenRoles, InviteMember(a, p, s, target, role)
  PROVE  MembersOK'
<1> DEFINE r == [NoAsk EXCEPT !.pc = "invite", !.shop = s, !.target = target, !.role = role]
<1>0. /\ registered \subseteq People /\ tangled \subseteq Shops \X People
      /\ ask \in [Asks -> AskRow]
  BY DEF MembersOK, MembersTypeOK
<1>1. role \in Roles /\ role # "STORE_OWNER"
  BY MembersAssumption DEF MembersAssumption, Roles
<1>2. r \in AskRow /\ r.pc = "invite" /\ r.shop = s /\ r.target = target /\ r.role = role
  BY <1>1, NoAskFits DEF AskRow
<1>3. /\ ask' = [ask EXCEPT ![a] = r] /\ s \in Open
      /\ UNCHANGED <<registered, shop, row, tangled>>
  BY DEF InviteMember, BeginsFor
<1> HIDE DEF r
<1>4. ask'[a] = r /\ s \in Open'
  BY <1>0, <1>3 DEF Open
<1>5. AddressFits(a)' /\ TargetFits(a)' /\ InvitationFits(a)'
  BY <1>1, <1>2, <1>4 DEF AddressFits, TargetFits, InvitationFits, InviteSteps
<1> QED BY <1>0, <1>2, <1>3, <1>5, AskStep DEF InviteSteps

\* An owner begins to change or remove a row that is not an owner's.
LEMMA FindingRowKeeps ==
  ASSUME MembersOK, NEW a \in Asks, NEW p \in People, NEW s \in Shops, NEW k \in MemberRows,
         NEW next \in {"change", "remove", "withdraw"}, NEW role \in GivenRoles,
         FindRow(a, p, s, k, next, role)
  PROVE  MembersOK'
<1> DEFINE r == [NoAsk EXCEPT !.pc = next, !.row = k, !.role = role]
<1>0. /\ registered \subseteq People /\ tangled \subseteq Shops \X People
      /\ ask \in [Asks -> AskRow]
  BY DEF MembersOK, MembersTypeOK
<1>1. role \in Roles /\ role # "STORE_OWNER"
  BY MembersAssumption DEF MembersAssumption, Roles
<1>2. r \in AskRow /\ r.pc = next /\ r.row = k /\ r.role = role
  BY <1>1, NoAskFits DEF AskRow
<1>3. /\ ask' = [ask EXCEPT ![a] = r] /\ UNCHANGED <<registered, shop, row, tangled>>
      /\ next \in {"change", "remove"} => row[k].kind = "member" /\ row[k].role # "STORE_OWNER"
      /\ next = "withdraw" => row[k].kind = "invite"
  BY DEF FindRow, BeginsFor
<1> HIDE DEF r
<1>4. ask'[a] = r
  BY <1>0, <1>3
<1>5. AddressFits(a)' /\ TargetFits(a)' /\ InvitationFits(a)'
  BY <1>1, <1>2, <1>3, <1>4 DEF AddressFits, TargetFits, InvitationFits, InviteSteps
<1> QED BY <1>0, <1>2, <1>3, <1>5, AskStep DEF InviteSteps

\* The reads of an invitation, each a step of its own.
LEMMA InviteReadsKeep ==
  ASSUME MembersOK, NEW a \in Asks, FindInvite(a) \/ FindUser(a) \/ FindMembership(a)
  PROVE  MembersOK'
<1> DEFINE q == ask[a]
<1>0. /\ registered \subseteq People /\ tangled \subseteq Shops \X People
      /\ ask \in [Asks -> AskRow] /\ q \in AskRow /\ InvitationFits(a)
      /\ \A k \in MemberRows : RowFits(k)
  BY DEF MembersOK, MembersTypeOK
<1>1. ASSUME NEW next \in {"user", "membership", "pend", "add"}, AskGoes(a, next),
             q.pc \in InviteSteps \cup {"invite"},
             UNCHANGED <<registered, shop, row>>,
             tangled \subseteq tangled', tangled' \subseteq Shops \X People,
             next \in {"membership", "add"} => q.target \in registered,
             \/ \A k \in MemberRows : ~IsRow(k, "invite", q.shop, q.target)
             \/ <<q.shop, q.target>> \in tangled',
             next = "pend" =>
               \/ \A k \in MemberRows : ~IsRow(k, "member", q.shop, q.target)
               \/ <<q.shop, q.target>> \in tangled',
             \A b \in Asks \ {a} :
               ask[b].pc \in InviteSteps /\ ask[b].shop = q.shop /\ ask[b].target = q.target
               => <<q.shop, q.target>> \in tangled'
      PROVE  MembersOK'
  <2> DEFINE r == [q EXCEPT !.pc = next]
  <2>1. /\ r \in AskRow /\ r.pc = next /\ r.shop = q.shop /\ r.target = q.target
        /\ r.role = q.role
    BY <1>0 DEF AskRow
  <2>2. ask' = [ask EXCEPT ![a] = r] /\ ask'[a] = r
    BY <1>0, <1>1 DEF AskGoes
  <2> HIDE DEF r
  <2>3. AddressFits(a)' /\ TargetFits(a)'
    BY <2>1, <2>2 DEF AddressFits, TargetFits
  <2>4. q.shop \in Open /\ q.target \in People /\ q.role # "STORE_OWNER"
    BY <1>0, <1>1 DEF InvitationFits
  <2>5. \A b \in Asks \ {a} : ask'[b] = ask[b]
    BY <1>0, <2>2
  <2>6. InvitationFits(a)'
    BY <1>1, <2>1, <2>2, <2>4, <2>5 DEF InvitationFits, IsRow, Open
  <2>7. \A b \in Asks \ {a} :
          r.pc \in InviteSteps /\ ask[b].pc \in InviteSteps
          /\ ask[b].shop = r.shop /\ ask[b].target = r.target
          => <<r.shop, r.target>> \in tangled'
    BY <1>1, <2>1
  <2> QED BY <1>0, <1>1, <2>1, <2>2, <2>3, <2>6, <2>7, AskStep
<1>2. CASE FindInvite(a)
  <2>1. /\ q.pc = "invite" /\ UNCHANGED <<registered, shop, row>>
        /\ tangled' \in {tangled, tangled \cup {<<q.shop, q.target>>}}
        /\ \A b \in Asks \ {a} :
             ask[b].pc \in InviteSteps /\ ask[b].shop = q.shop /\ ask[b].target = q.target
             => <<q.shop, q.target>> \in tangled'
    BY <1>2 DEF FindInvite, AskAt
  <2>2. q.shop \in Shops /\ q.target \in People
    BY <1>0, <2>1 DEF AskRow, InvitationFits
  <2>3. tangled \subseteq tangled' /\ tangled' \subseteq Shops \X People
    BY <1>0, <2>1, <2>2
  <2>4. CASE AskEnds(a)
    <3>1. ask' = [ask EXCEPT ![a] = NoAsk] /\ ask'[a] = NoAsk
      BY <1>0, <2>4 DEF AskEnds
    <3>2. AddressFits(a)' /\ TargetFits(a)' /\ InvitationFits(a)'
      BY <3>1, NoAskFits DEF AddressFits, TargetFits, InvitationFits, InviteSteps
    <3> QED BY <1>0, <2>1, <2>3, <3>1, <3>2, NoAskFits, AskStep DEF InviteSteps
  <2>5. CASE InviteOf(q.shop, q.target) = {} /\ AskGoes(a, "user")
    <3>1. \A k \in MemberRows : ~IsRow(k, "invite", q.shop, q.target)
      BY <2>5 DEF InviteOf, IsRow
    <3> QED BY <1>1, <2>1, <2>3, <2>5, <3>1
  <2> QED BY <1>2, <2>4, <2>5 DEF FindInvite
<1>3. ASSUME q.pc \in InviteSteps, UNCHANGED <<registered, shop, row, tangled>>
      PROVE  /\ \/ \A k \in MemberRows : ~IsRow(k, "invite", q.shop, q.target)
                \/ <<q.shop, q.target>> \in tangled'
             /\ \A b \in Asks \ {a} :
                  ask[b].pc \in InviteSteps /\ ask[b].shop = q.shop /\ ask[b].target = q.target
                  => <<q.shop, q.target>> \in tangled'
             /\ q.shop \in Open /\ q.target \in People /\ q.role # "STORE_OWNER"
  BY <1>0, <1>3 DEF InvitationFits
<1>4. CASE FindUser(a)
  <2>1. q.pc = "user" /\ q.pc \in InviteSteps /\ UNCHANGED <<registered, shop, row, tangled>>
    BY <1>4 DEF FindUser, AskAt, InviteSteps
  <2>2. CASE q.target \in registered
    <3>1. AskGoes(a, "membership")
      BY <1>4, <2>2 DEF FindUser
    <3> QED BY <1>0, <1>1, <1>3, <2>1, <2>2, <3>1
  <2>3. CASE q.target \notin registered
    <3>1. AskGoes(a, "pend")
      BY <1>4, <2>3 DEF FindUser
    <3>2. \A k \in MemberRows : ~IsRow(k, "member", q.shop, q.target)
      BY <1>0, <2>3 DEF RowFits, IsRow
    <3> QED BY <1>0, <1>1, <1>3, <2>1, <3>1, <3>2
  <2> QED BY <2>2, <2>3
<1>5. CASE FindMembership(a)
  <2>1. /\ q.pc = "membership" /\ q.pc \in InviteSteps
        /\ UNCHANGED <<registered, shop, row, tangled>>
    BY <1>5 DEF FindMembership, AskAt, InviteSteps
  <2>2. CASE AskEnds(a)
    BY <2>1, <2>2, AskEndsStep
  <2>3. CASE AskGoes(a, "add")
    <3>1. q.target \in registered
      BY <1>0, <2>1 DEF InvitationFits
    <3> QED BY <1>0, <1>1, <1>3, <2>1, <2>3, <3>1
  <2> QED BY <1>5, <2>2, <2>3 DEF FindMembership
<1> QED BY <1>2, <1>4, <1>5

\* A step that ends its request and writes rows: the others hold what they have.
LEMMA RowsStep ==
  ASSUME MembersOK, NEW a \in Asks, AskEnds(a), UNCHANGED <<registered, shop, tangled>>,
         row' \in [MemberRows -> MemberRow],
         \A k \in MemberRows : row[k].kind # "unused" => RowStays(k),
         \A k \in MemberRows : RowFits(k)',
         \A s \in Open : ShopFits(s)',
         MemberNotInvited',
         \A b \in Asks \ {a}, k \in MemberRows :
           /\ ask[b].pc \in InviteSteps /\ IsRow(k, "invite", ask[b].shop, ask[b].target)'
              => \/ IsRow(k, "invite", ask[b].shop, ask[b].target)
                 \/ <<ask[b].shop, ask[b].target>> \in tangled
           /\ ask[b].pc = "pend" /\ IsRow(k, "member", ask[b].shop, ask[b].target)'
              => \/ IsRow(k, "member", ask[b].shop, ask[b].target)
                 \/ <<ask[b].shop, ask[b].target>> \in tangled
  PROVE  MembersOK'
<1>0. MembersTypeOK
  BY DEF MembersOK
<1>1. ask' \in [Asks -> AskRow] /\ ask'[a] = NoAsk /\ \A b \in Asks \ {a} : ask'[b] = ask[b]
  BY <1>0, NoAskFits DEF AskEnds, MembersTypeOK
<1>2. MembersTypeOK'
  BY <1>0, <1>1 DEF MembersTypeOK
<1>3. StoresStay
  BY DEF StoresStay, Open
<1>4. ASSUME NEW b \in Asks PROVE (AddressFits(b) /\ TargetFits(b) /\ InvitationFits(b))'
  <2>1. CASE b = a
    BY <1>1, <2>1, NoAskFits DEF AddressFits, TargetFits, InvitationFits, InviteSteps
  <2>2. CASE b # a
    <3>1. /\ AddressFits(b) /\ TargetFits(b) /\ InvitationFits(b) /\ ask[b] \in AskRow
          /\ ask'[b] = ask[b]
      BY <1>0, <1>1, <2>2 DEF MembersOK, MembersTypeOK
    <3>2. AddressFits(b)' /\ TargetFits(b)'
      BY <1>3, <3>1, AddressKept, TargetKept
    <3>3. ASSUME NEW d \in Asks \ {b}, ask'[d].pc \in InviteSteps
          PROVE  ask'[d] = ask[d]
      BY <1>1, <3>3, NoAskFits DEF InviteSteps
    <3>4. ASSUME NEW k \in MemberRows
          PROVE  /\ ask[b].pc \in InviteSteps /\ IsRow(k, "invite", ask[b].shop, ask[b].target)'
                    => \/ IsRow(k, "invite", ask[b].shop, ask[b].target)
                       \/ <<ask[b].shop, ask[b].target>> \in tangled'
                 /\ ask[b].pc = "pend" /\ IsRow(k, "member", ask[b].shop, ask[b].target)'
                    => \/ IsRow(k, "member", ask[b].shop, ask[b].target)
                       \/ <<ask[b].shop, ask[b].target>> \in tangled'
      BY <2>2
    <3>5. InvitationFits(b)'
      BY <1>3, <3>1, <3>3, <3>4, InvitationKept
    <3> QED BY <3>2, <3>5
  <2> QED BY <2>1, <2>2
<1>5. ASSUME NEW s \in Shops PROVE ShopFits(s)'
  BY DEF ShopFits, Open
<1> QED BY <1>2, <1>4, <1>5 DEF MembersOK

\* A step that changes roles or deletes rows, but for the memberships owners
\* were given, whose stores are no fixture's.
LEMMA RowsShrink ==
  ASSUME MembersOK, NEW a \in Asks, AskEnds(a), UNCHANGED <<registered, shop, tangled>>,
         row' \in [MemberRows -> MemberRow],
         \A k \in MemberRows : RowStays(k),
         \A k \in MemberRows :
           /\ row[k].kind = "member" /\ row[k].role = "STORE_OWNER"
           /\ shop[row[k].shop].made # "fixture"
           => row'[k] = row[k]
  PROVE  MembersOK'
<1>1. \A k \in MemberRows, kind \in {"member", "invite"}, s \in Shops, p \in People :
        IsRow(k, kind, s, p)' => IsRow(k, kind, s, p)
  BY DEF IsRow, RowStays
<1>2. StoresStay /\ \A k \in MemberRows : row[k] \in MemberRow
  BY DEF StoresStay, Open, MembersOK, MembersTypeOK
<1>3. ASSUME NEW k \in MemberRows PROVE RowFits(k)'
  <2>1. \A other \in MemberRows :
          IsRow(other, "member", row[k].shop, row[k].person)'
          => IsRow(other, "member", row[k].shop, row[k].person)
    <3>1. PICK s, p : s = row[k].shop /\ p = row[k].person
      OBVIOUS
    <3>2. row'[k].shop = s /\ row'[k].person = p
      BY <3>1 DEF RowStays
    <3> QED BY <3>1, <3>2 DEF IsRow, RowStays
  <2> QED BY <1>2, <2>1, RowKept DEF MembersOK
<1>4. \A s \in Open : ShopFits(s)'
  BY <1>2, ShopKept DEF MembersOK, Open
<1>5. MemberNotInvited'
  <2> SUFFICES ASSUME NEW s \in Open', NEW p \in People,
                      NEW k \in MemberRows, IsRow(k, "member", s, p)',
                      NEW i \in MemberRows, IsRow(i, "invite", s, p)'
               PROVE  <<s, p>> \in tangled'
    BY DEF MemberNotInvited, MembershipOf, InviteOf, IsRow
  <2>1. s \in Open /\ IsRow(k, "member", s, p) /\ IsRow(i, "invite", s, p)
    BY <1>1 DEF Open
  <2> QED BY <2>1 DEF MembersOK, MemberNotInvited, MembershipOf, InviteOf, IsRow
<1>6. ASSUME NEW b \in Asks \ {a}, NEW k \in MemberRows
      PROVE  /\ ask[b].pc \in InviteSteps /\ IsRow(k, "invite", ask[b].shop, ask[b].target)'
                => IsRow(k, "invite", ask[b].shop, ask[b].target)
             /\ ask[b].pc = "pend" /\ IsRow(k, "member", ask[b].shop, ask[b].target)'
                => IsRow(k, "member", ask[b].shop, ask[b].target)
  <2>1. ask'[b] = ask[b]
    BY DEF AskEnds, MembersOK, MembersTypeOK
  <2> QED BY <2>1 DEF IsRow, RowStays
<1> QED BY <1>3, <1>4, <1>5, <1>6, RowsStep

\* updateMemberRole, removeMember, removePendingInvite and the fixtures' role.
LEMMA RowChangesKeep ==
  ASSUME MembersOK, NEW a \in Asks, ChangeRole(a) \/ DeleteRow(a) \/ GiveFixtureRole(a)
  PROVE  MembersOK'
<1> DEFINE q == ask[a]
<1>0. /\ q \in AskRow /\ TargetFits(a) /\ q.row \in MemberRows /\ q.role \in Roles
      /\ row \in [MemberRows -> MemberRow] /\ q.shop \in Shops
      /\ \A k \in MemberRows : RowFits(k)
  BY DEF MembersOK, MembersTypeOK, AskRow
<1>1. CASE ChangeRole(a)
  <2>1. q.pc = "change" /\ AskEnds(a) /\ UNCHANGED <<registered, shop, tangled>>
    BY <1>1 DEF ChangeRole, AskAt
  <2>2. CASE row[q.row].kind = "deleted"
    BY <1>0, <1>1, <2>1, <2>2, RowsShrink DEF ChangeRole, RowStays
  <2>3. CASE row[q.row].kind # "deleted"
    <3>1. /\ row' = [row EXCEPT ![q.row] = [row[q.row] EXCEPT !.role = q.role]]
          /\ row[q.row].kind = "member" /\ row[q.row].role # "STORE_OWNER"
          /\ q.role # "STORE_OWNER"
      BY <1>0, <1>1, <2>1, <2>3 DEF ChangeRole, TargetFits
    <3>2. row' \in [MemberRows -> MemberRow] /\ \A k \in MemberRows : RowStays(k)
      BY <1>0, <3>1 DEF MemberRow, RowStays
    <3>3. \A k \in MemberRows : row[k].role = "STORE_OWNER" => row'[k] = row[k]
      BY <1>0, <3>1
    <3> QED BY <2>1, <3>2, <3>3, RowsShrink
  <2> QED BY <2>2, <2>3
<1>2. CASE DeleteRow(a)
  <2>1. /\ q.pc \in {"remove", "withdraw"} /\ AskEnds(a)
        /\ UNCHANGED <<registered, shop, tangled>>
        /\ row' = [row EXCEPT ![q.row] = [row[q.row] EXCEPT !.kind = "deleted"]]
    BY <1>2 DEF DeleteRow
  <2>2. ~(row[q.row].kind = "member" /\ row[q.row].role = "STORE_OWNER")
    BY <1>0, <2>1 DEF TargetFits
  <2>3. row' \in [MemberRows -> MemberRow] /\ \A k \in MemberRows : RowStays(k)
    BY <1>0, <2>1 DEF MemberRow, RowStays
  <2>4. \A k \in MemberRows :
          row[k].kind = "member" /\ row[k].role = "STORE_OWNER" => row'[k] = row[k]
    BY <1>0, <2>1, <2>2
  <2> QED BY <2>1, <2>3, <2>4, RowsShrink
<1>3. CASE GiveFixtureRole(a)
  <2>1. q.pc = "fixture" /\ AskEnds(a) /\ UNCHANGED <<registered, shop, tangled>>
    BY <1>3 DEF GiveFixtureRole, AskAt
  <2>2. shop[q.shop].made = "fixture" /\ q.role # "STORE_OWNER"
    BY <1>0, <2>1 DEF TargetFits
  <2>3. ASSUME NEW k \in MemberRows
        PROVE  /\ row'[k] \in MemberRow /\ RowStays(k)
               /\ row[k].shop # q.shop => row'[k] = row[k]
    <3>1. CASE k \in MembershipOf(q.shop, q.who)
      <4>1. row'[k] = [row[k] EXCEPT !.role = q.role]
        BY <1>3, <3>1 DEF GiveFixtureRole
      <4> QED BY <1>0, <2>2, <3>1, <4>1 DEF MemberRow, RowStays, MembershipOf
    <3>2. CASE k \notin MembershipOf(q.shop, q.who)
      <4>1. row'[k] = row[k]
        BY <1>3, <3>2 DEF GiveFixtureRole
      <4> QED BY <1>0, <4>1 DEF RowStays
    <3> QED BY <3>1, <3>2
  <2>4. row' \in [MemberRows -> MemberRow]
    BY <1>3, <2>3 DEF GiveFixtureRole
  <2> QED BY <2>1, <2>2, <2>3, <2>4, RowsShrink
<1> QED BY <1>1, <1>2, <1>3

\* The unique indexes and what the request found out make a new row sound; if
\* another invitation went the other way meanwhile, the two overlapped.
LEMMA InsertingKeeps ==
  ASSUME MembersOK, NEW a \in Asks, AddMember(a) \/ PendInvite(a)
  PROVE  MembersOK'
<1> DEFINE q == ask[a]
<1>0. /\ q \in AskRow /\ row \in [MemberRows -> MemberRow]
      /\ \A k \in MemberRows : RowFits(k)
      /\ InvitationFits(a) /\ AskEnds(a) /\ UNCHANGED <<registered, shop, tangled>>
      /\ \A b \in Asks \ {a} : ask'[b] = ask[b]
  BY DEF MembersOK, MembersTypeOK, AddMember, PendInvite, AskEnds
<1>1. PICK s, p, role, pc, kind, other :
        /\ s = q.shop /\ p = q.target /\ role = q.role /\ pc = q.pc
        /\ \/ AddMember(a) /\ kind = "member" /\ other = "invite"
           \/ PendInvite(a) /\ kind = "invite" /\ other = "member"
  OBVIOUS
<1>2. /\ pc \in InviteSteps /\ s \in Open /\ s \in Shops /\ p \in People
      /\ role \in Roles /\ role # "STORE_OWNER"
      /\ kind = "member" => p \in registered
      /\ <<s, p>> \in tangled \/ \A k \in MemberRows : ~IsRow(k, other, s, p)
      /\ \A b \in Asks \ {a} :
           ask[b].pc \in InviteSteps /\ ask[b].shop = s /\ ask[b].target = p
           => <<s, p>> \in tangled
  <2>1. pc = IF kind = "member" THEN "add" ELSE "pend"
    BY <1>1 DEF AddMember, PendInvite, AskAt
  <2> QED BY <1>0, <1>1, <2>1 DEF InvitationFits, InviteSteps, AskRow, Open
<1>3. CASE UNCHANGED row
  <2>1. \A k \in MemberRows : RowStays(k)
    BY <1>3 DEF RowStays
  <2> QED BY <1>0, <1>3, <2>1, RowsShrink
<1>4. CASE Insert(kind, s, p, role) /\ \A k \in MemberRows : ~IsRow(k, kind, s, p)
  <2>1. PICK new \in MemberRows :
          /\ row[new].kind = "unused"
          /\ row' = [row EXCEPT ![new] =
               [kind |-> kind, shop |-> s, person |-> p, role |-> role]]
    BY <1>4 DEF Insert, Unwritten
  <2>2. /\ row' \in [MemberRows -> MemberRow]
        /\ \A k \in MemberRows \ {new} : row'[k] = row[k]
        /\ row'[new].kind = kind /\ row'[new].shop = s /\ row'[new].person = p
        /\ row'[new].role = role
    BY <1>0, <1>1, <1>2, <2>1 DEF MemberRow
  <2>3. \A k \in MemberRows : row[k].kind # "unused" => k # new /\ row'[k] = row[k] /\ RowStays(k)
    BY <2>1, <2>2 DEF RowStays
  <2>4. StoresStay
    BY <1>0 DEF StoresStay, Open
  <2>5. ASSUME NEW k \in MemberRows, NEW t \in Shops, NEW someone \in People \cup {Nobody},
               NEW what, IsRow(k, what, t, someone)'
        PROVE  \/ k # new /\ IsRow(k, what, t, someone)
               \/ k = new /\ what = kind /\ t = s /\ someone = p
    BY <2>2, <2>5 DEF IsRow
  <2>6. ASSUME NEW k \in MemberRows PROVE RowFits(k)'
    <3>1. CASE k = new
      <4>1. \A l \in MemberRows : IsRow(l, "member", s, p)' /\ kind = "member" => l = new
        BY <1>2, <1>4, <2>5
      <4> QED BY <1>0, <1>1, <1>2, <2>2, <2>4, <3>1, <4>1 DEF RowFits, IsRow, StoresStay
    <3>2. CASE k # new /\ row[k].kind = "member"
      <4>1. /\ row[k] \in MemberRow /\ RowStays(k) /\ row[k].shop \in Shops
            /\ row[k].person \in People \cup {Nobody}
        BY <1>0, <2>3, <3>2 DEF MemberRow
      <4>2. \A l \in MemberRows : IsRow(l, "member", row[k].shop, row[k].person)'
                                  => IsRow(l, "member", row[k].shop, row[k].person)
        <5>1. PICK t, someone : t = row[k].shop /\ someone = row[k].person
          OBVIOUS
        <5>2. IsRow(k, "member", t, someone)
          BY <3>2, <5>1 DEF IsRow
        <5>3. \A l \in MemberRows : IsRow(l, "member", t, someone)'
                                    => IsRow(l, "member", t, someone)
          BY <1>4, <2>5, <4>1, <5>1, <5>2
        <5>4. row'[k].shop = t /\ row'[k].person = someone
          BY <2>2, <3>2, <5>1
        <5> QED BY <5>1, <5>3, <5>4 DEF IsRow
      <4> QED BY <1>0, <2>4, <4>1, <4>2, RowKept
    <3>3. CASE k # new /\ row[k].kind # "member"
      <4>1. row'[k] = row[k] /\ RowFits(k)
        BY <1>0, <2>2, <3>3
      <4> QED BY <2>4, <3>3, <4>1 DEF RowFits, StoresStay
    <3> QED BY <3>1, <3>2, <3>3
  <2>7. \A t \in Open : ShopFits(t)'
    BY <2>3, <2>4, ShopKept DEF MembersOK, Open
  <2>8. MemberNotInvited'
    <3> SUFFICES ASSUME NEW t \in Open', NEW someone \in People,
                        NEW k \in MemberRows, IsRow(k, "member", t, someone)',
                        NEW i \in MemberRows, IsRow(i, "invite", t, someone)'
                 PROVE  <<t, someone>> \in tangled'
      BY DEF MemberNotInvited, MembershipOf, InviteOf, IsRow
    <3>1. t \in Open /\ t \in Shops
      BY <1>0 DEF Open
    <3>2. CASE k = new \/ i = new
      BY <1>0, <1>1, <1>2, <2>5, <3>1, <3>2
    <3>3. CASE k # new /\ i # new
      <4>1. IsRow(k, "member", t, someone) /\ IsRow(i, "invite", t, someone)
        BY <2>5, <3>1, <3>3
      <4> QED
        BY <1>0, <3>1, <4>1 DEF MembersOK, MemberNotInvited, MembershipOf, InviteOf, IsRow
    <3> QED BY <3>2, <3>3
  <2>9. ASSUME NEW b \in Asks \ {a}, NEW k \in MemberRows, NEW what \in {"member", "invite"},
               ask[b].pc \in InviteSteps, IsRow(k, what, ask[b].shop, ask[b].target)'
        PROVE  \/ IsRow(k, what, ask[b].shop, ask[b].target)
               \/ <<ask[b].shop, ask[b].target>> \in tangled
    <3>1. PICK t, someone : t = ask[b].shop /\ someone = ask[b].target
      OBVIOUS
    <3>2. t \in Shops /\ someone \in People \cup {Nobody}
      BY <3>1 DEF MembersOK, MembersTypeOK, AskRow
    <3>3. IsRow(k, what, t, someone)'
      BY <1>0, <2>9, <3>1 DEF IsRow
    <3> QED BY <1>2, <2>5, <2>9, <3>1, <3>2, <3>3
  <2>10. \A b \in Asks \ {a} : ask[b].pc = "pend" => ask[b].pc \in InviteSteps
    BY DEF InviteSteps
  <2> QED BY <1>0, <2>2, <2>3, <2>6, <2>7, <2>8, <2>9, <2>10, RowsStep
<1>5. UNCHANGED row \/ (Insert(kind, s, p, role) /\ \A k \in MemberRows : ~IsRow(k, kind, s, p))
  BY <1>1 DEF AddMember, PendInvite, MembershipOf, InviteOf, IsRow
<1> QED BY <1>3, <1>4, <1>5

\* A store that is made has its owner's membership from the same moment, and the
\* subdomains its registration passed over are still other stores'.
LEMMA MakingKeeps ==
  ASSUME MembersOK, NEW a \in Asks, MakeStore(a)
  PROVE  MembersOK'
<1> DEFINE q == ask[a]
<1> DEFINE refused == \/ q.made = "registration" /\ q.who \in registered
                      \/ \E s \in Open : \/ shop[s].slug = q.slug
                                         \/ shop[s].subdomain = q.subdomain
<1>0. /\ q \in AskRow /\ row \in [MemberRows -> MemberRow] /\ shop \in [Shops -> ShopRow]
      /\ ask \in [Asks -> AskRow] /\ registered \subseteq People
      /\ tangled \subseteq Shops \X People
      /\ q.pc = "create" /\ q.who \in People /\ q.slug \in Slugs /\ q.who # Nobody
      /\ AddressFits(a) /\ tangled' = tangled
  BY MembersAssumption
  DEF MembersAssumption, MembersOK, MembersTypeOK, MakeStore, AskAt, AddressFits
<1>1. CASE refused
  <2>1. AskEnds(a) /\ UNCHANGED <<registered, shop, row, tangled>>
    BY <1>1 DEF MakeStore
  <2> QED BY <2>1, AskEndsStep
<1>2. CASE ~refused
  <2>0. PICK w, made, slug, sub, role :
          w = q.who /\ made = q.made /\ slug = q.slug /\ sub = q.subdomain /\ role = q.role
    OBVIOUS
  <2>1. PICK s \in Shops \ Open :
          /\ shop' = [shop EXCEPT ![s] =
               [owner |-> w, slug |-> slug, subdomain |-> sub, made |-> made]]
          /\ Insert("member", s, w, "STORE_OWNER")
          /\ \/ /\ made = "fixture" /\ role # "STORE_OWNER"
                /\ ask' = [ask EXCEPT ![a] = [ask[a] EXCEPT !.pc = "fixture", !.shop = s]]
             \/ AskEnds(a)
          /\ registered' = registered \cup {w}
    <3> DEFINE t == CHOOSE t \in Shops \ Open : TRUE
    <3>1. t \in Shops \ Open
      BY <1>2 DEF MakeStore, Open
    <3>2. /\ shop' = [shop EXCEPT ![t] =
               [owner |-> q.who, slug |-> q.slug, subdomain |-> q.subdomain,
                made |-> q.made]]
          /\ Insert("member", t, q.who, "STORE_OWNER")
          /\ registered' = registered \cup {q.who}
      BY <1>2 DEF MakeStore
    <3>3. \/ /\ made = "fixture" /\ role # "STORE_OWNER"
             /\ ask' = [ask EXCEPT ![a] = [@ EXCEPT !.pc = "fixture", !.shop = t]]
          \/ AskEnds(a)
      BY <1>2, <2>0 DEF MakeStore
    <3> HIDE DEF t
    <3>4. ask' = [ask EXCEPT ![a] = [@ EXCEPT !.pc = "fixture", !.shop = t]]
          <=> ask' = [ask EXCEPT ![a] = [ask[a] EXCEPT !.pc = "fixture", !.shop = t]]
      BY <1>0
    <3> QED BY <2>0, <3>1, <3>2, <3>3, <3>4
  <2>2. PICK new \in MemberRows :
          /\ row[new].kind = "unused"
          /\ row' = [row EXCEPT ![new] =
               [kind |-> "member", shop |-> s, person |-> w, role |-> "STORE_OWNER"]]
    BY <2>1 DEF Insert, Unwritten
  <2>3. /\ row' \in [MemberRows -> MemberRow]
        /\ \A k \in MemberRows \ {new} : row'[k] = row[k]
        /\ row'[new].kind = "member" /\ row'[new].shop = s /\ row'[new].person = w
        /\ row'[new].role = "STORE_OWNER"
    BY <1>0, <2>0, <2>1, <2>2 DEF MemberRow, Roles
  <2>4. /\ shop' \in [Shops -> ShopRow] /\ \A t \in Shops \ {s} : shop'[t] = shop[t]
        /\ shop'[s].owner = w /\ shop'[s].slug = slug /\ shop'[s].subdomain = sub
        /\ shop'[s].made = made
    BY <1>0, <2>0, <2>1, MembersAssumption DEF MembersAssumption, ShopRow, AskRow
  <2>5. s \in Open' /\ StoresStay /\ \A t \in Open' : t = s \/ t \in Open
    BY <1>0, <2>0, <2>1, <2>4 DEF StoresStay, Open
  <2>6. /\ ask' \in [Asks -> AskRow] /\ \A b \in Asks \ {a} : ask'[b] = ask[b]
        /\ \/ ask'[a] = NoAsk
           \/ /\ ask'[a].pc = "fixture" /\ ask'[a].shop = s /\ made = "fixture"
              /\ ask'[a].role # "STORE_OWNER"
    <3> DEFINE r == [q EXCEPT !.pc = "fixture", !.shop = s]
    <3>1. r \in AskRow /\ r.pc = "fixture" /\ r.shop = s /\ r.role = q.role
      BY <1>0 DEF AskRow
    <3> HIDE DEF r
    <3>2. CASE AskEnds(a)
      BY <1>0, <3>2, NoAskFits DEF AskEnds
    <3>3. CASE made = "fixture" /\ role # "STORE_OWNER" /\ ask' = [ask EXCEPT ![a] = r]
      BY <1>0, <2>0, <3>1, <3>3
    <3> QED BY <2>1, <3>2, <3>3 DEF r
  <2>7. MembersTypeOK'
    BY <1>0, <2>0, <2>1, <2>3, <2>4, <2>6 DEF MembersTypeOK
  <2>8. \A k \in MemberRows : row[k].kind # "unused" => k # new /\ row'[k] = row[k] /\ RowStays(k)
    BY <2>2, <2>3 DEF RowStays
  <2>9. ASSUME NEW k \in MemberRows PROVE RowFits(k)'
    <3>0. RowFits(k) /\ \A l \in MemberRows : RowFits(l)
      BY DEF MembersOK
    <3>1. CASE k = new
      <4>1. \A l \in MemberRows : row[l].kind = "member" => row[l].shop # s
        BY <2>1, <3>0 DEF RowFits
      <4>2. \A l \in MemberRows : IsRow(l, "member", s, w)' => l = new
        BY <2>3, <4>1 DEF IsRow
      <4> QED BY <2>0, <2>1, <2>3, <2>4, <2>5, <3>1, <4>2 DEF RowFits, IsRow
    <3>2. CASE k # new /\ row[k].kind = "member"
      <4>1. row[k] \in MemberRow /\ RowStays(k) /\ row[k].shop # s
        BY <1>0, <2>1, <2>8, <3>0, <3>2 DEF RowFits
      <4>2. \A l \in MemberRows : IsRow(l, "member", row[k].shop, row[k].person)'
                                  => IsRow(l, "member", row[k].shop, row[k].person)
        BY <2>3, <3>2, <4>1 DEF IsRow
      <4> QED BY <2>1, <2>5, <3>0, <4>1, <4>2, RowKept
    <3>3. CASE k # new /\ row[k].kind # "member"
      BY <2>3, <2>5, <3>0, <3>3 DEF RowFits, StoresStay
    <3> QED BY <3>1, <3>2, <3>3
  <2>10. ASSUME NEW t \in Shops PROVE ShopFits(t)'
    <3>1. CASE t = s
      <4> DEFINE tries == Candidates[slug]
      <4>1. IsRow(new, "member", s, w)' /\ row'[new].role = "STORE_OWNER"
        BY <2>3 DEF IsRow
      <4>2. ASSUME made = "registration", NEW k \in 1..Len(tries), NEW j \in 1..(k - 1),
                   sub = tries[k]
            PROVE  \E o \in Open' \ {s} : shop'[o].subdomain = tries[j]
        <5>1. /\ q.tried \in 1..Len(tries) /\ sub = tries[q.tried]
              /\ PassedOver(slug, q.tried - 1)
          BY <1>0, <2>0, <4>2 DEF AddressFits
        <5>2. k = q.tried
          <6>1. \A x, y \in 1..Len(Candidates[slug]) :
                  Candidates[slug][x] = Candidates[slug][y] => x = y
            BY <1>0, <2>0, MembersAssumption DEF MembersAssumption
          <6> QED BY <4>2, <5>1, <6>1
        <5>3. PICK o \in Open : shop[o].subdomain = tries[j]
          BY <1>2, <2>0, <4>2, <5>1, <5>2 DEF PassedOver
        <5> QED BY <2>1, <2>5, <5>3 DEF StoresStay
      <4>3. shop'[s].slug \in Slugs
        BY <1>0, <2>0, <2>4
      <4> QED BY <2>4, <3>1, <4>1, <4>2, <4>3 DEF ShopFits, IsRow
    <3>2. CASE t \in Open
      BY <2>5, <2>8, <3>2, ShopKept DEF MembersOK
    <3>3. CASE t # s /\ t \notin Open
      BY <2>5, <3>3 DEF ShopFits
    <3> QED BY <3>1, <3>2, <3>3
  <2>11. MemberNotInvited'
    <3> SUFFICES ASSUME NEW t \in Open', NEW p \in People,
                        NEW k \in MemberRows, IsRow(k, "member", t, p)',
                        NEW i \in MemberRows, IsRow(i, "invite", t, p)'
                 PROVE  <<t, p>> \in tangled'
      BY DEF MemberNotInvited, MembershipOf, InviteOf, IsRow
    <3>1. i # new /\ row'[i] = row[i] /\ IsRow(i, "invite", t, p)
      BY <2>3 DEF IsRow
    <3>2. t \in Open /\ t # s
      BY <2>1, <3>1 DEF MembersOK, RowFits, IsRow
    <3>3. k # new /\ IsRow(k, "member", t, p)
      BY <2>3, <3>2 DEF IsRow
    <3> QED
      BY <1>0, <3>1, <3>2, <3>3 DEF MembersOK, MemberNotInvited, MembershipOf, InviteOf, IsRow
  <2>12. ASSUME NEW b \in Asks PROVE (AddressFits(b) /\ TargetFits(b) /\ InvitationFits(b))'
    <3>1. CASE b = a
      <4>1. CASE ask'[a] = NoAsk
        BY <3>1, <4>1, NoAskFits DEF AddressFits, TargetFits, InvitationFits, InviteSteps
      <4>2. CASE /\ ask'[a].pc = "fixture" /\ ask'[a].shop = s /\ made = "fixture"
                 /\ ask'[a].role # "STORE_OWNER"
        BY <2>4, <2>5, <3>1, <4>2 DEF AddressFits, TargetFits, InvitationFits, InviteSteps
      <4> QED BY <2>6, <4>1, <4>2
    <3>2. CASE b # a
      <4>1. /\ AddressFits(b) /\ TargetFits(b) /\ InvitationFits(b) /\ ask[b] \in AskRow
            /\ ask'[b] = ask[b]
        BY <1>0, <2>6, <3>2 DEF MembersOK
      <4>2. AddressFits(b)' /\ TargetFits(b)'
        BY <2>5, <2>8, <4>1, AddressKept, TargetKept
      <4>3. ask[b].pc \in InviteSteps \/ ask[b].pc = "pend" => ask[b].shop \in Open
        BY <4>1 DEF InvitationFits, InviteSteps
      <4>4. ASSUME NEW k \in MemberRows, NEW what, ask[b].shop \in Open,
                   IsRow(k, what, ask[b].shop, ask[b].target)'
            PROVE  IsRow(k, what, ask[b].shop, ask[b].target)
        BY <2>1, <2>3, <4>1, <4>4 DEF IsRow
      <4>5. ASSUME NEW d \in Asks \ {b}, ask'[d].pc \in InviteSteps
            PROVE  ask'[d] = ask[d]
        BY <2>6, <4>5, NoAskFits DEF InviteSteps
      <4>6. registered \subseteq registered' /\ tangled \subseteq tangled'
        BY <1>0, <2>1
      <4>7. InvitationFits(b)'
        BY <2>5, <4>1, <4>3, <4>4, <4>5, <4>6, InvitationKept
      <4> QED BY <4>2, <4>7
    <3> QED BY <3>1, <3>2
  <2> QED BY <2>7, <2>9, <2>10, <2>11, <2>12 DEF MembersOK
<1> QED BY <1>1, <1>2

\* A new account has no memberships yet.
LEMMA SigningUpKeeps ==
  ASSUME MembersOK, registered \subseteq registered', registered' \subseteq People,
         UNCHANGED <<shop, row, ask, tangled>>
  PROVE  MembersOK'
<1>1. MembersTypeOK'
  BY DEF MembersOK, MembersTypeOK
<1>2. \A k \in MemberRows : RowFits(k)'
  BY DEF MembersOK, RowFits, IsRow, Open
<1>3. ASSUME NEW s \in Shops PROVE ShopFits(s)'
  <2>1. Open' = Open /\ ShopFits(s)
    BY DEF MembersOK, Open
  <2>2. \A r \in MemberRows : IsRow(r, "member", s, shop[s].owner)' =
                             IsRow(r, "member", s, shop[s].owner)
    BY DEF IsRow
  <2> QED BY <2>1, <2>2 DEF ShopFits
<1>4. \A a \in Asks : AddressFits(a)'
  BY DEF MembersOK, AddressFits, PassedOver, Open
<1>5. \A a \in Asks : TargetFits(a)'
  BY DEF MembersOK, TargetFits, Open
<1>6. \A a \in Asks : InvitationFits(a)'
  BY DEF MembersOK, InvitationFits, IsRow, Open
<1>7. MemberNotInvited'
  BY DEF MembersOK, MemberNotInvited, MembershipOf, InviteOf, Open
<1> QED BY <1>1, <1>2, <1>3, <1>4, <1>5, <1>6, <1>7 DEF MembersOK

\* There is no store and nobody asks for anything.
LEMMA MembersInitOK == MembersInit => MembersOK
<1> SUFFICES ASSUME MembersInit PROVE MembersOK
  OBVIOUS
<1>1. MembersTypeOK
  BY NoAskFits DEF MembersInit, MembersTypeOK, ShopRow, MemberRow, Roles
<1>2. Open = {} /\ \A r \in MemberRows : row[r].kind = "unused"
  BY DEF MembersInit, Open
<1>3. \A a \in Asks : AddressFits(a) /\ TargetFits(a) /\ InvitationFits(a)
  BY NoAskFits DEF MembersInit, AddressFits, TargetFits, InvitationFits, InviteSteps
<1> QED BY <1>1, <1>2, <1>3 DEF MembersOK, RowFits, ShopFits, MemberNotInvited

\* Every step of every request keeps the invariant.
LEMMA MembersNextOK == MembersOK /\ [MembersNext]_membersVars => MembersOK'
<1> SUFFICES ASSUME MembersOK, [MembersNext]_membersVars PROVE MembersOK'
  OBVIOUS
<1>0. registered \subseteq People
  BY DEF MembersOK, MembersTypeOK
<1>1. ASSUME NEW p \in People, SignUp(p) PROVE MembersOK'
  BY <1>0, <1>1, SigningUpKeeps DEF SignUp
<1>2. ASSUME NEW a \in Asks,
             \/ TrySubdomain(a) \/ MakeStore(a) \/ GiveFixtureRole(a)
             \/ FindInvite(a) \/ FindUser(a) \/ FindMembership(a)
             \/ AddMember(a) \/ PendInvite(a) \/ ChangeRole(a) \/ DeleteRow(a)
      PROVE  MembersOK'
  BY <1>2, TryingKeeps, MakingKeeps, RowChangesKeep, InviteReadsKeep, InsertingKeeps
<1>3. ASSUME NEW a \in Asks, NEW p \in People, NEW n \in Slugs,
             \/ RegisterMerchant(a, p, n)
             \/ \E wanted \in {{}} \cup {{w} : w \in WantedNames}, role \in Roles :
                  AskForStore(a, p, n, wanted, role)
      PROVE  MembersOK'
  BY <1>3, StartingKeeps
<1>4. ASSUME NEW a \in Asks, NEW p \in People, NEW s \in Shops, NEW target \in People,
             NEW role \in GivenRoles, InviteMember(a, p, s, target, role)
      PROVE  MembersOK'
  BY <1>4, InvitingKeeps
<1>5. ASSUME NEW a \in Asks, NEW p \in People, NEW s \in Shops, NEW r \in MemberRows,
             NEW next \in {"change", "remove", "withdraw"}, NEW role \in GivenRoles,
             FindRow(a, p, s, r, next, role)
      PROVE  MembersOK'
  BY <1>5, FindingRowKeeps
<1>6. CASE UNCHANGED membersVars
  BY <1>0, <1>6, SigningUpKeeps DEF membersVars
<1> QED
  BY <1>1, <1>2, <1>3, <1>4, <1>5, <1>6 DEF MembersNext

\* An owner's membership is the only row of its kind in its store.
LEMMA OwnersCounted == MembersOK => OneOwner
<1> SUFFICES ASSUME MembersOK, NEW s \in Open
             PROVE  LET owners == {r \in MemberRows : /\ row[r].kind = "member"
                                                      /\ row[r].shop = s
                                                      /\ row[r].role = "STORE_OWNER"}
                    IN /\ \A r \in owners : row[r].person = shop[s].owner
                       /\ Cardinality(owners) = 1 \/ shop[s].made = "fixture"
                       /\ \A p \in People : Cardinality(MembershipOf(s, p)) <= 1
  BY DEF OneOwner
<1> DEFINE owners == {r \in MemberRows : /\ row[r].kind = "member" /\ row[r].shop = s
                                         /\ row[r].role = "STORE_OWNER"}
<1>1. \A r \in owners : row[r].person = shop[s].owner
  BY DEF MembersOK, RowFits
<1>2. ASSUME shop[s].made # "fixture" PROVE Cardinality(owners) = 1
  <2>1. PICK r \in owners : TRUE
    BY <1>2 DEF MembersOK, ShopFits, Open, IsRow
  <2>2. owners = {r}
    BY <1>1 DEF MembersOK, RowFits, IsRow
  <2> QED BY <2>2, FS_Singleton
<1>3. ASSUME NEW p \in People PROVE Cardinality(MembershipOf(s, p)) <= 1
  <2>1. CASE MembershipOf(s, p) = {}
    BY <2>1, FS_EmptySet
  <2>2. ASSUME NEW r \in MembershipOf(s, p) PROVE Cardinality(MembershipOf(s, p)) = 1
    <3>1. MembershipOf(s, p) = {r}
      BY <2>2 DEF MembersOK, RowFits, IsRow, MembershipOf
    <3> QED BY <3>1, FS_Singleton
  <2> QED BY <2>1, <2>2
<1> QED BY <1>1, <1>2, <1>3

\* However registrations, store creations, invitations and removals interleave,
\* an open store has one STORE_OWNER, who owns it (but for a fixture's), nobody
\* has two memberships or, unless two invitations overlapped, a membership and
\* an invitation, and a registration took the first subdomain that was free.
THEOREM MembersSafe == MembersSpec => [](MembersTypeOK /\ MembershipsHold)
<1>1. MembersOK => MembersTypeOK /\ MembershipsHold
  <2> SUFFICES ASSUME MembersOK PROVE MembersTypeOK /\ MembershipsHold
    OBVIOUS
  <2>1. FirstFreeSubdomain
    BY DEF MembersOK, ShopFits, FirstFreeSubdomain, Open
  <2> QED BY <2>1, OwnersCounted DEF MembersOK, MembershipsHold
<1> QED
  BY <1>1, MembersInitOK, MembersNextOK, PTL DEF MembersSpec

-------------------------------------------------------------------------------
(* BaselinkerCatalog: for any products, inventories, batches and runs. *)

\* What a run under way has neither to send nor left behind is at Baselinker as
\* it stands: it was, when the run began, or the run sent it.
SyncFits(s) ==
  sync[s].on /\ config.into # NoInventory =>
    \A g \in Goods \ (passedBy \cup sync[s].left) :
      (\A r \in sync[s].todo : r.good # g) => inventory[config.into][g] = goods[g].version

CatalogOK ==
  /\ BaselinkerCatalogTypeOK
  /\ \A g \in Goods : goods[g].at <= minute
  /\ config.syncedAt <= minute
  /\ ~config.exists => config = NoConfig
  /\ \A s \in SyncRuns : SyncFits(s)
  /\ CatalogUpToDate

\* The invariant holds at first.
LEMMA CatalogInitOK == BaselinkerCatalogInit => CatalogOK
<1> SUFFICES ASSUME BaselinkerCatalogInit PROVE CatalogOK
  OBVIOUS
<1>1. /\ LastMinute \in Nat \ {0} /\ LastVersion \in Nat \ {0}
  BY BaselinkerCatalogAssumption DEF BaselinkerCatalogAssumption
<1>2. BaselinkerCatalogTypeOK
  BY <1>1 DEF BaselinkerCatalogInit, BaselinkerCatalogTypeOK, NoConfig, NoSync
<1> QED
  BY <1>2 DEF BaselinkerCatalogInit, CatalogOK, NoConfig, NoSync, SyncFits, CatalogUpToDate

\* The clock goes on, a run dies, and the configuration is dropped or saved.
LEMMA CatalogAroundKeeps ==
  ASSUME CatalogOK,
         \/ MinutePasses \/ DropConfig
         \/ \E s \in SyncRuns : SyncDies(s)
         \/ \E into \in Inventories \cup {NoInventory} : SaveInventory(into)
  PROVE  CatalogOK'
<1>1. /\ LastMinute \in Nat \ {0} /\ LastVersion \in Nat \ {0} /\ BaselinkerCatalogTypeOK
  BY BaselinkerCatalogAssumption DEF BaselinkerCatalogAssumption, CatalogOK
<1>2. CASE MinutePasses
  <2>1. minute' \in 1..LastMinute /\ minute' > minute
    BY <1>1, <1>2 DEF MinutePasses, BaselinkerCatalogTypeOK
  <2>2. UNCHANGED <<goods, inventory, config, sync, passedBy>>
    BY <1>2 DEF MinutePasses
  <2>3. BaselinkerCatalogTypeOK'
    BY <1>1, <2>1, <2>2 DEF BaselinkerCatalogTypeOK
  <2>4. \A g \in Goods : goods'[g].at <= minute'
    BY <1>1, <2>1, <2>2 DEF CatalogOK, BaselinkerCatalogTypeOK
  <2>5. config'.syncedAt <= minute'
    BY <1>1, <2>1, <2>2 DEF CatalogOK, BaselinkerCatalogTypeOK
  <2> QED BY <2>2, <2>3, <2>4, <2>5 DEF CatalogOK, SyncFits, CatalogUpToDate
<1>3. CASE DropConfig
  <2>1. config' = NoConfig /\ UNCHANGED <<minute, goods, inventory, sync, passedBy>>
    BY <1>3 DEF DropConfig
  <2>2. BaselinkerCatalogTypeOK'
    BY <1>1, <2>1 DEF BaselinkerCatalogTypeOK, NoConfig
  <2> QED
    BY <1>1, <2>1, <2>2 DEF CatalogOK, SyncFits, CatalogUpToDate, NoConfig, BaselinkerCatalogTypeOK
<1>4. ASSUME NEW s \in SyncRuns, SyncDies(s) PROVE CatalogOK'
  <2>1. sync' = [sync EXCEPT ![s] = NoSync] /\ UNCHANGED <<minute, goods, inventory, config, passedBy>>
    BY <1>4 DEF SyncDies
  <2>2. BaselinkerCatalogTypeOK'
    BY <1>1, <2>1 DEF BaselinkerCatalogTypeOK, NoSync
  <2>3. \A t \in SyncRuns : SyncFits(t)'
    BY <1>1, <2>1 DEF CatalogOK, SyncFits, NoSync, BaselinkerCatalogTypeOK
  <2> QED BY <2>1, <2>2, <2>3 DEF CatalogOK, CatalogUpToDate
<1>5. ASSUME NEW into \in Inventories \cup {NoInventory}, SaveInventory(into) PROVE CatalogOK'
  <2>1. /\ config' = [config EXCEPT !.exists = TRUE, !.into = into]
        /\ UNCHANGED <<minute, goods, inventory, sync>>
        /\ passedBy' = IF config.into # into /\ (config.exists \/ \E s \in SyncRuns : sync[s].on)
                       THEN Goods ELSE passedBy
    BY <1>5 DEF SaveInventory
  <2>2. /\ config'.exists /\ config'.into = into /\ config'.syncedAt = config.syncedAt
        /\ BaselinkerCatalogTypeOK'
    BY <1>1, <2>1 DEF BaselinkerCatalogTypeOK
  <2>3. CASE passedBy' = Goods
    BY <2>1, <2>2, <2>3 DEF CatalogOK, SyncFits, CatalogUpToDate
  <2>4. CASE config.into = into /\ passedBy' = passedBy
    BY <2>1, <2>2, <2>4 DEF CatalogOK, SyncFits, CatalogUpToDate
  <2>5. CASE ~config.exists /\ ~(\E s \in SyncRuns : sync[s].on) /\ passedBy' = passedBy
    <3>1. config.syncedAt = 0
      BY <2>5 DEF CatalogOK, NoConfig
    <3>2. CatalogUpToDate'
      BY <1>1, <2>1, <2>2, <3>1 DEF CatalogUpToDate, BaselinkerCatalogTypeOK
    <3>3. \A s \in SyncRuns : SyncFits(s)'
      BY <2>1, <2>5 DEF SyncFits
    <3> QED BY <2>1, <2>2, <3>2, <3>3 DEF CatalogOK
  <2> QED BY <2>1, <2>3, <2>4, <2>5
<1> QED BY <1>2, <1>3, <1>4, <1>5

\* An edit is later than the last run's end, or the product has been passed by.
LEMMA EditingGoodKeeps ==
  ASSUME CatalogOK, NEW g \in Goods, EditGood(g)
  PROVE  CatalogOK'
<1>1. /\ LastMinute \in Nat \ {0} /\ LastVersion \in Nat \ {0} /\ BaselinkerCatalogTypeOK
  BY BaselinkerCatalogAssumption DEF BaselinkerCatalogAssumption, CatalogOK
<1>2. /\ UNCHANGED <<minute, inventory, config, sync>>
      /\ goods[g].version < LastVersion
      /\ goods' = [goods EXCEPT ![g] = [version |-> goods[g].version + 1, at |-> minute]]
      /\ passedBy' = IF config.syncedAt = minute \/ \E s \in SyncRuns : sync[s].on
                     THEN passedBy \cup {g} ELSE passedBy
  BY DEF EditGood
<1>3. /\ goods' \in [Goods -> [version : 1..LastVersion, at : 1..LastMinute]]
      /\ goods'[g].at = minute
      /\ \A h \in Goods : h # g => goods'[h] = goods[h]
  BY <1>1, <1>2 DEF BaselinkerCatalogTypeOK
<1>4. BaselinkerCatalogTypeOK'
  BY <1>1, <1>2, <1>3 DEF BaselinkerCatalogTypeOK
<1>5. \A h \in Goods : goods'[h].at <= minute'
  BY <1>1, <1>2, <1>3 DEF CatalogOK, BaselinkerCatalogTypeOK
<1>6. passedBy \subseteq passedBy'
  BY <1>2
<1>7. \A s \in SyncRuns : SyncFits(s)'
  BY <1>2, <1>3, <1>6 DEF CatalogOK, SyncFits
<1>8. CatalogUpToDate'
  <2>1. g \notin passedBy' => ~(goods'[g].at <= config.syncedAt)
    <3>1. g \notin passedBy' => config.syncedAt # minute
      BY <1>2
    <3>2. config.syncedAt \in Nat /\ minute \in Nat /\ config.syncedAt <= minute
      BY <1>1 DEF CatalogOK, BaselinkerCatalogTypeOK
    <3> QED BY <1>3, <3>1, <3>2
  <2> QED BY <1>2, <1>3, <1>6, <2>1 DEF CatalogOK, CatalogUpToDate
<1> QED BY <1>2, <1>4, <1>5, <1>7, <1>8 DEF CatalogOK

\* A run begins with what has changed since the last one ended.
LEMMA BeginningSyncKeeps ==
  ASSUME CatalogOK, NEW s \in SyncRuns, BeginSync(s)
  PROVE  CatalogOK'
<1>1. BaselinkerCatalogTypeOK
  BY DEF CatalogOK
<1>2. PICK batch \in OldestOf(ChangedSince) :
        sync' = [sync EXCEPT ![s] =
          [on |-> TRUE, into |-> config.into,
           todo |-> {[good |-> g, version |-> goods[g].version, at |-> goods[g].at] : g \in batch},
           left |-> ChangedSince \ batch]]
  BY DEF BeginSync
<1> DEFINE todo == {[good |-> g, version |-> goods[g].version, at |-> goods[g].at] : g \in batch}
<1>3. batch \subseteq ChangedSince /\ ChangedSince \subseteq Goods
  BY DEF OldestOf, ChangedSince
<1>4. UNCHANGED <<minute, goods, inventory, config, passedBy>>
  BY DEF BeginSync
<1>5. todo \in SUBSET ReadRow /\ \A g \in batch : \E r \in todo : r.good = g
  <2>1. ASSUME NEW g \in batch
        PROVE  [good |-> g, version |-> goods[g].version, at |-> goods[g].at] \in ReadRow
    BY <1>1, <1>3 DEF BaselinkerCatalogTypeOK, ReadRow
  <2>2. todo \in SUBSET ReadRow
    BY <2>1
  <2>3. ASSUME NEW g \in batch PROVE \E r \in todo : r.good = g
    <3>1. [good |-> g, version |-> goods[g].version, at |-> goods[g].at] \in todo
      OBVIOUS
    <3> QED BY <3>1
  <2> QED BY <2>2, <2>3
<1> HIDE DEF todo
<1>6. /\ sync'[s].on /\ sync'[s].into = config.into /\ sync'[s].todo = todo
      /\ sync'[s].left = ChangedSince \ batch
      /\ \A t \in SyncRuns : t # s => sync'[t] = sync[t]
  BY <1>1, <1>2 DEF BaselinkerCatalogTypeOK, todo
<1>7. sync' \in [SyncRuns -> [on : BOOLEAN, into : Inventories \cup {NoInventory},
                              todo : SUBSET ReadRow, left : SUBSET Goods]]
  BY <1>1, <1>2, <1>3, <1>5 DEF BaselinkerCatalogTypeOK, todo
<1>8. BaselinkerCatalogTypeOK'
  BY <1>1, <1>4, <1>7 DEF BaselinkerCatalogTypeOK
<1>9. SyncFits(s)'
  <2> SUFFICES ASSUME config.into # NoInventory,
                      NEW g \in Goods, g \notin passedBy, g \notin sync'[s].left,
                      \A r \in sync'[s].todo : r.good # g
               PROVE  inventory[config.into][g] = goods[g].version
    BY <1>4 DEF SyncFits
  <2>1. g \notin ChangedSince
    BY <1>5, <1>6
  <2>2. goods[g].at <= config.syncedAt
    BY <1>1, <2>1 DEF ChangedSince, BaselinkerCatalogTypeOK
  <2> QED BY <2>2 DEF CatalogOK, CatalogUpToDate
<1>10. \A t \in SyncRuns : SyncFits(t)'
  BY <1>4, <1>6, <1>9 DEF CatalogOK, SyncFits
<1> QED BY <1>4, <1>8, <1>10 DEF CatalogOK, CatalogUpToDate

\* What is sent is at Baselinker as it stands, or it has been passed by.
LEMMA SendingGoodKeeps ==
  ASSUME CatalogOK, NEW s \in SyncRuns, NEW works \in BOOLEAN, SendGood(s, works)
  PROVE  CatalogOK'
<1>1. BaselinkerCatalogTypeOK
  BY DEF CatalogOK
<1>2. PICK r \in sync[s].todo :
        /\ sync' = [sync EXCEPT ![s].todo = @ \ {r},
                                ![s].left = IF works THEN @ ELSE @ \cup {r.good}]
        /\ IF works
           THEN /\ inventory' = [inventory EXCEPT ![sync[s].into][r.good] = r.version]
                /\ passedBy' = IF r.version = goods[r.good].version /\ sync[s].into = config.into
                               THEN passedBy \ {r.good} ELSE passedBy \cup {r.good}
           ELSE UNCHANGED <<inventory, passedBy>>
  BY DEF SendGood
<1>3. UNCHANGED <<minute, goods, config>> /\ r.good \in Goods /\ r.version \in 0..LastVersion
  BY <1>1 DEF SendGood, BaselinkerCatalogTypeOK, ReadRow
<1>4. /\ sync' \in [SyncRuns -> [on : BOOLEAN, into : Inventories \cup {NoInventory},
                                 todo : SUBSET ReadRow, left : SUBSET Goods]]
      /\ sync'[s].todo = sync[s].todo \ {r} /\ sync'[s].on = sync[s].on
      /\ sync'[s].left = IF works THEN sync[s].left ELSE sync[s].left \cup {r.good}
      /\ \A t \in SyncRuns : t # s => sync'[t] = sync[t]
  <2> DEFINE left == IF works THEN sync[s].left ELSE sync[s].left \cup {r.good}
             next == [sync[s] EXCEPT !.todo = sync[s].todo \ {r}, !.left = left]
             Run  == [on : BOOLEAN, into : Inventories \cup {NoInventory},
                      todo : SUBSET ReadRow, left : SUBSET Goods]
  <2>1. sync \in [SyncRuns -> Run] /\ sync[s] \in Run
    BY <1>1 DEF BaselinkerCatalogTypeOK
  <2>2. left \in SUBSET Goods
    BY <1>3, <2>1
  <2>3. sync' = [sync EXCEPT ![s] = next]
    BY <1>2
  <2> HIDE DEF left
  <2>4. /\ next \in Run /\ next.todo = sync[s].todo \ {r} /\ next.on = sync[s].on
        /\ next.left = left
    BY <2>1, <2>2
  <2> HIDE DEF next, Run
  <2>5. sync' \in [SyncRuns -> Run] /\ sync'[s] = next
        /\ \A t \in SyncRuns : t # s => sync'[t] = sync[t]
    BY <2>1, <2>3, <2>4
  <2> QED BY <2>4, <2>5 DEF left, Run
<1>5. /\ inventory' \in [Inventories -> [Goods -> 0..LastVersion]]
      /\ passedBy' \subseteq Goods
      /\ \A i \in Inventories, g \in Goods : g # r.good => inventory'[i][g] = inventory[i][g]
      /\ \A g \in Goods : g # r.good => (g \in passedBy' <=> g \in passedBy)
  <2>1. inventory \in [Inventories -> [Goods -> 0..LastVersion]] /\ passedBy \subseteq Goods
    BY <1>1 DEF BaselinkerCatalogTypeOK
  <2>2. inventory' = inventory
        \/ inventory' = [inventory EXCEPT ![sync[s].into] = [@ EXCEPT ![r.good] = r.version]]
    BY <1>2
  <2>3. /\ inventory' \in [Inventories -> [Goods -> 0..LastVersion]]
        /\ \A i \in Inventories, g \in Goods : g # r.good => inventory'[i][g] = inventory[i][g]
    <3>1. CASE inventory' = inventory
      BY <2>1, <3>1
    <3>2. CASE inventory' = [inventory EXCEPT ![sync[s].into] = [@ EXCEPT ![r.good] = r.version]]
      <4>1. ASSUME NEW i \in Inventories
            PROVE  /\ inventory'[i] \in [Goods -> 0..LastVersion]
                   /\ \A g \in Goods : g # r.good => inventory'[i][g] = inventory[i][g]
        <5>1. CASE i = sync[s].into
          <6>1. inventory'[i] = [inventory[i] EXCEPT ![r.good] = r.version]
            BY <2>1, <3>2, <5>1
          <6>2. inventory[i] \in [Goods -> 0..LastVersion]
            BY <2>1
          <6> QED BY <1>3, <6>1, <6>2
        <5>2. CASE i # sync[s].into
          BY <2>1, <3>2, <5>2
        <5> QED BY <5>1, <5>2
      <4>2. inventory' = [i \in Inventories |->
              IF i = sync[s].into THEN [inventory[i] EXCEPT ![r.good] = r.version] ELSE inventory[i]]
        BY <2>1, <3>2
      <4> QED BY <4>1, <4>2
    <3> QED BY <2>2, <3>1, <3>2
  <2>4. passedBy' \in {passedBy, passedBy \ {r.good}, passedBy \cup {r.good}}
    BY <1>2
  <2> QED BY <1>3, <2>1, <2>3, <2>4
<1>6. BaselinkerCatalogTypeOK'
  BY <1>1, <1>3, <1>4, <1>5 DEF BaselinkerCatalogTypeOK
<1>7. works /\ config.into # NoInventory /\ r.good \notin passedBy' =>
        inventory'[config.into][r.good] = goods[r.good].version
  <2> SUFFICES ASSUME works, config.into # NoInventory, r.good \notin passedBy'
               PROVE  inventory'[config.into][r.good] = goods[r.good].version
    OBVIOUS
  <2>1. r.version = goods[r.good].version /\ sync[s].into = config.into
    BY <1>2
  <2>2. inventory \in [Inventories -> [Goods -> 0..LastVersion]] /\ config.into \in Inventories
    BY <1>1 DEF BaselinkerCatalogTypeOK
  <2>3. inventory' = [inventory EXCEPT ![config.into][r.good] = r.version]
    BY <1>2, <2>1
  <2> QED BY <1>3, <2>1, <2>2, <2>3
<1>8. config.into # NoInventory => config.into \in Inventories
  BY <1>1 DEF BaselinkerCatalogTypeOK
<1>9. CatalogUpToDate'
  <2>1. ASSUME config.into # NoInventory, NEW g \in Goods \ passedBy',
               goods[g].at <= config.syncedAt
        PROVE  inventory'[config.into][g] = goods[g].version
    <3>1. CASE g = r.good /\ works
      BY <1>7, <2>1, <3>1
    <3>2. CASE g = r.good /\ ~works
      BY <1>2, <2>1, <3>2 DEF CatalogOK, CatalogUpToDate
    <3>3. CASE g # r.good
      BY <1>5, <1>8, <2>1, <3>3 DEF CatalogOK, CatalogUpToDate
    <3> QED BY <3>1, <3>2, <3>3
  <2> QED BY <1>3, <2>1 DEF CatalogUpToDate
<1>10. ASSUME NEW t \in SyncRuns, sync'[t].on, config.into # NoInventory,
              NEW g \in Goods, g \notin passedBy', g \notin sync'[t].left,
              \A q \in sync'[t].todo : q.good # g
       PROVE  inventory'[config.into][g] = goods[g].version
  <2>1. CASE g = r.good /\ works
    BY <1>7, <1>10, <2>1
  <2>2. CASE g = r.good /\ ~works
    <3>1. t # s
      BY <1>4, <1>10, <2>2
    <3> QED BY <1>2, <1>4, <1>10, <2>2, <3>1 DEF CatalogOK, SyncFits
  <2>3. CASE g # r.good
    <3>1. /\ sync[t].on /\ g \notin passedBy /\ g \notin sync[t].left
          /\ \A q \in sync[t].todo : q.good # g
      BY <1>4, <1>5, <1>10, <2>3
    <3> QED BY <1>5, <1>8, <1>10, <2>3, <3>1 DEF CatalogOK, SyncFits
  <2> QED BY <2>1, <2>2, <2>3
<1>11. \A t \in SyncRuns : SyncFits(t)'
  BY <1>3, <1>10 DEF SyncFits
<1> QED BY <1>3, <1>6, <1>9, <1>11 DEF CatalogOK

\* A run ends: what it left is passed by, the rest it sent or had no need to.
LEMMA EndingSyncKeeps ==
  ASSUME CatalogOK, NEW s \in SyncRuns, EndSync(s)
  PROVE  CatalogOK'
<1>1. BaselinkerCatalogTypeOK
  BY DEF CatalogOK
<1>2. /\ sync[s].on /\ sync[s].todo = {} /\ sync' = [sync EXCEPT ![s] = NoSync]
      /\ UNCHANGED <<minute, goods, inventory>>
      /\ IF config.exists
         THEN /\ config' = [config EXCEPT !.syncedAt = minute]
              /\ passedBy' = passedBy \cup sync[s].left
         ELSE UNCHANGED <<config, passedBy>>
  BY DEF EndSync
<1>3. /\ sync' \in [SyncRuns -> [on : BOOLEAN, into : Inventories \cup {NoInventory},
                                 todo : SUBSET ReadRow, left : SUBSET Goods]]
      /\ ~sync'[s].on /\ \A t \in SyncRuns : t # s => sync'[t] = sync[t]
  BY <1>1, <1>2 DEF BaselinkerCatalogTypeOK, NoSync
<1>4. /\ config'.into = config.into /\ config'.exists = config.exists
      /\ config' \in [exists : BOOLEAN, into : Inventories \cup {NoInventory}, syncedAt : 0..LastMinute]
      /\ config'.syncedAt <= minute
      /\ passedBy \subseteq passedBy' /\ passedBy' \subseteq Goods
  BY <1>1, <1>2 DEF BaselinkerCatalogTypeOK, CatalogOK
<1>5. BaselinkerCatalogTypeOK'
  BY <1>1, <1>2, <1>3, <1>4 DEF BaselinkerCatalogTypeOK
<1>6. \A t \in SyncRuns : SyncFits(t)'
  BY <1>2, <1>3, <1>4 DEF CatalogOK, SyncFits
<1>7. CatalogUpToDate'
  <2>1. CASE config.exists
    <3>1. ASSUME config.into # NoInventory, NEW g \in Goods \ passedBy'
          PROVE  inventory[config.into][g] = goods[g].version
      BY <1>2, <2>1, <3>1 DEF CatalogOK, SyncFits
    <3> QED BY <1>2, <1>4, <3>1 DEF CatalogUpToDate
  <2>2. CASE ~config.exists
    BY <1>2, <2>2 DEF CatalogOK, CatalogUpToDate
  <2> QED BY <2>1, <2>2
<1>8. ~config'.exists => config' = NoConfig
  BY <1>2, <1>4 DEF CatalogOK
<1> QED BY <1>2, <1>4, <1>5, <1>6, <1>7, <1>8 DEF CatalogOK

\* Every step of the catalog's exchange keeps the invariant.
LEMMA CatalogNextOK == CatalogOK /\ [BaselinkerCatalogNext]_baselinkerCatalogVars => CatalogOK'
<1> SUFFICES ASSUME CatalogOK, [BaselinkerCatalogNext]_baselinkerCatalogVars PROVE CatalogOK'
  OBVIOUS
<1>1. CASE UNCHANGED baselinkerCatalogVars
  BY <1>1 DEF CatalogOK, BaselinkerCatalogTypeOK, SyncFits, CatalogUpToDate, baselinkerCatalogVars
<1> QED
  BY <1>1, CatalogAroundKeeps, EditingGoodKeeps, BeginningSyncKeeps, SendingGoodKeeps,
     EndingSyncKeeps
  DEF BaselinkerCatalogNext

\* A product changed up to the end of the last run is in the store's inventory
\* at Baselinker as it stands, unless it was passed by.
THEOREM CatalogSafe == BaselinkerCatalogSpec => [](BaselinkerCatalogTypeOK /\ CatalogUpToDate)
<1>1. CatalogOK => BaselinkerCatalogTypeOK /\ CatalogUpToDate
  BY DEF CatalogOK
<1> QED BY <1>1, CatalogInitOK, CatalogNextOK, PTL DEF BaselinkerCatalogSpec

-------------------------------------------------------------------------------
(* BaselinkerOrders: for any number of orders on either side and of runs,  *)
(* with failing calls and runs that die.                                   *)

MadeFrom(k, o) == remote[k].made /\ remote[k].from = o
ExportRow(k, o) == syncRow[k].direction = "EXPORT" /\ syncRow[k].order = o
Known(k) == syncRow[k].direction # "none"
Holds(r, o) == run[r].pc \in {"push", "record"} /\ o \in run[r].todo
Records(r, o) == run[r].pc = "record" /\ run[r].order = o

\* An export has placed orders in hand, the one it records among them; what a
\* run records, or makes a label for, was made from the order it names.
RunFits(r) ==
  LET q == run[r] IN
  /\ q.pc \in {"push", "record"} =>
       q.todo \subseteq Orders /\ \A o \in q.todo : placed[o] # Nowhen
  /\ q.pc = "push" => q.order = NoOrder
  /\ q.pc = "record" => q.order \in q.todo
  /\ q.pc \in {"record", "package", "label", "ship"} =>
       q.order \in Orders /\ \A k \in q.item : MadeFrom(k, q.order)

\* So were the rows and the labels that say so.
RemoteFits(k) ==
  /\ \A o \in Orders : ExportRow(k, o) \/ k \in label[o] => MadeFrom(k, o)
  /\ MadeFrom(k, NoOrder) => remote[k].at <= moment

\* An order is in one run's hands and at Baselinker once: recorded, or about to
\* be recorded, and not before the run that holds it has pushed it.
ExportedOnce(o) ==
  /\ \A k, l \in RemoteOrders : MadeFrom(k, o) /\ MadeFrom(l, o) => k = l
  /\ \A k \in RemoteOrders : MadeFrom(k, o) =>
       ExportRow(k, o) \/ \E r \in Runs : Records(r, o) /\ k \in run[r].item
  /\ \A r, s \in Runs : Holds(r, o) /\ Holds(s, o) => r = s
  /\ \A r \in Runs : Holds(r, o) /\ ~Records(r, o) =>
       \A k \in RemoteOrders : ~MadeFrom(k, o)

\* What an import will not look up any more is known.
ImportFits(r) ==
  LET q == run[r] IN
  q.pc \in {"ask", "lookup", "import"} =>
    /\ q.since <= moment
    /\ q.pc # "ask" => q.todo \subseteq RemoteOrders
    /\ \A k \in RemoteOrders \ (overlooked \cup bygone) : MadeFrom(k, NoOrder) =>
         Known(k) \/ IF q.pc = "ask" THEN remote[k].at >= q.since ELSE k \in q.todo

BaselinkerOK ==
  /\ BaselinkerOrdersTypeOK
  /\ \A r \in Runs : RunFits(r)
  /\ \A k \in RemoteOrders : RemoteFits(k)
  /\ \A o \in Orders \ doubtful : ExportedOnce(o)
  /\ \A r \in Runs : ImportFits(r)
  /\ link.importedAt # Nowhen => link.importedAt <= moment
  /\ ImportMissesNone

\* The invariant holds at first: nothing is placed, made or under way.
LEMMA BaselinkerInitOK == BaselinkerOrdersInit => BaselinkerOK
<1> SUFFICES ASSUME BaselinkerOrdersInit PROVE BaselinkerOK
  OBVIOUS
<1>1. BaselinkerOrdersTypeOK
  BY BaselinkerOrdersAssumption
  DEF BaselinkerOrdersAssumption, BaselinkerOrdersInit, BaselinkerOrdersTypeOK, Moments, Nowhen,
      RunRow, NoRun, NoLink, Absent
<1>2. \A r \in Runs : RunFits(r) /\ ImportFits(r)
  BY DEF BaselinkerOrdersInit, RunFits, ImportFits, NoRun
<1>3. \A k \in RemoteOrders : RemoteFits(k)
  BY DEF BaselinkerOrdersInit, RemoteFits, ExportRow, MadeFrom, Absent
<1>4. \A o \in Orders : ExportedOnce(o)
  BY DEF BaselinkerOrdersInit, ExportedOnce, ExportRow, MadeFrom, Holds, Records, NoRun, Absent
<1>5. link.importedAt = Nowhen /\ ImportMissesNone
  BY DEF BaselinkerOrdersInit, ImportMissesNone, NoLink
<1> QED BY <1>1, <1>2, <1>3, <1>4, <1>5 DEF BaselinkerOK

\* What no step undoes: an order that was placed, an order at Baselinker, and
\* that an order there is known.
PlacedStays == \A o \in Orders : placed[o] # Nowhen => placed'[o] # Nowhen
MadeStays == \A k \in RemoteOrders : remote[k].made => remote'[k] = remote[k]
KnownStays == \A k \in RemoteOrders : Known(k) => Known(k)'
NoArrival == \A k \in RemoteOrders : MadeFrom(k, NoOrder)' => remote[k].made

\* A run is left alone by the steps of others.
LEMMA RunKept ==
  ASSUME NEW r \in Runs, run \in [Runs -> RunRow], RunFits(r), run'[r] = run[r],
         PlacedStays, MadeStays
  PROVE  RunFits(r)'
<1>1. run[r].item \subseteq RemoteOrders
  BY DEF RunRow
<1> QED BY <1>1 DEF RunFits, MadeFrom, PlacedStays, MadeStays

\* A run that imports is not disturbed by the others.
LEMMA ImportKept ==
  ASSUME NEW r \in Runs, BaselinkerOrdersTypeOK, BaselinkerOrdersTypeOK', ImportFits(r),
         run'[r] = run[r], moment <= moment', MadeStays, KnownStays, NoArrival,
         overlooked \subseteq overlooked', bygone \subseteq bygone'
  PROVE  ImportFits(r)'
<1>1. moment \in Nat /\ moment' \in Nat /\ run[r].since \in Nat
  BY BaselinkerOrdersAssumption DEF BaselinkerOrdersAssumption, BaselinkerOrdersTypeOK, RunRow, Moments
<1> SUFFICES ASSUME run[r].pc \in {"ask", "lookup", "import"}
             PROVE  /\ run[r].since <= moment'
                    /\ run[r].pc # "ask" => run[r].todo \subseteq RemoteOrders
                    /\ \A k \in RemoteOrders \ (overlooked' \cup bygone') : MadeFrom(k, NoOrder)' =>
                         \/ Known(k)'
                         \/ IF run[r].pc = "ask" THEN remote'[k].at >= run[r].since
                                                 ELSE k \in run[r].todo
  BY DEF ImportFits
<1>2. run[r].since <= moment'
  BY <1>1 DEF ImportFits
<1>3. ASSUME NEW k \in RemoteOrders \ (overlooked' \cup bygone'), MadeFrom(k, NoOrder)'
      PROVE  \/ Known(k)'
             \/ IF run[r].pc = "ask" THEN remote'[k].at >= run[r].since
                                     ELSE k \in run[r].todo
  <2>1. MadeFrom(k, NoOrder) /\ remote'[k] = remote[k]
    BY <1>3 DEF MadeFrom, MadeStays, NoArrival
  <2>2. Known(k) => Known(k)'
    BY DEF KnownStays
  <2> QED BY <2>1, <2>2 DEF ImportFits
<1>4. run[r].pc # "ask" => run[r].todo \subseteq RemoteOrders
  BY DEF ImportFits
<1> QED BY <1>2, <1>3, <1>4

\* Nothing changes of an order's export that its run does not do.
LEMMA ExportKept ==
  ASSUME NEW o \in Orders, ExportedOnce(o),
         \A k \in RemoteOrders : MadeFrom(k, o)' <=> MadeFrom(k, o),
         \A k \in RemoteOrders : ExportRow(k, o) => ExportRow(k, o)',
         \A r \in Runs : \A k \in RemoteOrders :
           Records(r, o) /\ k \in run[r].item
           => ExportRow(k, o)' \/ (Records(r, o)' /\ k \in run'[r].item),
         \A r \in Runs : Holds(r, o)' => Holds(r, o) /\ (Records(r, o) => Records(r, o)')
  PROVE  ExportedOnce(o)'
<1>1. \A k \in RemoteOrders : MadeFrom(k, o)' =>
        ExportRow(k, o)' \/ \E r \in Runs : Records(r, o)' /\ k \in run'[r].item
  BY DEF ExportedOnce
<1>2. \A r, s \in Runs : Holds(r, o)' /\ Holds(s, o)' => r = s
  BY DEF ExportedOnce
<1>3. \A r \in Runs : Holds(r, o)' /\ ~Records(r, o)' => \A k \in RemoteOrders : ~MadeFrom(k, o)'
  BY DEF ExportedOnce
<1> QED BY <1>1, <1>2, <1>3 DEF ExportedOnce

\* A run's own next state, and that of the others.
LEMMA RunGoes ==
  ASSUME NEW r \in Runs, NEW q \in RunRow, run \in [Runs -> RunRow], run' = [run EXCEPT ![r] = q]
  PROVE  run' \in [Runs -> RunRow] /\ run'[r] = q /\ \A s \in Runs \ {r} : run'[s] = run[s]
  OBVIOUS

\* Orders at Baselinker and their rows stay right while nothing is written.
LEMMA RemoteKept ==
  ASSUME NEW k \in RemoteOrders, BaselinkerOrdersTypeOK, RemoteFits(k), moment <= moment',
         BaselinkerOrdersTypeOK', UNCHANGED <<remote, syncRow, label>>
  PROVE  RemoteFits(k)'
<1>1. moment \in Nat /\ moment' \in Nat /\ remote[k].at \in Nat
  BY BaselinkerOrdersAssumption DEF BaselinkerOrdersAssumption, BaselinkerOrdersTypeOK, Moments
<1> QED BY <1>1 DEF RemoteFits, ExportRow, MadeFrom

\* A step of a run that exports nothing and writes nothing to rows or labels.
LEMMA QuietRunKeeps ==
  ASSUME BaselinkerOK, NEW r \in Runs, NEW q \in RunRow,
         run[r].pc \notin {"push", "record"}, q.pc \notin {"push", "record"},
         run' = [run EXCEPT ![r] = q],
         UNCHANGED <<moment, placed, remote, syncRow, label, doubtful, overlooked>>,
         bygone \subseteq bygone', bygone' \subseteq RemoteOrders,
         failures' \in 0..MostFailures, RunFits(r)', ImportFits(r)',
         link' \in [enabled : BOOLEAN, exists : BOOLEAN, importedAt : 0..Nowhen],
         link'.importedAt # Nowhen => link'.importedAt <= moment, ImportMissesNone'
  PROVE  BaselinkerOK'
<1>1. BaselinkerOrdersTypeOK /\ run \in [Runs -> RunRow]
  BY DEF BaselinkerOK, BaselinkerOrdersTypeOK
<1>2. run' \in [Runs -> RunRow] /\ run'[r] = q /\ \A s \in Runs \ {r} : run'[s] = run[s]
  BY <1>1, RunGoes
<1>3. BaselinkerOrdersTypeOK'
  BY <1>1, <1>2 DEF BaselinkerOrdersTypeOK
<1>4. moment <= moment'
  BY <1>1, BaselinkerOrdersAssumption DEF BaselinkerOrdersAssumption, BaselinkerOrdersTypeOK, Moments
<1>5. PlacedStays /\ MadeStays /\ KnownStays /\ NoArrival
  BY DEF PlacedStays, MadeStays, KnownStays, NoArrival, Known, MadeFrom
<1>6. \A s \in Runs : RunFits(s)' /\ ImportFits(s)'
  BY <1>1, <1>2, <1>3, <1>4, <1>5, RunKept, ImportKept DEF BaselinkerOK
<1>7. \A k \in RemoteOrders : RemoteFits(k)'
  BY <1>1, <1>3, <1>4, RemoteKept DEF BaselinkerOK
<1>8. ASSUME NEW o \in Orders \ doubtful' PROVE ExportedOnce(o)'
  <2>1. ExportedOnce(o)
    BY DEF BaselinkerOK
  <2>2. \A s \in Runs : (Holds(s, o)' <=> Holds(s, o)) /\ (Records(s, o)' <=> Records(s, o))
    BY <1>2 DEF Holds, Records
  <2>3. \A s \in Runs : Records(s, o) => run'[s] = run[s]
    BY <1>2 DEF Records
  <2> QED BY <2>1, <2>2, <2>3, ExportKept DEF MadeFrom, ExportRow
<1> QED BY <1>3, <1>6, <1>7, <1>8 DEF BaselinkerOK

\* The clock, orders placed or come from elsewhere, and the configuration.
LEMMA AroundRunsKeeps ==
  ASSUME BaselinkerOK,
         \/ MomentPasses
         \/ DeleteConfig
         \/ \E enabled \in BOOLEAN : SaveConfig(enabled)
         \/ \E k \in RemoteOrders : ArriveAtBaselinker(k)
         \/ \E o \in Orders : PlaceOrder(o)
  PROVE  BaselinkerOK'
<1> USE BaselinkerOrdersAssumption DEF BaselinkerOrdersAssumption
<1>1. BaselinkerOrdersTypeOK /\ run \in [Runs -> RunRow] /\ moment \in Nat
  BY DEF BaselinkerOK, BaselinkerOrdersTypeOK, Moments
<1>2. UNCHANGED <<run, syncRow, label, doubtful, bygone>> /\ overlooked \subseteq overlooked'
  BY DEF MomentPasses, DeleteConfig, SaveConfig, ArriveAtBaselinker, PlaceOrder
<1>0. /\ moment' \in {moment, moment + 1} /\ link'.importedAt \in {link.importedAt, Nowhen}
      /\ \/ UNCHANGED remote
         \/ \E k \in RemoteOrders :
              /\ ~remote[k].made
              /\ remote' = [remote EXCEPT ![k] =
                   [made |-> TRUE, from |-> NoOrder, at |-> moment]]
  <2>1. CASE MomentPasses
    BY <2>1 DEF MomentPasses
  <2>2. CASE DeleteConfig
    BY <2>2 DEF DeleteConfig, NoLink
  <2>3. ASSUME NEW enabled \in BOOLEAN, SaveConfig(enabled)
        PROVE  UNCHANGED <<moment, remote>> /\ link'.importedAt = link.importedAt
    BY <1>1, <2>3 DEF SaveConfig, BaselinkerOrdersTypeOK
  <2>4. ASSUME NEW k \in RemoteOrders, ArriveAtBaselinker(k)
        PROVE  /\ UNCHANGED <<moment, link>> /\ ~remote[k].made
               /\ remote' = [remote EXCEPT ![k] =
                    [made |-> TRUE, from |-> NoOrder, at |-> moment]]
    BY <2>4 DEF ArriveAtBaselinker
  <2>5. ASSUME NEW o \in Orders, PlaceOrder(o) PROVE UNCHANGED <<moment, link, remote>>
    BY <2>5 DEF PlaceOrder
  <2> QED BY <2>1, <2>2, <2>3, <2>4, <2>5
<1>3. BaselinkerOrdersTypeOK'
  <2>1. CASE MomentPasses
    BY <1>1, <2>1 DEF MomentPasses, BaselinkerOrdersTypeOK, Moments
  <2>2. CASE DeleteConfig
    BY <1>1, <2>2 DEF DeleteConfig, BaselinkerOrdersTypeOK, NoLink, Nowhen
  <2>3. ASSUME NEW enabled \in BOOLEAN, SaveConfig(enabled) PROVE BaselinkerOrdersTypeOK'
    BY <1>1, <2>3 DEF SaveConfig, BaselinkerOrdersTypeOK
  <2>4. ASSUME NEW k \in RemoteOrders, ArriveAtBaselinker(k) PROVE BaselinkerOrdersTypeOK'
    BY <1>1, <2>4 DEF ArriveAtBaselinker, BaselinkerOrdersTypeOK
  <2>5. ASSUME NEW o \in Orders, PlaceOrder(o) PROVE BaselinkerOrdersTypeOK'
    BY <1>1, <2>5 DEF PlaceOrder, BaselinkerOrdersTypeOK, Moments, Nowhen
  <2> QED BY <2>1, <2>2, <2>3, <2>4, <2>5
<1>4. moment <= moment' /\ moment' \in Nat
  BY <1>0, <1>1
<1>5. PlacedStays /\ MadeStays /\ KnownStays
  <2>1. PlacedStays
    BY <1>1 DEF PlacedStays, MomentPasses, DeleteConfig, SaveConfig, ArriveAtBaselinker, PlaceOrder,
                BaselinkerOrdersTypeOK, Moments, Nowhen
  <2>2. MadeStays
    BY <1>0, <1>1 DEF MadeStays, BaselinkerOrdersTypeOK
  <2> QED BY <1>2, <2>1, <2>2 DEF KnownStays, Known
<1>6. \A r \in Runs : RunFits(r)'
  BY <1>1, <1>2, <1>5, RunKept DEF BaselinkerOK
<1>7. \A o \in Orders, k \in RemoteOrders : MadeFrom(k, o)' <=> MadeFrom(k, o)
  BY <1>0, <1>1 DEF MadeFrom, BaselinkerOrdersTypeOK
<1>8. \A o \in Orders \ doubtful' : ExportedOnce(o)'
  <2>1. ASSUME NEW o \in Orders \ doubtful' PROVE ExportedOnce(o)'
    <3>1. ExportedOnce(o)
      BY <1>2 DEF BaselinkerOK
    <3> QED BY <1>2, <1>7, <3>1, ExportKept DEF ExportRow, Records, Holds
  <2> QED BY <2>1
<1>9. link'.importedAt # Nowhen => link'.importedAt <= moment'
  <2>2. link.importedAt \in Nat
    BY <1>1 DEF BaselinkerOrdersTypeOK
  <2> QED BY <1>0, <1>1, <1>4, <2>2 DEF BaselinkerOK
<1>10. CASE UNCHANGED remote
  <2>1. NoArrival
    BY <1>10 DEF NoArrival, MadeFrom
  <2>2. \A r \in Runs : ImportFits(r)'
    BY <1>1, <1>2, <1>3, <1>4, <1>5, <2>1, ImportKept DEF BaselinkerOK
  <2>3. \A k \in RemoteOrders : RemoteFits(k)'
    BY <1>1, <1>2, <1>3, <1>4, <1>10, RemoteKept DEF BaselinkerOK
  <2>5. ImportMissesNone'
    BY <1>0, <1>2, <1>10 DEF BaselinkerOK, ImportMissesNone
  <2> QED BY <1>3, <1>6, <1>8, <1>9, <2>2, <2>3, <2>5 DEF BaselinkerOK
<1>11. ASSUME NEW k \in RemoteOrders, ArriveAtBaselinker(k) PROVE BaselinkerOK'
  <2>1. /\ ~remote[k].made /\ UNCHANGED <<moment, link, placed>>
        /\ remote'[k] = [made |-> TRUE, from |-> NoOrder, at |-> moment]
        /\ \A l \in RemoteOrders \ {k} : remote'[l] = remote[l]
        /\ Importing # {} => k \in overlooked'
    BY <1>1, <1>11 DEF ArriveAtBaselinker, BaselinkerOrdersTypeOK
  <2>2. ASSUME NEW r \in Runs PROVE ImportFits(r)'
    <3> SUFFICES ASSUME run[r].pc \in {"ask", "lookup", "import"},
                        NEW l \in RemoteOrders \ (overlooked' \cup bygone'), MadeFrom(l, NoOrder)'
                 PROVE  Known(l)' \/ IF run[r].pc = "ask" THEN remote'[l].at >= run[r].since
                                                          ELSE l \in run[r].todo
      BY <1>2, <2>1 DEF BaselinkerOK, ImportFits
    <3>1. CASE l = k
      <4>1. run[r].pc = "ask"
        BY <2>1, <3>1 DEF Importing
      <4>2. run[r].since <= moment /\ run[r].since \in Nat
        BY <1>1, <4>1 DEF BaselinkerOK, ImportFits, RunRow, Moments
      <4> QED BY <1>1, <2>1, <3>1, <4>1, <4>2
    <3>2. CASE l # k
      <4>1. MadeFrom(l, NoOrder) /\ l \notin overlooked \cup bygone
        BY <1>2, <2>1, <3>2 DEF MadeFrom
      <4>2. ImportFits(r) /\ remote'[l] = remote[l] /\ syncRow' = syncRow
        BY <1>2, <2>1, <3>2 DEF BaselinkerOK
      <4> QED BY <4>1, <4>2 DEF ImportFits, Known
    <3> QED BY <3>1, <3>2
  <2>3. ASSUME NEW l \in RemoteOrders PROVE RemoteFits(l)'
    <3>1. RemoteFits(l)
      BY DEF BaselinkerOK
    <3>2. \A o \in Orders : MadeFrom(l, o)' <=> MadeFrom(l, o)
      BY <1>7
    <3>3. MadeFrom(l, NoOrder)' => remote'[l].at <= moment'
      <4>1. CASE l = k
        BY <1>1, <2>1, <4>1
      <4>2. CASE l # k
        BY <2>1, <3>1, <4>2 DEF RemoteFits, MadeFrom
      <4> QED BY <4>1, <4>2
    <3> QED BY <1>2, <3>1, <3>2, <3>3 DEF RemoteFits, ExportRow
  <2>4. ImportMissesNone'
    <3> SUFFICES ASSUME NEW l \in RemoteOrders \ (overlooked' \cup bygone'), remote'[l].made,
                        remote'[l].from = NoOrder, link.importedAt # Nowhen,
                        remote'[l].at < link.importedAt
                 PROVE  syncRow[l].direction # "none"
      BY <1>2, <2>1 DEF ImportMissesNone
    <3>1. link.importedAt <= moment /\ link.importedAt \in Nat
      BY <1>1 DEF BaselinkerOK, BaselinkerOrdersTypeOK
    <3>2. l # k
      BY <1>1, <2>1, <3>1
    <3> QED BY <1>2, <2>1, <3>2 DEF BaselinkerOK, ImportMissesNone
  <2> QED BY <1>3, <1>6, <1>8, <1>9, <2>2, <2>3, <2>4 DEF BaselinkerOK
<1> QED BY <1>10, <1>11 DEF MomentPasses, DeleteConfig, SaveConfig, PlaceOrder

\* A run that goes on has fewer orders in hand, or none.
LEMMA OnwardIs ==
  ASSUME BaselinkerOrdersTypeOK, NEW r \in Runs, NEW o \in Orders, RunFits(r),
         run[r].pc \in {"push", "record"}, o \in run[r].todo
  PROVE  LET q == Onward(r, "push", o) IN
         /\ q \in RunRow /\ q.pc \in {"push", "idle"} /\ q.order = NoOrder /\ q.item = {}
         /\ q.todo = run[r].todo \ {o}
<1>1. run[r] \in RunRow /\ run[r].todo \subseteq Orders
  BY DEF BaselinkerOrdersTypeOK, RunFits
<1>2. CASE run[r].todo = {o}
  BY <1>1, <1>2, BaselinkerOrdersAssumption
  DEF Onward, NoRun, RunRow, Moments, BaselinkerOrdersAssumption
<1>3. CASE run[r].todo # {o}
  <2>1. NoRun \in RunRow /\ NoRun.order = NoOrder /\ NoRun.item = {}
    BY BaselinkerOrdersAssumption DEF NoRun, RunRow, Moments, BaselinkerOrdersAssumption
  <2>2. run[r].todo \ {o} \in SUBSET (Orders \cup RemoteOrders)
    BY <1>1
  <2> QED BY <1>3, <2>1, <2>2 DEF Onward, RunRow
<1> QED BY <1>2, <1>3

\* What a step of an export leaves alone; the order it is about is `o`.
LEMMA ExportingKeeps ==
  ASSUME BaselinkerOK, NEW r \in Runs, NEW q \in RunRow, NEW o \in Orders \cup {NoOrder},
         run' = [run EXCEPT ![r] = q],
         run[r].pc \in {"idle", "push", "record"}, q.pc \in {"idle", "push", "record"},
         UNCHANGED <<moment, link, placed, label, overlooked, bygone>>,
         failures' \in 0..MostFailures, doubtful \subseteq doubtful', doubtful' \subseteq Orders,
         remote' \in [RemoteOrders ->
           [made : BOOLEAN, from : Orders \cup {NoOrder}, at : Moments]],
         syncRow' \in [RemoteOrders ->
           [direction : {"none", "EXPORT", "IMPORT"}, order : Orders \cup {NoOrder}]],
         MadeStays, KnownStays,
         \A k \in RemoteOrders : remote'[k] # remote[k] => o \in Orders /\ remote'[k].from = o,
         \A k \in RemoteOrders : syncRow'[k] # syncRow[k] => MadeFrom(k, o) /\ ExportRow(k, o)',
         RunFits(r)',
         \A p \in Orders \ doubtful' :
           Holds(r, p) \/ Holds(r, p)' \/ p = o => ExportedOnce(p)'
  PROVE  BaselinkerOK'
<1> USE BaselinkerOrdersAssumption DEF BaselinkerOrdersAssumption
<1>1. BaselinkerOrdersTypeOK /\ run \in [Runs -> RunRow] /\ moment <= moment'
  BY DEF BaselinkerOK, BaselinkerOrdersTypeOK, Moments
<1>2. run' \in [Runs -> RunRow] /\ run'[r] = q /\ \A s \in Runs \ {r} : run'[s] = run[s]
  BY <1>1, RunGoes
<1>3. BaselinkerOrdersTypeOK'
  BY <1>1, <1>2 DEF BaselinkerOrdersTypeOK
<1>4. PlacedStays /\ NoArrival
  BY DEF PlacedStays, NoArrival, MadeFrom
<1>5. \A s \in Runs : RunFits(s)'
  BY <1>1, <1>2, <1>4, RunKept DEF BaselinkerOK
<1>6. ImportFits(r)'
  BY <1>2 DEF ImportFits
<1>7. \A s \in Runs : ImportFits(s)'
  BY <1>1, <1>2, <1>3, <1>4, <1>6, ImportKept DEF BaselinkerOK
<1>8. ASSUME NEW k \in RemoteOrders PROVE RemoteFits(k)'
  <2>1. RemoteFits(k)
    BY DEF BaselinkerOK
  <2>2. \A p \in Orders : MadeFrom(k, p) => MadeFrom(k, p)'
    BY DEF MadeStays, MadeFrom
  <2>3. ASSUME NEW p \in Orders, ExportRow(k, p)' PROVE MadeFrom(k, p)
    <3>1. CASE syncRow'[k] = syncRow[k]
      BY <2>1, <2>3, <3>1 DEF RemoteFits, ExportRow
    <3>2. CASE syncRow'[k] # syncRow[k]
      BY <2>3, <3>2 DEF ExportRow
    <3> QED BY <3>1, <3>2
  <2>4. MadeFrom(k, NoOrder)' => remote'[k].at <= moment'
    BY <2>1 DEF RemoteFits, MadeFrom
  <2> QED BY <2>1, <2>2, <2>3, <2>4 DEF RemoteFits
<1>9. ASSUME NEW p \in Orders \ doubtful' PROVE ExportedOnce(p)'
  <2>1. CASE Holds(r, p) \/ Holds(r, p)' \/ p = o
    BY <2>1
  <2>2. CASE ~Holds(r, p) /\ ~Holds(r, p)' /\ p # o
    <3>1. ExportedOnce(p)
      BY DEF BaselinkerOK
    <3>2. \A k \in RemoteOrders : MadeFrom(k, p)' <=> MadeFrom(k, p)
      BY <2>2 DEF MadeFrom, MadeStays
    <3>3. ASSUME NEW k \in RemoteOrders, ExportRow(k, p) PROVE ExportRow(k, p)'
      <4>1. MadeFrom(k, p)
        BY <3>3 DEF BaselinkerOK, RemoteFits
      <4>2. syncRow'[k] = syncRow[k]
        BY <2>2, <4>1 DEF MadeFrom
      <4> QED BY <3>3, <4>2 DEF ExportRow
    <3>0. ~Records(r, p) /\ ~Records(r, p)'
      BY <1>5, <2>2 DEF BaselinkerOK, RunFits, Holds, Records
    <3>4. \A s \in Runs : (Holds(s, p)' <=> Holds(s, p)) /\ (Records(s, p)' <=> Records(s, p))
      BY <1>2, <2>2, <3>0 DEF Holds, Records
    <3>5. \A s \in Runs : Records(s, p) => run'[s] = run[s]
      BY <1>2, <3>0
    <3> QED BY <3>1, <3>2, <3>3, <3>4, <3>5, ExportKept
  <2> QED BY <2>1, <2>2
<1>10. ImportMissesNone'
  <2> SUFFICES ASSUME NEW k \in RemoteOrders \ (overlooked \cup bygone), remote'[k].made,
                      remote'[k].from = NoOrder, link.importedAt # Nowhen,
                      remote'[k].at < link.importedAt
               PROVE  Known(k)'
    BY DEF ImportMissesNone, Known
  <2>1. remote'[k] = remote[k]
    OBVIOUS
  <2>2. Known(k)
    BY <2>1 DEF BaselinkerOK, ImportMissesNone, Known
  <2> QED BY <2>2 DEF KnownStays
<1> QED BY <1>3, <1>5, <1>7, <1>8, <1>9, <1>10 DEF BaselinkerOK

\* An export begins with orders that are not at Baselinker, or in another's hands.
LEMMA BeginningExportKeeps ==
  ASSUME BaselinkerOK, NEW r \in Runs, BeginExport(r)
  PROVE  BaselinkerOK'
<1>1. PICK batch \in OldestBatches(UnsyncedOrders) :
        /\ run' = [run EXCEPT ![r] = [NoRun EXCEPT !.pc = "push", !.todo = batch]]
        /\ doubtful' = doubtful \cup {o \in batch : ExportedByRun(o)}
  BY DEF BeginExport
<1> DEFINE q == [NoRun EXCEPT !.pc = "push", !.todo = batch]
<1>2. /\ BaselinkerOrdersTypeOK /\ run[r].pc = "idle" /\ RunFits(r)
      /\ UNCHANGED <<moment, link, placed, remote, syncRow, label, overlooked, bygone, failures>>
  BY DEF BaselinkerOK, BeginExport, RunAt
<1>3. /\ batch \subseteq Orders
      /\ \A o \in batch : placed[o] # Nowhen /\ Exported(o) = {}
  BY DEF OldestBatches, UnsyncedOrders
<1>4. q \in RunRow /\ q.pc = "push" /\ q.todo = batch /\ q.order = NoOrder
  <2>1. 0 \in Moments /\ batch \in SUBSET (Orders \cup RemoteOrders)
    BY <1>3, BaselinkerOrdersAssumption DEF Moments, BaselinkerOrdersAssumption
  <2> QED BY <2>1 DEF NoRun, RunRow
<1> HIDE DEF q
<1>5. run' = [run EXCEPT ![r] = q] /\ run'[r] = q /\ \A s \in Runs \ {r} : run'[s] = run[s]
  BY <1>1, <1>2 DEF q, BaselinkerOrdersTypeOK
<1>6. RunFits(r)'
  BY <1>2, <1>3, <1>4, <1>5 DEF RunFits
<1>7. ASSUME NEW p \in Orders \ doubtful', p \in batch PROVE ExportedOnce(p)'
  <2>1. /\ ExportedOnce(p) /\ ~ExportedByRun(p)
    BY <1>1, <1>7 DEF BaselinkerOK
  <2>2. \A s \in Runs : ~Holds(s, p) /\ ~Records(s, p)
    BY <2>1 DEF ExportedByRun, Holds, Records
  <2>3. \A k \in RemoteOrders : ~ExportRow(k, p)
    BY <1>3, <1>7 DEF Exported, ExportRow
  <2>4. \A k \in RemoteOrders : ~MadeFrom(k, p)
    BY <2>1, <2>2, <2>3 DEF ExportedOnce
  <2>5. \A k \in RemoteOrders : ~MadeFrom(k, p)'
    BY <1>2, <2>4 DEF MadeFrom
  <2>6. \A s \in Runs : Holds(s, p)' => s = r
    BY <1>5, <2>2 DEF Holds
  <2> QED BY <2>5, <2>6 DEF ExportedOnce
<1>8. MadeStays /\ KnownStays
  BY <1>2 DEF MadeStays, KnownStays, Known
<1>9. \A p \in Orders \ doubtful' :
        Holds(r, p) \/ Holds(r, p)' \/ p = NoOrder => ExportedOnce(p)'
  BY <1>2, <1>4, <1>5, <1>7, BaselinkerOrdersAssumption DEF Holds, BaselinkerOrdersAssumption
<1>10. doubtful \subseteq doubtful' /\ doubtful' \subseteq Orders
  BY <1>1, <1>2, <1>3 DEF BaselinkerOrdersTypeOK
<1> QED
  BY <1>2, <1>4, <1>5, <1>6, <1>8, <1>9, <1>10, ExportingKeeps DEF BaselinkerOrdersTypeOK

\* A run pushes an order it alone holds, or the push is in doubt.
LEMMA PushingKeeps ==
  ASSUME BaselinkerOK, NEW r \in Runs, PushOrder(r)
  PROVE  BaselinkerOK'
<1>1. PICK o \in run[r].todo :
        \/ \E k \in RemoteOrders :
             /\ CallWorks
             /\ ~remote[k].made
             /\ remote' = [remote EXCEPT ![k] = [made |-> TRUE, from |-> o, at |-> placed[o]]]
             /\ UNCHANGED doubtful
             /\ run' = [run EXCEPT ![r] = [@ EXCEPT !.pc = "record", !.order = o, !.item = {k}]]
        \/ /\ CallFails
           /\ run' = [run EXCEPT ![r] = Onward(r, "push", o)]
           /\ doubtful' = doubtful \cup {o}
           /\ \/ \E k \in RemoteOrders :
                   /\ ~remote[k].made
                   /\ remote' = [remote EXCEPT ![k] =
                        [made |-> TRUE, from |-> o, at |-> placed[o]]]
              \/ UNCHANGED remote
  BY DEF PushOrder
<1>2. /\ BaselinkerOrdersTypeOK /\ run[r].pc = "push" /\ RunFits(r) /\ run[r] \in RunRow
      /\ UNCHANGED <<moment, link, placed, syncRow, label, overlooked, bygone>>
  BY DEF BaselinkerOK, PushOrder, RunAt, BaselinkerOrdersTypeOK
<1>3. /\ o \in Orders /\ placed[o] \in Moments /\ run[r].todo \subseteq Orders
      /\ \A p \in run[r].todo : placed[p] # Nowhen
  <2>1. o \in Orders /\ run[r].todo \subseteq Orders /\ \A p \in run[r].todo : placed[p] # Nowhen
    BY <1>2 DEF RunFits
  <2>2. LastMoment \in Nat /\ placed[o] \in 0..Nowhen
    BY <1>2, <2>1, BaselinkerOrdersAssumption
    DEF BaselinkerOrdersTypeOK, BaselinkerOrdersAssumption
  <2> QED BY <2>1, <2>2 DEF Moments, Nowhen
<1>4. failures' \in 0..MostFailures
  <2>1. failures \in 0..MostFailures /\ MostFailures \in Nat /\ (CallWorks \/ CallFails)
    BY <1>1, <1>2, BaselinkerOrdersAssumption
    DEF BaselinkerOrdersTypeOK, BaselinkerOrdersAssumption
  <2> QED BY <2>1 DEF CallWorks, CallFails
<1>5. KnownStays
  BY <1>2 DEF KnownStays, Known
<1>6. ASSUME NEW k \in RemoteOrders, ~remote[k].made,
             remote' = [remote EXCEPT ![k] = [made |-> TRUE, from |-> o, at |-> placed[o]]]
      PROVE  /\ remote' \in [RemoteOrders ->
                  [made : BOOLEAN, from : Orders \cup {NoOrder}, at : Moments]]
             /\ MadeStays /\ MadeFrom(k, o)'
             /\ \A l \in RemoteOrders \ {k} : remote'[l] = remote[l]
             /\ \A l \in RemoteOrders : remote'[l] # remote[l] => remote'[l].from = o
  BY <1>2, <1>3, <1>6 DEF MadeStays, MadeFrom, BaselinkerOrdersTypeOK
<1>7. ASSUME NEW p \in run[r].todo \ {o} , p \notin doubtful, ExportedOnce(p),
             \A l \in RemoteOrders : remote'[l] # remote[l] => remote'[l].from = o, MadeStays,
             \A s \in Runs \ {r} : run'[s] = run[s],
             run'[r].pc \in {"push", "record", "idle"}, ~Records(r, p)'
      PROVE  ExportedOnce(p)'
  <2>1. \A l \in RemoteOrders : MadeFrom(l, p)' <=> MadeFrom(l, p)
    BY <1>7 DEF MadeFrom, MadeStays
  <2>2. Holds(r, p) /\ ~Records(r, p)
    BY <1>2, <1>7 DEF Holds, Records
  <2>3. \A l \in RemoteOrders : ~MadeFrom(l, p)
    BY <2>2, <1>7 DEF ExportedOnce
  <2>4. \A s \in Runs : Holds(s, p)' => s = r
    BY <1>7, <2>2 DEF Holds, ExportedOnce
  <2> QED BY <2>1, <2>3, <2>4 DEF ExportedOnce
<1>8. ASSUME NEW k \in RemoteOrders, CallWorks, ~remote[k].made, UNCHANGED doubtful,
             remote' = [remote EXCEPT ![k] = [made |-> TRUE, from |-> o, at |-> placed[o]]],
             run' = [run EXCEPT ![r] = [@ EXCEPT !.pc = "record", !.order = o, !.item = {k}]]
      PROVE  BaselinkerOK'
  <2> DEFINE q == [run[r] EXCEPT !.pc = "record", !.order = o, !.item = {k}]
  <2>1. q \in RunRow /\ q.pc = "record" /\ q.order = o /\ q.item = {k} /\ q.todo = run[r].todo
    BY <1>2, <1>3 DEF RunRow
  <2> HIDE DEF q
  <2>2. run' = [run EXCEPT ![r] = q] /\ run'[r] = q /\ \A s \in Runs \ {r} : run'[s] = run[s]
    BY <1>2, <1>8 DEF q, BaselinkerOrdersTypeOK
  <2>3. /\ remote' \in [RemoteOrders ->
             [made : BOOLEAN, from : Orders \cup {NoOrder}, at : Moments]]
        /\ MadeStays /\ MadeFrom(k, o)' /\ \A l \in RemoteOrders \ {k} : remote'[l] = remote[l]
        /\ \A l \in RemoteOrders : remote'[l] # remote[l] => remote'[l].from = o
    BY <1>6, <1>8
  <2>4. RunFits(r)'
    BY <1>2, <1>3, <2>1, <2>2, <2>3 DEF RunFits
  <2>5. ASSUME NEW p \in Orders \ doubtful', Holds(r, p) \/ Holds(r, p)' \/ p = o
        PROVE  ExportedOnce(p)'
    <3>1. ExportedOnce(p) /\ p \notin doubtful /\ p \in run[r].todo
      BY <1>8, <2>1, <2>2, <2>5 DEF BaselinkerOK, Holds
    <3>2. CASE p # o
      <4>1. ~Records(r, p)'
        BY <2>1, <2>2, <3>2 DEF Records
      <4> QED BY <1>7, <2>1, <2>2, <2>3, <3>1, <3>2, <4>1
    <3>3. CASE p = o
      <4>1. Holds(r, o) /\ ~Records(r, o)
        BY <1>2, <3>1, <3>3 DEF Holds, Records
      <4>2. \A l \in RemoteOrders : ~MadeFrom(l, o)
        BY <3>1, <3>3, <4>1 DEF ExportedOnce
      <4>3. \A l \in RemoteOrders : MadeFrom(l, o)' => l = k
        BY <2>3, <4>2 DEF MadeFrom
      <4>4. Records(r, o)' /\ k \in run'[r].item
        BY <2>1, <2>2 DEF Records
      <4>5. \A s \in Runs : Holds(s, o)' => s = r
        BY <2>2, <3>1, <3>3, <4>1 DEF Holds, ExportedOnce
      <4>6. \A l \in RemoteOrders : MadeFrom(l, o)' =>
              \E s \in Runs : Records(s, o)' /\ l \in run'[s].item
        BY <4>3, <4>4
      <4> QED BY <3>3, <4>3, <4>4, <4>5, <4>6 DEF ExportedOnce
    <3> QED BY <3>2, <3>3
  <2>6. doubtful' \subseteq Orders
    BY <1>2, <1>8 DEF BaselinkerOrdersTypeOK
  <2> QED
    BY <1>2, <1>3, <1>4, <1>5, <1>8, <2>1, <2>2, <2>3, <2>4, <2>5, <2>6, ExportingKeeps
    DEF BaselinkerOrdersTypeOK
<1>9. ASSUME run' = [run EXCEPT ![r] = Onward(r, "push", o)], doubtful' = doubtful \cup {o},
             \/ \E k \in RemoteOrders :
                  /\ ~remote[k].made
                  /\ remote' = [remote EXCEPT ![k] =
                       [made |-> TRUE, from |-> o, at |-> placed[o]]]
             \/ UNCHANGED remote
      PROVE  BaselinkerOK'
  <2> DEFINE q == Onward(r, "push", o)
  <2>1. /\ q \in RunRow /\ q.pc \in {"push", "idle"} /\ q.order = NoOrder
        /\ q.todo = run[r].todo \ {o}
    BY <1>2, <1>3, OnwardIs
  <2> HIDE DEF q
  <2>2. run' = [run EXCEPT ![r] = q] /\ run'[r] = q /\ \A s \in Runs \ {r} : run'[s] = run[s]
    BY <1>2, <1>9 DEF q, BaselinkerOrdersTypeOK
  <2>3. /\ remote' \in [RemoteOrders ->
             [made : BOOLEAN, from : Orders \cup {NoOrder}, at : Moments]]
        /\ MadeStays
        /\ \A l \in RemoteOrders : remote'[l] # remote[l] => remote'[l].from = o
    <3>1. CASE UNCHANGED remote
      BY <1>2, <3>1 DEF MadeStays, BaselinkerOrdersTypeOK
    <3> QED BY <1>6, <1>9, <3>1
  <2>4. RunFits(r)'
    BY <1>2, <1>3, <2>1, <2>2 DEF RunFits
  <2>5. ASSUME NEW p \in Orders \ doubtful', Holds(r, p) \/ Holds(r, p)' \/ p = o
        PROVE  ExportedOnce(p)'
    <3>1. ExportedOnce(p) /\ p \notin doubtful /\ p \in run[r].todo \ {o}
      BY <1>9, <2>1, <2>2, <2>5 DEF BaselinkerOK, Holds
    <3>2. ~Records(r, p)'
      BY <2>1, <2>2 DEF Records
    <3> QED BY <1>7, <2>1, <2>2, <2>3, <3>1, <3>2
  <2>6. doubtful \subseteq doubtful' /\ doubtful' \subseteq Orders
    BY <1>2, <1>3, <1>9 DEF BaselinkerOrdersTypeOK
  <2>7. /\ \A l \in RemoteOrders : syncRow'[l] = syncRow[l]
        /\ syncRow' \in [RemoteOrders ->
             [direction : {"none", "EXPORT", "IMPORT"}, order : Orders \cup {NoOrder}]]
    BY <1>2 DEF BaselinkerOrdersTypeOK
  <2>8. /\ q.pc \in {"idle", "push", "record"} /\ run[r].pc \in {"idle", "push", "record"}
        /\ o \in Orders \cup {NoOrder}
    BY <1>2, <1>3, <2>1
  <2> QED
    BY <1>2, <1>3, <1>4, <1>5, <2>1, <2>2, <2>3, <2>4, <2>5, <2>6, <2>7, <2>8, ExportingKeeps
<1> QED BY <1>1, <1>8, <1>9

\* An export records what it has pushed, or its order is in doubt.
LEMMA RecordingExportKeeps ==
  ASSUME BaselinkerOK, NEW r \in Runs, RecordExport(r)
  PROVE  BaselinkerOK'
<1> DEFINE o == run[r].order
           items == run[r].item
           q == Onward(r, "push", o)
<1>1. /\ BaselinkerOrdersTypeOK /\ run[r].pc = "record" /\ RunFits(r)
      /\ run' = [run EXCEPT ![r] = q]
      /\ UNCHANGED <<moment, link, placed, remote, label, overlooked, bygone>>
      /\ \/ /\ CallWorks
            /\ syncRow' = [k \in RemoteOrders |->
                 IF k \in items THEN [direction |-> "EXPORT", order |-> o] ELSE syncRow[k]]
            /\ UNCHANGED doubtful
         \/ CallFails /\ doubtful' = doubtful \cup {o} /\ UNCHANGED syncRow
  BY DEF BaselinkerOK, RecordExport, RunAt
<1>2. /\ o \in Orders /\ o \in run[r].todo /\ \A k \in items : MadeFrom(k, o)
      /\ run[r].todo \subseteq Orders /\ \A p \in run[r].todo : placed[p] # Nowhen
  BY <1>1 DEF RunFits
<1>3. /\ q \in RunRow /\ q.pc \in {"push", "idle"} /\ q.order = NoOrder
      /\ q.todo = run[r].todo \ {o}
  BY <1>1, <1>2, OnwardIs
<1>4. failures' \in 0..MostFailures
  <2>1. failures \in 0..MostFailures /\ MostFailures \in Nat /\ (CallWorks \/ CallFails)
    BY <1>1, BaselinkerOrdersAssumption DEF BaselinkerOrdersTypeOK, BaselinkerOrdersAssumption
  <2> QED BY <2>1 DEF CallWorks, CallFails
<1>5. PICK order, made : order = o /\ made = items
  OBVIOUS
<1> HIDE DEF q
<1>6. run'[r] = q /\ \A s \in Runs \ {r} : run'[s] = run[s]
  BY <1>1 DEF BaselinkerOrdersTypeOK
<1>7. /\ \A k \in RemoteOrders : \/ syncRow'[k] = syncRow[k]
                                 \/ k \in made /\ ExportRow(k, order)'
      /\ order \notin doubtful' => \A k \in made : k \in RemoteOrders => ExportRow(k, order)'
      /\ syncRow' \in [RemoteOrders ->
           [direction : {"none", "EXPORT", "IMPORT"}, order : Orders \cup {NoOrder}]]
      /\ doubtful \subseteq doubtful' /\ doubtful' \subseteq Orders
  <2>1. CASE UNCHANGED syncRow /\ doubtful' = doubtful \cup {o}
    BY <1>1, <1>2, <1>5, <2>1 DEF BaselinkerOrdersTypeOK
  <2>2. CASE /\ syncRow' = [k \in RemoteOrders |->
                  IF k \in items THEN [direction |-> "EXPORT", order |-> o] ELSE syncRow[k]]
             /\ UNCHANGED doubtful
    BY <1>1, <1>2, <1>5, <2>2 DEF BaselinkerOrdersTypeOK, ExportRow
  <2> QED BY <1>1, <2>1, <2>2
<1>8. KnownStays /\ MadeStays
  <2>1. KnownStays
    BY <1>7 DEF KnownStays, Known, ExportRow
  <2> QED BY <1>1, <2>1 DEF MadeStays
<1>9. RunFits(r)'
  BY <1>1, <1>2, <1>3, <1>6 DEF RunFits
<1>10. ASSUME NEW p \in Orders \ doubtful', Holds(r, p) \/ Holds(r, p)' \/ p = order
       PROVE  ExportedOnce(p)'
  <2>1. ExportedOnce(p) /\ p \in run[r].todo /\ Holds(r, p)
    BY <1>1, <1>2, <1>3, <1>5, <1>6, <1>7, <1>10 DEF BaselinkerOK, Holds
  <2>2. \A k \in RemoteOrders : MadeFrom(k, p)' <=> MadeFrom(k, p)
    BY <1>1 DEF MadeFrom
  <2>3. ASSUME NEW k \in RemoteOrders, ExportRow(k, p) PROVE ExportRow(k, p)'
    <3>1. CASE syncRow'[k] = syncRow[k]
      BY <2>3, <3>1 DEF ExportRow
    <3>2. CASE k \in made /\ ExportRow(k, order)'
      <4>1. MadeFrom(k, p) /\ MadeFrom(k, order)
        BY <1>2, <1>5, <2>3, <3>2 DEF BaselinkerOK, RemoteFits
      <4> QED BY <3>2, <4>1 DEF MadeFrom
    <3> QED BY <1>7, <3>1, <3>2
  <2>4. CASE p = order
    <3>1. ASSUME NEW k \in RemoteOrders, MadeFrom(k, p)
          PROVE  ExportRow(k, p)' \/ \E s \in Runs : Records(s, p)' /\ k \in run'[s].item
      <4>1. CASE ExportRow(k, p)
        BY <2>3, <4>1
      <4>2. ASSUME NEW s \in Runs, Records(s, p), k \in run[s].item
            PROVE  ExportRow(k, p)' \/ (Records(s, p)' /\ k \in run'[s].item)
        <5>1. CASE s = r
          BY <1>5, <1>7, <2>4, <4>2, <5>1
        <5>2. CASE s # r
          BY <1>6, <4>2, <5>2 DEF Records
        <5> QED BY <5>1, <5>2
      <4> QED BY <2>1, <3>1, <4>1, <4>2 DEF ExportedOnce
    <3>2. ASSUME NEW s \in Runs PROVE ~Holds(s, p)'
      <4>1. CASE s = r
        BY <1>3, <1>5, <1>6, <2>4, <4>1 DEF Holds
      <4>2. CASE s # r
        BY <1>6, <2>1, <4>2 DEF Holds, ExportedOnce
      <4> QED BY <4>1, <4>2
    <3> QED BY <2>1, <2>2, <3>1, <3>2 DEF ExportedOnce
  <2>5. CASE p # order
    <3>1. ~Records(r, p) /\ ~Records(r, p)'
      BY <1>3, <1>5, <1>6, <2>5 DEF Records
    <3>2. \A s \in Runs : Records(s, p) => run'[s] = run[s]
      BY <1>6, <3>1
    <3>3. \A s \in Runs : Records(s, p)' <=> Records(s, p)
      BY <1>6, <3>1 DEF Records
    <3>4. \A s \in Runs : Holds(s, p)' => Holds(s, p)
      BY <1>6, <2>1 DEF Holds
    <3> QED BY <2>1, <2>2, <2>3, <3>2, <3>3, <3>4, ExportKept
  <2> QED BY <2>4, <2>5
<1>11. /\ \A k \in RemoteOrders : syncRow'[k] # syncRow[k] => MadeFrom(k, order) /\ ExportRow(k, order)'
       /\ \A k \in RemoteOrders : remote'[k] = remote[k]
       /\ remote' \in [RemoteOrders ->
            [made : BOOLEAN, from : Orders \cup {NoOrder}, at : Moments]]
  BY <1>1, <1>2, <1>5, <1>7 DEF BaselinkerOrdersTypeOK
<1>12. /\ q.pc \in {"idle", "push", "record"} /\ run[r].pc \in {"idle", "push", "record"}
       /\ order \in Orders \cup {NoOrder}
  BY <1>1, <1>2, <1>3, <1>5
<1> QED
  BY <1>1, <1>3, <1>4, <1>7, <1>8, <1>9, <1>10, <1>11, <1>12, ExportingKeeps

\* A run that ends has nothing in hand.
LEMMA NoRunFits ==
  /\ NoRun \in RunRow /\ NoRun.pc = "idle"
  /\ \A r \in Runs : run'[r] = NoRun => RunFits(r)' /\ ImportFits(r)'
<1>1. 0 \in Moments
  BY BaselinkerOrdersAssumption DEF BaselinkerOrdersAssumption, Moments
<1>2. NoRun \in RunRow /\ NoRun.pc = "idle"
  BY <1>1 DEF NoRun, RunRow
<1> QED BY <1>2 DEF RunFits, ImportFits

\* A run that dies leaves what it was recording in doubt.
LEMMA DyingKeeps ==
  ASSUME BaselinkerOK, NEW r \in Runs, RunDies(r)
  PROVE  BaselinkerOK'
<1>1. /\ BaselinkerOrdersTypeOK /\ run[r].pc # "idle" /\ RunFits(r)
      /\ run' = [run EXCEPT ![r] = NoRun]
      /\ doubtful' = IF run[r].pc = "record" THEN doubtful \cup {run[r].order} ELSE doubtful
      /\ UNCHANGED <<moment, link, placed, remote, syncRow, label, overlooked, bygone>>
  BY DEF BaselinkerOK, RunDies, RunAt, RunEnds
<1>2. failures' \in 0..MostFailures
  <2>1. failures \in 0..MostFailures /\ MostFailures \in Nat /\ CallFails
    BY <1>1, BaselinkerOrdersAssumption
    DEF BaselinkerOrdersTypeOK, BaselinkerOrdersAssumption, RunDies
  <2> QED BY <2>1 DEF CallFails
<1>3. run'[r] = NoRun /\ \A s \in Runs \ {r} : run'[s] = run[s]
  BY <1>1 DEF BaselinkerOrdersTypeOK
<1>4. RunFits(r)' /\ ImportFits(r)' /\ NoRun \in RunRow /\ NoRun.pc = "idle"
  BY <1>3, NoRunFits
<1>5. CASE run[r].pc \notin {"push", "record"}
  <2>1. UNCHANGED doubtful
    BY <1>1, <1>5
  <2>2. ImportMissesNone' /\ (link.importedAt # Nowhen => link.importedAt <= moment)
    BY <1>1 DEF BaselinkerOK, ImportMissesNone
  <2>3. link' \in [enabled : BOOLEAN, exists : BOOLEAN, importedAt : 0..Nowhen] /\ link' = link
        /\ bygone \subseteq bygone' /\ bygone' \subseteq RemoteOrders
    BY <1>1 DEF BaselinkerOrdersTypeOK
  <2> QED BY <1>1, <1>2, <1>4, <1>5, <2>1, <2>2, <2>3, QuietRunKeeps
<1>6. CASE run[r].pc \in {"push", "record"}
  <2>1. ASSUME NEW p \in Orders \ doubtful' PROVE ExportedOnce(p)'
    <3>1. ExportedOnce(p) /\ ~Records(r, p)
      BY <1>1, <2>1 DEF BaselinkerOK, Records
    <3>2. \A s \in Runs : Records(s, p) => run'[s] = run[s]
      BY <1>3, <3>1
    <3>3. \A s \in Runs : (Records(s, p)' <=> Records(s, p)) /\ (Holds(s, p)' => Holds(s, p))
      BY <1>3, <1>4, <3>1 DEF Records, Holds
    <3>4. \A k \in RemoteOrders : /\ MadeFrom(k, p)' <=> MadeFrom(k, p)
                                  /\ ExportRow(k, p)' <=> ExportRow(k, p)
      BY <1>1 DEF MadeFrom, ExportRow
    <3> QED BY <3>1, <3>2, <3>3, <3>4, ExportKept
  <2>2. doubtful \subseteq doubtful' /\ doubtful' \subseteq Orders
    BY <1>1 DEF BaselinkerOrdersTypeOK, RunFits
  <2>3. MadeStays /\ KnownStays
    BY <1>1 DEF MadeStays, KnownStays, Known
  <2> QED
    BY <1>1, <1>2, <1>4, <1>6, <2>1, <2>2, <2>3, ExportingKeeps DEF BaselinkerOrdersTypeOK
<1> QED BY <1>5, <1>6

\* An import begins, asks, looks a number up or ends; a label is begun or asked for.
LEMMA ReadingRunsKeep ==
  ASSUME BaselinkerOK, NEW r \in Runs,
         \/ BeginImport(r) \/ AskOrders(r) \/ FindOrderSync(r) \/ CallForLabel(r)
         \/ \E o \in Orders : BeginLabel(r, o)
  PROVE  BaselinkerOK'
<1>1. /\ BaselinkerOrdersTypeOK /\ run \in [Runs -> RunRow] /\ run[r] \in RunRow
      /\ RunFits(r) /\ ImportFits(r) /\ ImportMissesNone
      /\ link.importedAt # Nowhen => link.importedAt <= moment
      /\ moment \in Nat /\ LastMoment \in Nat
  BY BaselinkerOrdersAssumption
  DEF BaselinkerOK, BaselinkerOrdersTypeOK, Moments, BaselinkerOrdersAssumption
<1>2. /\ UNCHANGED <<moment, link, placed, remote, syncRow, label, doubtful, overlooked>>
      /\ bygone \subseteq bygone' /\ bygone' \subseteq RemoteOrders
  <2>1. bygone \subseteq RemoteOrders
    BY <1>1 DEF BaselinkerOrdersTypeOK
  <2> QED
    BY <2>1 DEF BeginImport, AskOrders, FindOrderSync, CallForLabel, BeginLabel, Strangers
<1>3. failures' \in 0..MostFailures
  <2>1. failures \in 0..MostFailures /\ MostFailures \in Nat
    BY <1>1, BaselinkerOrdersAssumption DEF BaselinkerOrdersTypeOK, BaselinkerOrdersAssumption
  <2>2. UNCHANGED failures \/ CallFails
    BY DEF BeginImport, AskOrders, FindOrderSync, CallForLabel, BeginLabel, CallWorks
  <2> QED BY <2>1, <2>2 DEF CallFails
<1>4. ImportMissesNone' /\ link' = link
      /\ link' \in [enabled : BOOLEAN, exists : BOOLEAN, importedAt : 0..Nowhen]
  BY <1>1, <1>2 DEF ImportMissesNone, BaselinkerOrdersTypeOK
<1>5. ASSUME NEW q \in RunRow, run' = [run EXCEPT ![r] = q], RunFits(r)', ImportFits(r)',
             run[r].pc \notin {"push", "record"}, q.pc \notin {"push", "record"}
      PROVE  BaselinkerOK'
  BY <1>1, <1>2, <1>3, <1>4, <1>5, QuietRunKeeps
<1>6. ASSUME run[r].pc \notin {"push", "record"}, RunEnds(r) PROVE BaselinkerOK'
  <2>1. run'[r] = NoRun
    BY <1>1, <1>6 DEF RunEnds
  <2> QED BY <1>5, <1>6, <2>1, NoRunFits DEF RunEnds
<1>7. ASSUME NEW q \in RunRow, run' = [run EXCEPT ![r] = q],
             q.pc \in {"ask", "lookup", "import"}, q.since <= moment,
             q.pc # "ask" => q.todo \subseteq RemoteOrders,
             \A k \in RemoteOrders \ (overlooked \cup bygone') : MadeFrom(k, NoOrder) =>
               Known(k) \/ IF q.pc = "ask" THEN remote[k].at >= q.since ELSE k \in q.todo
      PROVE  RunFits(r)' /\ ImportFits(r)'
  <2>1. run'[r] = q
    BY <1>1, <1>7
  <2> QED BY <1>2, <1>7, <2>1 DEF RunFits, ImportFits, MadeFrom, Known
<1>8. CASE BeginImport(r)
  <2> DEFINE q == [NoRun EXCEPT !.pc = "ask", !.since = DateFrom]
  <2>1. /\ DateFrom \in Moments /\ DateFrom \in Nat /\ DateFrom <= moment /\ WeekAgo \in Nat
        /\ link.importedAt # Nowhen => DateFrom = link.importedAt
        /\ link.importedAt = Nowhen => DateFrom = WeekAgo
    BY <1>1, BaselinkerOrdersAssumption
    DEF BaselinkerOrdersTypeOK, Moments, Nowhen, DateFrom, WeekAgo, BaselinkerOrdersAssumption
  <2>2. q \in RunRow /\ q.pc = "ask" /\ q.since = DateFrom
    BY <2>1 DEF NoRun, RunRow
  <2>3. run' = [run EXCEPT ![r] = q] /\ run[r].pc = "idle"
    BY <1>8 DEF BeginImport, RunAt
  <2> HIDE DEF q
  <2>4. ASSUME NEW k \in RemoteOrders \ (overlooked \cup bygone'), MadeFrom(k, NoOrder)
        PROVE  Known(k) \/ remote[k].at >= DateFrom
    <3>1. remote[k].at \in Nat
      BY <1>1 DEF BaselinkerOrdersTypeOK, Moments
    <3>2. CASE link.importedAt = Nowhen
      <4>1. k \in Strangers => ~(remote[k].at < WeekAgo)
        BY <1>8, <2>4, <3>2 DEF BeginImport
      <4>2. Known(k) \/ k \in Strangers
        BY <2>4 DEF Strangers, MadeFrom, Known
      <4> QED BY <2>1, <3>1, <3>2, <4>1, <4>2
    <3>3. CASE link.importedAt # Nowhen
      BY <1>1, <1>2, <2>1, <2>4, <3>1, <3>3 DEF ImportMissesNone, MadeFrom, Known
    <3> QED BY <3>2, <3>3
  <2> QED BY <1>5, <1>7, <2>1, <2>2, <2>3, <2>4
<1>9. CASE AskOrders(r)
  <2> DEFINE todo == {k \in RemoteOrders : remote[k].made /\ remote[k].at >= run[r].since}
             q == [NoRun EXCEPT !.pc = "lookup", !.todo = todo]
  <2>1. run[r].pc = "ask"
    BY <1>9 DEF AskOrders, RunAt
  <2>2. todo \in SUBSET RemoteOrders
    OBVIOUS
  <2>3. ASSUME NEW k \in RemoteOrders \ (overlooked \cup bygone'), MadeFrom(k, NoOrder)
        PROVE  Known(k) \/ k \in todo
    BY <1>1, <1>2, <2>1, <2>3 DEF ImportFits, MadeFrom
  <2> HIDE DEF todo
  <2>4. q \in RunRow /\ q.pc = "lookup" /\ q.todo = todo /\ q.since <= moment
    <3>1. NoRun \in RunRow /\ NoRun.since = 0 /\ todo \in SUBSET (Orders \cup RemoteOrders)
      BY <2>2, NoRunFits DEF NoRun
    <3>2. q \in RunRow /\ q.pc = "lookup" /\ q.todo = todo /\ q.since = 0
      BY <3>1 DEF RunRow
    <3>3. 0 <= moment
      BY <1>1 DEF BaselinkerOrdersTypeOK
    <3> QED BY <3>2, <3>3
  <2>5. run' = [run EXCEPT ![r] = q] \/ RunEnds(r)
    BY <1>9 DEF AskOrders, todo
  <2> HIDE DEF q
  <2> QED BY <1>5, <1>6, <1>7, <2>1, <2>2, <2>3, <2>4, <2>5
<1>10. CASE FindOrderSync(r)
  <2>1. PICK k \in run[r].todo :
          run' = [run EXCEPT ![r] =
            IF syncRow[k].direction # "none" THEN [@ EXCEPT !.todo = run[r].todo \ {k}]
            ELSE [@ EXCEPT !.pc = "import", !.item = {k}]]
    BY <1>10 DEF FindOrderSync
  <2>2. run[r].pc = "lookup" /\ run[r].since <= moment /\ run[r].todo \subseteq RemoteOrders
        /\ \A l \in RemoteOrders \ (overlooked \cup bygone') :
             MadeFrom(l, NoOrder) => Known(l) \/ l \in run[r].todo
    BY <1>1, <1>2, <1>10 DEF FindOrderSync, RunAt, ImportFits
  <2>3. CASE Known(k)
    <3> DEFINE q == [run[r] EXCEPT !.todo = run[r].todo \ {k}]
    <3>1. q \in RunRow /\ q.pc = "lookup" /\ q.todo = run[r].todo \ {k} /\ q.since = run[r].since
      BY <1>1, <2>2 DEF RunRow
    <3>2. run' = [run EXCEPT ![r] = q]
      BY <2>1, <2>3 DEF Known
    <3> HIDE DEF q
    <3> QED BY <1>5, <1>7, <2>2, <2>3, <3>1, <3>2
  <2>4. CASE ~Known(k)
    <3> DEFINE q == [run[r] EXCEPT !.pc = "import", !.item = {k}]
    <3>1. run' = [run EXCEPT ![r] = q]
      BY <2>1, <2>4 DEF Known
    <3>2. k \in RemoteOrders
      BY <2>2
    <3>3. q \in RunRow /\ q.pc = "import" /\ q.todo = run[r].todo /\ q.since = run[r].since
      BY <1>1, <3>2 DEF RunRow
    <3> HIDE DEF q
    <3> QED BY <1>5, <1>7, <2>2, <3>1, <3>3
  <2> QED BY <2>3, <2>4
<1>11. CASE CallForLabel(r)
  <2>1. run[r].pc \in {"package", "label"}
    BY <1>11 DEF CallForLabel
  <2>2. CASE RunEnds(r)
    BY <1>6, <2>1, <2>2
  <2>3. CASE run' = [run EXCEPT ![r].pc = IF RunAt(r, "package") THEN "label" ELSE "ship"]
    <3> DEFINE pc == IF RunAt(r, "package") THEN "label" ELSE "ship"
               q == [run[r] EXCEPT !.pc = pc]
    <3>1. pc \in {"label", "ship"}
      OBVIOUS
    <3>2. run' = [run EXCEPT ![r] = q]
      BY <2>3
    <3> HIDE DEF pc
    <3>3. q \in RunRow /\ q.pc = pc /\ q.order = run[r].order /\ q.item = run[r].item
      BY <1>1, <3>1 DEF RunRow
    <3> HIDE DEF q
    <3>4. run'[r] = q
      BY <1>1, <3>2
    <3>5. RunFits(r)'
      BY <1>1, <1>2, <2>1, <3>1, <3>3, <3>4 DEF RunFits, MadeFrom
    <3>6. ImportFits(r)'
      BY <3>1, <3>3, <3>4 DEF ImportFits
    <3> QED BY <1>5, <2>1, <3>1, <3>2, <3>3, <3>5, <3>6
  <2> QED BY <1>11, <2>2, <2>3 DEF CallForLabel
<1>12. ASSUME NEW o \in Orders, BeginLabel(r, o) PROVE BaselinkerOK'
  <2>1. PICK k \in Exported(o) :
          run' = [run EXCEPT ![r] = [NoRun EXCEPT !.pc = "package", !.order = o, !.item = {k}]]
    BY <1>12 DEF BeginLabel
  <2> DEFINE q == [NoRun EXCEPT !.pc = "package", !.order = o, !.item = {k}]
  <2>2. k \in RemoteOrders /\ MadeFrom(k, o)
    BY DEF Exported, BaselinkerOK, RemoteFits, ExportRow
  <2>3. q \in RunRow /\ q.pc = "package" /\ q.order = o /\ q.item = {k}
    BY <2>2, NoRunFits DEF RunRow, NoRun
  <2> HIDE DEF q
  <2>4. run' = [run EXCEPT ![r] = q] /\ run'[r] = q /\ run[r].pc = "idle"
    BY <1>1, <1>12, <2>1 DEF q, BeginLabel, RunAt
  <2>5. RunFits(r)' /\ ImportFits(r)'
    BY <1>2, <2>2, <2>3, <2>4 DEF RunFits, ImportFits, MadeFrom
  <2> QED BY <1>5, <2>3, <2>4, <2>5
<1> QED BY <1>8, <1>9, <1>10, <1>11, <1>12

\* An import ends when everything it was answered is known, but what was overlooked.
LEMMA EndingImportKeeps ==
  ASSUME BaselinkerOK, NEW r \in Runs, EndImport(r)
  PROVE  BaselinkerOK'
<1>1. /\ BaselinkerOrdersTypeOK /\ run[r].pc = "lookup" /\ run[r].todo = {} /\ ImportFits(r)
      /\ link' = IF link.exists THEN [link EXCEPT !.importedAt = moment] ELSE link
      /\ run' = [run EXCEPT ![r] = NoRun]
      /\ UNCHANGED <<moment, placed, remote, syncRow, label, doubtful, overlooked, bygone, failures>>
  BY DEF BaselinkerOK, EndImport, RunAt, RunEnds
<1>2. moment \in Nat /\ LastMoment \in Nat /\ moment <= LastMoment /\ moment # Nowhen
  BY <1>1, BaselinkerOrdersAssumption
  DEF BaselinkerOrdersTypeOK, Moments, Nowhen, BaselinkerOrdersAssumption
<1>3. /\ link' \in [enabled : BOOLEAN, exists : BOOLEAN, importedAt : 0..Nowhen]
      /\ link'.importedAt # Nowhen => link'.importedAt <= moment
  BY <1>1, <1>2 DEF BaselinkerOK, BaselinkerOrdersTypeOK, Nowhen
<1>4. ImportMissesNone'
  <2>1. \A k \in RemoteOrders \ (overlooked \cup bygone) : MadeFrom(k, NoOrder) => Known(k)
    BY <1>1 DEF ImportFits
  <2> QED BY <1>1, <2>1 DEF ImportMissesNone, MadeFrom, Known
<1>5. run'[r] = NoRun
  BY <1>1 DEF BaselinkerOrdersTypeOK
<1>6. /\ failures' \in 0..MostFailures
      /\ bygone \subseteq bygone' /\ bygone' \subseteq RemoteOrders
  BY <1>1 DEF BaselinkerOrdersTypeOK
<1> QED BY <1>1, <1>3, <1>4, <1>5, <1>6, NoRunFits, QuietRunKeeps

\* An import writes its row, or has overlooked it; an export it overwrites is in doubt.
LEMMA RecordingImportKeeps ==
  ASSUME BaselinkerOK, NEW r \in Runs, RecordImport(r)
  PROVE  BaselinkerOK'
<1> DEFINE items == run[r].item
           q == [run[r] EXCEPT !.pc = "lookup", !.todo = run[r].todo \ items, !.item = {}]
<1>1. /\ BaselinkerOrdersTypeOK /\ run \in [Runs -> RunRow] /\ run[r].pc = "import"
      /\ run[r] \in RunRow /\ ImportFits(r)
      /\ run' = [run EXCEPT ![r] = q]
      /\ UNCHANGED <<moment, link, placed, remote, label, bygone>>
      /\ \/ /\ CallWorks
            /\ syncRow' = [k \in RemoteOrders |->
                 IF k \in items THEN [direction |-> "IMPORT", order |-> NoOrder] ELSE syncRow[k]]
            /\ doubtful' = doubtful \cup ({syncRow[k].order : k \in items} \ {NoOrder})
            /\ UNCHANGED overlooked
         \/ CallFails /\ overlooked' = overlooked \cup items /\ UNCHANGED <<syncRow, doubtful>>
  <2>1. /\ BaselinkerOrdersTypeOK /\ run \in [Runs -> RunRow] /\ ImportFits(r)
        /\ run[r] \in RunRow
    BY DEF BaselinkerOK, BaselinkerOrdersTypeOK
  <2>2. run' = [run EXCEPT ![r] = q]
    BY DEF RecordImport
  <2>3. run[r].pc = "import" /\ UNCHANGED <<moment, link, placed, remote, label, bygone>>
    BY DEF RecordImport, RunAt
  <2> QED BY <2>1, <2>2, <2>3 DEF RecordImport
<1>2. PICK made : made = items /\ made \subseteq RemoteOrders
  BY <1>1 DEF RunRow
<1>3. /\ q \in RunRow /\ q.pc = "lookup" /\ q.todo = run[r].todo \ made
      /\ q.since = run[r].since
  BY <1>1, <1>2 DEF RunRow
<1> HIDE DEF q
<1>4. run' \in [Runs -> RunRow] /\ run'[r] = q /\ \A s \in Runs \ {r} : run'[s] = run[s]
  BY <1>1, <1>3, RunGoes
<1>5. failures' \in 0..MostFailures
  <2>1. failures \in 0..MostFailures /\ MostFailures \in Nat /\ (CallWorks \/ CallFails)
    BY <1>1, BaselinkerOrdersAssumption DEF BaselinkerOrdersTypeOK, BaselinkerOrdersAssumption
  <2> QED BY <2>1 DEF CallWorks, CallFails
<1>6. /\ \A k \in RemoteOrders : \/ syncRow'[k] = syncRow[k]
                                 \/ k \in made /\ syncRow'[k].direction = "IMPORT"
      /\ \A k \in made : k \in overlooked' \/ Known(k)'
      /\ \A k \in made : syncRow'[k] # syncRow[k] => syncRow[k].order \in doubtful' \cup {NoOrder}
      /\ syncRow' \in [RemoteOrders ->
           [direction : {"none", "EXPORT", "IMPORT"}, order : Orders \cup {NoOrder}]]
      /\ doubtful \subseteq doubtful' /\ doubtful' \subseteq Orders
      /\ overlooked \subseteq overlooked' /\ overlooked' \subseteq RemoteOrders
  <2>1. CASE overlooked' = overlooked \cup items /\ UNCHANGED <<syncRow, doubtful>>
    BY <1>1, <1>2, <2>1 DEF BaselinkerOrdersTypeOK
  <2>2. CASE /\ syncRow' = [k \in RemoteOrders |->
                  IF k \in items THEN [direction |-> "IMPORT", order |-> NoOrder] ELSE syncRow[k]]
             /\ doubtful' = doubtful \cup ({syncRow[k].order : k \in items} \ {NoOrder})
             /\ UNCHANGED overlooked
    BY <1>1, <1>2, <2>2 DEF BaselinkerOrdersTypeOK, Known
  <2> QED BY <1>1, <2>1, <2>2
<1>7. BaselinkerOrdersTypeOK'
  BY <1>1, <1>4, <1>5, <1>6 DEF BaselinkerOrdersTypeOK
<1>8. PlacedStays /\ MadeStays /\ NoArrival /\ KnownStays /\ moment <= moment'
  <2>1. KnownStays
    BY <1>6 DEF KnownStays, Known
  <2>2. moment <= moment'
    BY <1>1, BaselinkerOrdersAssumption
    DEF BaselinkerOrdersTypeOK, Moments, BaselinkerOrdersAssumption
  <2> QED BY <1>1, <2>1, <2>2 DEF PlacedStays, MadeStays, NoArrival, MadeFrom
<1>9. \A s \in Runs : RunFits(s)'
  <2>1. RunFits(r)'
    BY <1>3, <1>4 DEF RunFits
  <2> QED BY <1>1, <1>4, <1>8, <2>1, RunKept DEF BaselinkerOK
<1>10. \A s \in Runs : ImportFits(s)'
  <2>1. ASSUME NEW k \in RemoteOrders \ (overlooked' \cup bygone'), MadeFrom(k, NoOrder)
        PROVE  Known(k)' \/ k \in run[r].todo \ made
    <3>1. Known(k) \/ k \in run[r].todo
      BY <1>1, <1>6, <2>1 DEF ImportFits
    <3> QED BY <1>6, <1>8, <3>1 DEF KnownStays
  <2>2. run[r].since <= moment /\ run[r].todo \subseteq RemoteOrders
    BY <1>1 DEF ImportFits
  <2>3. ImportFits(r)'
    BY <1>1, <1>3, <1>4, <2>1, <2>2 DEF ImportFits, MadeFrom
  <2> QED BY <1>1, <1>4, <1>6, <1>7, <1>8, <2>3, ImportKept DEF BaselinkerOK
<1>11. ASSUME NEW k \in RemoteOrders PROVE RemoteFits(k)'
  <2>1. \A o \in Orders : ExportRow(k, o)' => ExportRow(k, o)
    BY <1>6 DEF ExportRow
  <2> QED BY <1>1, <2>1 DEF BaselinkerOK, RemoteFits, MadeFrom
<1>12. ASSUME NEW p \in Orders \ doubtful' PROVE ExportedOnce(p)'
  <2>1. ExportedOnce(p)
    BY <1>6 DEF BaselinkerOK
  <2>2. ASSUME NEW k \in RemoteOrders, ExportRow(k, p) PROVE ExportRow(k, p)'
    BY <1>6, <2>2, BaselinkerOrdersAssumption DEF ExportRow, BaselinkerOrdersAssumption
  <2>3. \A s \in Runs : (Holds(s, p)' <=> Holds(s, p)) /\ (Records(s, p)' <=> Records(s, p))
    BY <1>1, <1>3, <1>4 DEF Holds, Records
  <2>4. \A s \in Runs : Records(s, p) => run'[s] = run[s]
    BY <1>1, <1>4 DEF Records
  <2>5. \A k \in RemoteOrders : MadeFrom(k, p)' <=> MadeFrom(k, p)
    BY <1>1 DEF MadeFrom
  <2> QED BY <2>1, <2>2, <2>3, <2>4, <2>5, ExportKept
<1>13. ImportMissesNone' /\ (link'.importedAt # Nowhen => link'.importedAt <= moment')
  <2>1. \A k \in RemoteOrders : Known(k) => Known(k)'
    BY <1>8 DEF KnownStays
  <2> QED BY <1>1, <1>6, <2>1 DEF BaselinkerOK, ImportMissesNone, Known
<1> QED BY <1>7, <1>9, <1>10, <1>11, <1>12, <1>13 DEF BaselinkerOK

\* A label is of the Baselinker order that its run has named all along.
LEMMA WritingLabelKeeps ==
  ASSUME BaselinkerOK, NEW r \in Runs, WriteLabel(r)
  PROVE  BaselinkerOK'
<1>1. /\ BaselinkerOrdersTypeOK /\ run \in [Runs -> RunRow] /\ run[r].pc = "ship"
      /\ run[r] \in RunRow /\ RunFits(r)
      /\ label' = [label EXCEPT ![run[r].order] = run[r].item]
      /\ run' = [run EXCEPT ![r] = NoRun]
      /\ UNCHANGED <<moment, link, placed, remote, syncRow, doubtful, overlooked, bygone, failures>>
  BY DEF BaselinkerOK, WriteLabel, RunAt, RunEnds, BaselinkerOrdersTypeOK
<1>2. run' \in [Runs -> RunRow] /\ run'[r] = NoRun /\ \A s \in Runs \ {r} : run'[s] = run[s]
  BY <1>1, NoRunFits, RunGoes
<1>3. label' \in [Orders -> SUBSET RemoteOrders]
  BY <1>1 DEF BaselinkerOrdersTypeOK, RunRow
<1>4. BaselinkerOrdersTypeOK'
  BY <1>1, <1>2, <1>3 DEF BaselinkerOrdersTypeOK
<1>5. PlacedStays /\ MadeStays /\ NoArrival /\ KnownStays /\ moment <= moment'
  <2>1. moment <= moment'
    BY <1>1, BaselinkerOrdersAssumption
    DEF BaselinkerOrdersTypeOK, Moments, BaselinkerOrdersAssumption
  <2> QED BY <1>1, <2>1 DEF PlacedStays, MadeStays, NoArrival, MadeFrom, KnownStays, Known
<1>6. \A s \in Runs : RunFits(s)' /\ ImportFits(s)'
  <2>1. overlooked \subseteq overlooked' /\ bygone \subseteq bygone'
    BY <1>1
  <2> QED BY <1>1, <1>2, <1>4, <1>5, <2>1, NoRunFits, RunKept, ImportKept DEF BaselinkerOK
<1>7. ASSUME NEW k \in RemoteOrders PROVE RemoteFits(k)'
  <2>1. RemoteFits(k)
    BY DEF BaselinkerOK
  <2>2. ASSUME NEW o \in Orders, k \in label'[o] PROVE MadeFrom(k, o)
    <3>1. CASE o = run[r].order
      BY <1>1, <2>2, <3>1 DEF RunFits, BaselinkerOrdersTypeOK
    <3>2. CASE o # run[r].order
      BY <1>1, <2>1, <2>2, <3>2 DEF RemoteFits, BaselinkerOrdersTypeOK
    <3> QED BY <3>1, <3>2
  <2> QED BY <1>1, <2>1, <2>2 DEF RemoteFits, MadeFrom, ExportRow
<1>8. ASSUME NEW p \in Orders \ doubtful' PROVE ExportedOnce(p)'
  <2>1. ExportedOnce(p)
    BY <1>1 DEF BaselinkerOK
  <2>2. \A s \in Runs : (Holds(s, p)' <=> Holds(s, p)) /\ (Records(s, p)' <=> Records(s, p))
    BY <1>1, <1>2, NoRunFits DEF Holds, Records
  <2>3. \A s \in Runs : Records(s, p) => run'[s] = run[s]
    BY <1>1, <1>2 DEF Records
  <2>4. \A k \in RemoteOrders : /\ MadeFrom(k, p)' <=> MadeFrom(k, p)
                                /\ ExportRow(k, p)' <=> ExportRow(k, p)
    BY <1>1 DEF MadeFrom, ExportRow
  <2> QED BY <2>1, <2>2, <2>3, <2>4, ExportKept
<1>9. ImportMissesNone' /\ (link'.importedAt # Nowhen => link'.importedAt <= moment')
  BY <1>1 DEF BaselinkerOK, ImportMissesNone
<1> QED BY <1>4, <1>6, <1>7, <1>8, <1>9 DEF BaselinkerOK

\* Every step of the exchange of orders keeps the invariant.
LEMMA BaselinkerNextOK == BaselinkerOK /\ [BaselinkerOrdersNext]_baselinkerVars => BaselinkerOK'
<1> SUFFICES ASSUME BaselinkerOK, [BaselinkerOrdersNext]_baselinkerVars PROVE BaselinkerOK'
  OBVIOUS
<1>1. CASE UNCHANGED baselinkerVars
  <2>1. UNCHANGED <<moment, link, placed, remote, syncRow, label, run, doubtful, overlooked, bygone, failures>>
    BY <1>1 DEF baselinkerVars
  <2>2. BaselinkerOrdersTypeOK' /\ ImportMissesNone'
        /\ (link'.importedAt # Nowhen => link'.importedAt <= moment')
    BY <2>1 DEF BaselinkerOK, BaselinkerOrdersTypeOK, ImportMissesNone
  <2>3. \A r \in Runs : RunFits(r)' /\ ImportFits(r)'
    BY <2>1 DEF BaselinkerOK, RunFits, ImportFits, MadeFrom, Known
  <2>4. \A k \in RemoteOrders : RemoteFits(k)'
    BY <2>1 DEF BaselinkerOK, RemoteFits, MadeFrom, ExportRow
  <2>5. \A o \in Orders \ doubtful' : ExportedOnce(o)'
    BY <2>1 DEF BaselinkerOK, ExportedOnce, MadeFrom, ExportRow, Holds, Records
  <2> QED BY <2>2, <2>3, <2>4, <2>5 DEF BaselinkerOK
<1> QED
  BY <1>1, AroundRunsKeeps, BeginningExportKeeps, PushingKeeps, RecordingExportKeeps, DyingKeeps,
     ReadingRunsKeep, EndingImportKeeps, RecordingImportKeeps, WritingLabelKeeps
  DEF BaselinkerOrdersNext

\* What the store and Baselinker know of each other's orders agrees: Baselinker has an
\* order once, unless its push or record overlapped another run or failed; what came
\* before the last import is known, unless it came or failed while one ran or was
\* older than the reach of one that had no earlier to go on from; a label is of its order.
THEOREM BaselinkerSafe ==
  BaselinkerOrdersSpec => [](BaselinkerOrdersTypeOK /\ BaselinkerAgrees)
<1>1. ASSUME BaselinkerOK PROVE BaselinkerAgrees
  <2>1. ASSUME NEW o \in Orders \ doubtful
        PROVE  Cardinality({k \in RemoteOrders : remote[k].made /\ remote[k].from = o}) <= 1
    <3> DEFINE made == {k \in RemoteOrders : remote[k].made /\ remote[k].from = o}
    <3>1. \A k, l \in made : k = l
      BY <1>1 DEF BaselinkerOK, ExportedOnce, MadeFrom
    <3> HIDE DEF made
    <3>2. CASE made = {}
      <4>1. Cardinality(made) = 0
        BY <3>2, FS_EmptySet
      <4> QED BY <4>1 DEF made
    <3>3. ASSUME NEW k \in made PROVE Cardinality(made) <= 1
      <4>1. made = {k}
        BY <3>1
      <4>2. Cardinality(made) = 1
        BY <4>1, FS_Singleton
      <4> QED BY <4>2
    <3> QED BY <3>2, <3>3 DEF made
  <2>2. LabelIsOfOrder
    <3>1. ASSUME NEW o \in Orders, NEW k \in label[o] \cup Exported(o) PROVE remote[k].from = o
      BY <1>1, <3>1
      DEF BaselinkerOK, BaselinkerOrdersTypeOK, RemoteFits, Exported, ExportRow, MadeFrom
    <3>2. ASSUME NEW r \in Runs, run[r].pc = "ship", NEW k \in run[r].item
          PROVE  remote[k].from = run[r].order
      BY <1>1, <3>2 DEF BaselinkerOK, RunFits, MadeFrom
    <3> QED BY <3>1, <3>2 DEF LabelIsOfOrder
  <2> QED BY <1>1, <2>1, <2>2 DEF BaselinkerOK, BaselinkerAgrees, PushedOnce
<1>2. BaselinkerOK => BaselinkerOrdersTypeOK /\ BaselinkerAgrees
  BY <1>1 DEF BaselinkerOK
<1> QED BY <1>2, BaselinkerInitOK, BaselinkerNextOK, PTL DEF BaselinkerOrdersSpec

-------------------------------------------------------------------------------
(* RateLimit: for any limit, window, sweeps and number of callers.         *)

\* The windows in which the requests at s were let through, named by their
\* beginnings in w: no two overlap, and none holds more requests than the limit.
Spaced(s, w) ==
  /\ \A i \in 1..Len(s) : w[i] <= s[i] /\ s[i] < w[i] + Window
  /\ \A i, j \in 1..Len(s) : i <= j => w[i] <= w[j]
  /\ \A i \in 1..Len(s) : i + MaxRequests <= Len(s) => w[i] + Window <= w[i + MaxRequests]

\* The last requests are of the window that begins at start, the others of earlier ones.
LastIn(s, w, last, start) ==
  \A i \in 1..Len(s) : IF Len(s) - last < i THEN w[i] = start ELSE w[i] + Window <= start

Counted(b) == IF b.count > MaxRequests THEN MaxRequests ELSE b.count

\* A bucket counts the requests of its window; without one all windows have ended.
BucketFits(b, s, w, now) ==
  /\ b = NoBucket => \A i \in 1..Len(s) : w[i] + Window <= now
  /\ b # NoBucket =>
       /\ Window <= b.resetAt /\ b.resetAt <= now + Window
       /\ LastIn(s, w, Counted(b), b.resetAt - Window)

Times == 0..LastTime

RateLimitOK ==
  /\ RateLimitTypeOK
  /\ \A k \in Callers : \E w \in [1..Len(passed[k]) -> Times] :
       Spaced(passed[k], w) /\ BucketFits(bucket[k], passed[k], w, time)

BucketRow == [count : 0..MaxRequests + 1, resetAt : 0..LastTime + Window]

\* Without a bucket nothing is counted.
LEMMA NoBucketIsRow == NoBucket \in BucketRow /\ NoBucket.count = 0 /\ NoBucket.resetAt = 0
BY RateLimitAssumption DEF RateLimitAssumption, NoBucket, BucketRow

\* A request let through goes to its window, and the windows stay apart.
LEMMA LettingThrough ==
  ASSUME NEW s \in Seq(Times), NEW w \in [1..Len(s) -> Times],
         NEW now \in Times, NEW start \in Times, start <= now, now < start + Window,
         NEW last \in 0..MaxRequests - 1, Spaced(s, w), LastIn(s, w, last, start)
  PROVE  /\ Append(s, now) \in Seq(Times)
         /\ \E v \in [1..Len(Append(s, now)) -> Times] :
              Spaced(Append(s, now), v) /\ LastIn(Append(s, now), v, last + 1, start)
<1>0. Append(s, now) \in Seq(Times)
  OBVIOUS
<1> USE RateLimitAssumption DEF RateLimitAssumption, Times
<1>1. PICK n \in Nat : n = Len(s)
  OBVIOUS
<1>2. PICK s2 \in Seq(Times) : s2 = Append(s, now)
  BY <1>0
<1>3. /\ Len(s2) = n + 1 /\ s2[n + 1] = now
      /\ \A i \in 1..n : s2[i] = s[i] /\ s[i] \in Times
  BY <1>1, <1>2
<1>4. PICK v : v = [i \in 1..n + 1 |-> IF i = n + 1 THEN start ELSE w[i]]
  OBVIOUS
<1>5. /\ v \in [1..n + 1 -> Times] /\ v[n + 1] = start
      /\ \A i \in 1..n : v[i] = w[i] /\ w[i] \in Nat
  <2>1. \A i \in 1..n : w[i] \in Times /\ w[i] \in Nat /\ i # n + 1 /\ i \in 1..n + 1
    BY <1>1
  <2>2. n + 1 \in 1..n + 1 /\ \A i \in 1..n + 1 : i = n + 1 \/ i \in 1..n
    OBVIOUS
  <2>3. \A i \in 1..n + 1 : (IF i = n + 1 THEN start ELSE w[i]) \in Times
    BY <2>1, <2>2
  <2> QED BY <1>4, <2>1, <2>2, <2>3
<1>6. /\ \A i \in 1..n : w[i] <= s[i] /\ s[i] < w[i] + Window
      /\ \A i, j \in 1..n : i <= j => w[i] <= w[j]
      /\ \A i \in 1..n : i + MaxRequests <= n => w[i] + Window <= w[i + MaxRequests]
  BY <1>1 DEF Spaced
<1>7. \A i \in 1..n : IF n - last < i THEN w[i] = start ELSE w[i] + Window <= start
  BY <1>1 DEF LastIn
<1>8. \A i \in 1..n : w[i] <= start
  <2> SUFFICES ASSUME NEW i \in 1..n PROVE w[i] <= start
    OBVIOUS
  <2>1. w[i] \in Nat /\ start \in Nat
    BY <1>5
  <2>2. w[i] = start \/ w[i] + Window <= start
    BY <1>7
  <2> QED BY <2>1, <2>2
<1>9. LastIn(s2, v, last + 1, start)
  <2> SUFFICES ASSUME NEW i \in 1..n + 1
               PROVE  IF n + 1 - (last + 1) < i THEN v[i] = start ELSE v[i] + Window <= start
    BY <1>3 DEF LastIn
  <2>1. CASE i = n + 1
    BY <1>5, <2>1
  <2>2. CASE i \in 1..n
    BY <1>5, <1>7, <2>2
  <2> QED BY <2>1, <2>2
<1>10. \A i \in 1..n + 1 : v[i] <= s2[i] /\ s2[i] < v[i] + Window
  <2> SUFFICES ASSUME NEW i \in 1..n + 1 PROVE v[i] <= s2[i] /\ s2[i] < v[i] + Window
    OBVIOUS
  <2>1. CASE i = n + 1
    BY <1>3, <1>5, <2>1
  <2>2. CASE i \in 1..n
    BY <1>3, <1>5, <1>6, <2>2
  <2> QED BY <2>1, <2>2
<1>11. \A i, j \in 1..n + 1 : i <= j => v[i] <= v[j]
  <2> SUFFICES ASSUME NEW i \in 1..n + 1, NEW j \in 1..n + 1, i <= j PROVE v[i] <= v[j]
    OBVIOUS
  <2>1. CASE j = n + 1
    <3>1. CASE i = n + 1
      BY <1>5, <2>1, <3>1
    <3>2. CASE i \in 1..n
      BY <1>5, <1>8, <2>1, <3>2
    <3> QED BY <3>1, <3>2
  <2>2. CASE j \in 1..n
    <3>1. i \in 1..n
      BY <2>2
    <3> QED BY <1>5, <1>6, <2>2, <3>1
  <2> QED BY <2>1, <2>2
<1>12. \A i \in 1..n + 1 : i + MaxRequests <= n + 1 => v[i] + Window <= v[i + MaxRequests]
  <2> SUFFICES ASSUME NEW i \in 1..n + 1, i + MaxRequests <= n + 1
               PROVE  v[i] + Window <= v[i + MaxRequests]
    OBVIOUS
  <2>1. i \in 1..n
    OBVIOUS
  <2>2. CASE i + MaxRequests = n + 1
    <3>1. ~(n - last < i)
      BY <2>2
    <3>2. w[i] + Window <= start
      BY <1>7, <2>1, <3>1
    <3> QED BY <1>5, <2>1, <2>2, <3>2
  <2>3. CASE i + MaxRequests <= n
    <3>1. i + MaxRequests \in 1..n
      BY <2>3
    <3> QED BY <1>5, <1>6, <2>1, <2>3, <3>1
  <2> QED BY <2>2, <2>3
<1>13. Spaced(s2, v)
  BY <1>3, <1>10, <1>11, <1>12 DEF Spaced
<1> QED BY <1>2, <1>3, <1>5, <1>9, <1>13

\* A window that has ended is as good as none, so a sweep takes nothing away.
LEMMA EndedWindow ==
  ASSUME NEW b \in BucketRow, NEW s \in Seq(Times), NEW w \in [1..Len(s) -> Times],
         NEW now \in Times, BucketFits(b, s, w, now), b.resetAt <= now
  PROVE  \A i \in 1..Len(s) : w[i] + Window <= now
<1> USE RateLimitAssumption DEF RateLimitAssumption, Times
<1>1. CASE b = NoBucket
  BY <1>1 DEF BucketFits
<1>2. CASE b # NoBucket
  <2>1. b.resetAt \in Nat
    BY DEF BucketRow
  <2>2. Window <= b.resetAt /\ LastIn(s, w, Counted(b), b.resetAt - Window)
    BY <1>2 DEF BucketFits
  <2>3. \A i \in 1..Len(s) : w[i] \in Nat
    OBVIOUS
  <2>4. \A i \in 1..Len(s) : w[i] = b.resetAt - Window \/ w[i] + Window <= b.resetAt - Window
    BY <2>2 DEF LastIn
  <2>5. ASSUME NEW i \in 1..Len(s) PROVE w[i] + Window <= now
    <3>1. PICK from \in Nat, end \in Nat, at \in Nat :
            from = w[i] /\ end = b.resetAt /\ at = now
      BY <2>1, <2>3
    <3>2. (from = end - Window \/ from + Window <= end - Window) /\ end <= at /\ Window <= end
      BY <2>2, <2>4, <3>1
    <3>3. from + Window <= at
      BY <3>2
    <3> QED BY <3>1, <3>3
  <2> QED BY <2>5
<1> QED BY <1>1, <1>2

\* A sweep forgets only windows that have ended.
LEMMA SweepFits ==
  ASSUME RateLimitOK, NEW k \in Callers, NEW w \in [1..Len(passed[k]) -> Times],
         BucketFits(bucket[k], passed[k], w, time)
  PROVE  Swept[k] \in BucketRow /\ BucketFits(Swept[k], passed[k], w, time)
<1>1. bucket[k] \in BucketRow /\ passed[k] \in Seq(Times) /\ time \in Times
  BY DEF RateLimitOK, RateLimitTypeOK, BucketRow, Times
<1>2. CASE SweepIsDue /\ bucket[k].resetAt <= time
  <2>1. Swept[k] = NoBucket
    BY <1>2 DEF Swept
  <2>2. \A i \in 1..Len(passed[k]) : w[i] + Window <= time
    BY <1>1, <1>2, EndedWindow
  <2> QED BY <2>1, <2>2, NoBucketIsRow DEF BucketFits
<1>3. CASE ~(SweepIsDue /\ bucket[k].resetAt <= time)
  <2>1. Swept[k] = bucket[k]
    BY <1>3 DEF Swept
  <2> QED BY <1>1, <2>1
<1> QED BY <1>2, <1>3

\* A request is counted in its caller's window, or begins one.
LEMMA ConsumingKeeps ==
  ASSUME RateLimitOK, NEW k \in Callers, Consume(k)
  PROVE  RateLimitOK'
<1> USE RateLimitAssumption DEF RateLimitAssumption
<1>1. /\ time \in Times /\ sweptAt \in 0..time /\ time' = time
      /\ bucket \in [Callers -> BucketRow] /\ passed \in [Callers -> Seq(Times)]
  BY DEF Consume, RateLimitOK, RateLimitTypeOK, BucketRow, Times
<1>2. PICK found : found = Swept[k]
  OBVIOUS
<1>3. PICK w \in [1..Len(passed[k]) -> Times] :
        Spaced(passed[k], w) /\ BucketFits(bucket[k], passed[k], w, time)
  BY DEF RateLimitOK
<1>4. found \in BucketRow /\ BucketFits(found, passed[k], w, time)
  BY <1>2, <1>3, SweepFits
<1>5. PICK current : current = IF found.resetAt <= time
                               THEN [count |-> 0, resetAt |-> time + Window] ELSE found
  OBVIOUS
<1>6. PICK count : count = current.count + 1
  OBVIOUS
<1>7. PICK b : b = [current EXCEPT
                          !.count = IF count > MaxRequests THEN MaxRequests + 1 ELSE count]
  OBVIOUS
<1>8. PICK log : log = IF count <= MaxRequests THEN Append(passed[k], time) ELSE passed[k]
  OBVIOUS
<1>9. /\ bucket' = [Swept EXCEPT ![k] = b]
      /\ passed' = IF count <= MaxRequests THEN [passed EXCEPT ![k] = Append(@, time)] ELSE passed
      /\ sweptAt' \in 0..time
  BY <1>1, <1>2, <1>5, <1>6, <1>7 DEF Consume, Times
<1>10. current \in [count : 0..MaxRequests + 1, resetAt : 0..LastTime + Window]
  BY <1>1, <1>4, <1>5 DEF BucketRow, Times
<1>11. /\ b \in BucketRow /\ b.resetAt = current.resetAt
       /\ b.count = IF count > MaxRequests THEN MaxRequests + 1 ELSE count
       /\ count \in 1..MaxRequests + 2
  <2>1. PICK c : c = IF count > MaxRequests THEN MaxRequests + 1 ELSE count
    OBVIOUS
  <2>2. count \in 1..MaxRequests + 2 /\ c \in 0..MaxRequests + 1
    BY <1>6, <1>10, <2>1
  <2>3. b = [current EXCEPT !.count = c]
    BY <1>7, <2>1
  <2> QED BY <1>10, <2>1, <2>2, <2>3 DEF BucketRow
<1>12. /\ log \in Seq(Times)
       /\ \E v \in [1..Len(log) -> Times] : Spaced(log, v) /\ BucketFits(b, log, v, time)
  <2>1. CASE found.resetAt <= time
    <3>1. current.count = 0 /\ current.resetAt = time + Window /\ count = 1
      BY <1>5, <1>6, <2>1
    <3>2. b.count = 1 /\ b.resetAt = time + Window /\ Counted(b) = 1
      BY <1>11, <3>1 DEF Counted
    <3>3. log = Append(passed[k], time)
      BY <1>8, <3>1
    <3>4. \A i \in 1..Len(passed[k]) : w[i] + Window <= time
      BY <1>1, <1>4, <2>1, EndedWindow
    <3>5. LastIn(passed[k], w, 0, time)
      <4>1. Len(passed[k]) \in Nat
        BY <1>1
      <4> QED BY <3>4, <4>1 DEF LastIn
    <3>6. 0 \in 0..MaxRequests - 1 /\ time < time + Window /\ time <= time
      BY <1>1 DEF Times
    <3>7. /\ log \in Seq(Times)
          /\ \E v \in [1..Len(log) -> Times] : Spaced(log, v) /\ LastIn(log, v, 0 + 1, time)
      BY <1>1, <1>3, <3>3, <3>5, <3>6, LettingThrough
    <3>8. b # NoBucket /\ b.resetAt - Window = time
      BY <1>1, <3>2, NoBucketIsRow DEF Times
    <3>9. Window <= b.resetAt /\ b.resetAt <= time + Window
      BY <1>1, <3>2 DEF Times
    <3> QED BY <3>2, <3>7, <3>8, <3>9 DEF BucketFits
  <2>2. CASE ~(found.resetAt <= time)
    <3>1. current = found /\ found # NoBucket
      BY <1>1, <1>5, <2>2, NoBucketIsRow DEF Times
    <3>2. /\ Window <= found.resetAt /\ found.resetAt <= time + Window
          /\ LastIn(passed[k], w, Counted(found), found.resetAt - Window)
          /\ found.resetAt \in Nat /\ time < found.resetAt
      BY <1>1, <1>4, <2>2, <3>1 DEF BucketFits, BucketRow, Times
    <3>3. PICK start \in Times : start = found.resetAt - Window
      BY <1>1, <3>2 DEF Times
    <3>4. b.resetAt = found.resetAt /\ b # NoBucket /\ count = found.count + 1
      BY <1>6, <1>11, <3>1, <3>2, NoBucketIsRow
    <3>5. found.count \in 0..MaxRequests + 1
      BY <1>4 DEF BucketRow
    <3>6. CASE count <= MaxRequests
      <4>1. Counted(found) = found.count /\ found.count \in 0..MaxRequests - 1
            /\ Counted(b) = found.count + 1
        BY <1>11, <3>4, <3>5, <3>6 DEF Counted
      <4>2. log = Append(passed[k], time)
        BY <1>8, <3>6
      <4>3. start <= time /\ time < start + Window
        BY <1>1, <3>2, <3>3 DEF Times
      <4>4. /\ log \in Seq(Times)
            /\ \E v \in [1..Len(log) -> Times] :
                 Spaced(log, v) /\ LastIn(log, v, found.count + 1, start)
        BY <1>1, <1>3, <3>2, <3>3, <4>1, <4>2, <4>3, LettingThrough
      <4> QED BY <3>2, <3>3, <3>4, <4>1, <4>4 DEF BucketFits
    <3>7. CASE ~(count <= MaxRequests)
      <4>1. Counted(found) = Counted(b)
        BY <1>11, <3>4, <3>5, <3>7 DEF Counted
      <4>2. log = passed[k]
        BY <1>8, <3>7
      <4>3. BucketFits(b, log, w, time)
        BY <3>2, <3>4, <4>1, <4>2 DEF BucketFits
      <4> QED BY <1>1, <1>3, <4>2, <4>3
    <3> QED BY <3>6, <3>7
  <2> QED BY <2>1, <2>2
<1>13. /\ bucket'[k] = b /\ passed'[k] = log
       /\ \A j \in Callers \ {k} : bucket'[j] = Swept[j] /\ passed'[j] = passed[j]
       /\ passed' \in [Callers -> Seq(Times)]
  <2>1. DOMAIN Swept = Callers
    BY DEF Swept
  <2> QED BY <1>1, <1>8, <1>9, <1>12, <2>1
<1>14. ASSUME NEW j \in Callers \ {k}
       PROVE  /\ Swept[j] \in BucketRow
              /\ \E v \in [1..Len(passed[j]) -> Times] :
                   Spaced(passed[j], v) /\ BucketFits(Swept[j], passed[j], v, time)
  <2>1. PICK v \in [1..Len(passed[j]) -> Times] :
          Spaced(passed[j], v) /\ BucketFits(bucket[j], passed[j], v, time)
    BY DEF RateLimitOK
  <2> QED BY <2>1, SweepFits
<1>15. bucket' \in [Callers -> BucketRow]
  <2>1. bucket' = [j \in Callers |-> IF j = k THEN b ELSE Swept[j]]
    BY <1>9 DEF Swept
  <2> QED BY <1>11, <1>14, <2>1
<1>16. RateLimitTypeOK'
  BY <1>1, <1>9, <1>13, <1>15 DEF RateLimitTypeOK, BucketRow, Times
<1>17. ASSUME NEW j \in Callers
       PROVE  \E v \in [1..Len(passed'[j]) -> Times] :
                Spaced(passed'[j], v) /\ BucketFits(bucket'[j], passed'[j], v, time')
  <2>1. CASE j = k
    BY <1>1, <1>12, <1>13, <2>1
  <2>2. CASE j # k
    BY <1>1, <1>13, <1>14, <2>2
  <2> QED BY <2>1, <2>2
<1> QED BY <1>16, <1>17 DEF RateLimitOK

\* Every step keeps the invariant.
LEMMA RateLimitKeeps == RateLimitOK /\ [RateLimitNext]_rateLimitVars => RateLimitOK'
<1> SUFFICES ASSUME RateLimitOK, [RateLimitNext]_rateLimitVars PROVE RateLimitOK'
  OBVIOUS
<1> USE RateLimitAssumption DEF RateLimitAssumption
<1>1. CASE UNCHANGED <<bucket, passed>> /\ UNCHANGED sweptAt /\ time' \in Times /\ time <= time'
  <2>1. RateLimitTypeOK'
    BY <1>1 DEF RateLimitOK, RateLimitTypeOK, Times
  <2>2. ASSUME NEW k \in Callers
        PROVE  \E w \in [1..Len(passed'[k]) -> Times] :
                 Spaced(passed'[k], w) /\ BucketFits(bucket'[k], passed'[k], w, time')
    <3>1. PICK w \in [1..Len(passed[k]) -> Times] :
            Spaced(passed[k], w) /\ BucketFits(bucket[k], passed[k], w, time)
      BY DEF RateLimitOK
    <3>a. bucket[k] \in BucketRow /\ time \in Times
      BY DEF RateLimitOK, RateLimitTypeOK, BucketRow, Times
    <3>b. Times \subseteq Nat
      BY DEF Times
    <3>c. \A i \in 1..Len(passed[k]) : w[i] \in Times
      OBVIOUS
    <3>2. bucket[k] \in BucketRow /\ time \in Nat /\ time' \in Nat
          /\ \A i \in 1..Len(passed[k]) : w[i] \in Nat
      BY <1>1, <3>a, <3>b, <3>c
    <3>3. BucketFits(bucket[k], passed[k], w, time')
      <4>1. bucket[k].resetAt \in Nat
        BY <3>2 DEF BucketRow
      <4>2. bucket[k] = NoBucket => \A i \in 1..Len(passed[k]) : w[i] + Window <= time'
        BY <1>1, <3>1, <3>2 DEF BucketFits
      <4>3. bucket[k].resetAt <= time + Window => bucket[k].resetAt <= time' + Window
        BY <1>1, <3>2, <4>1
      <4> QED BY <3>1, <4>2, <4>3 DEF BucketFits
    <3> QED BY <1>1, <3>1, <3>3
  <2> QED BY <2>1, <2>2 DEF RateLimitOK
<1>2. CASE RestartLimiter
  <2>1. /\ bucket' = [k \in Callers |-> NoBucket] /\ passed' = [k \in Callers |-> <<>>]
        /\ sweptAt' = 0 /\ time' = time /\ time \in Times
    BY <1>2 DEF RestartLimiter, NonePassed, RateLimitOK, RateLimitTypeOK, Times
  <2>2. RateLimitTypeOK'
    BY <2>1, NoBucketIsRow DEF RateLimitTypeOK, BucketRow, Times
  <2>3. ASSUME NEW k \in Callers
        PROVE  \E w \in [1..Len(passed'[k]) -> Times] :
                 Spaced(passed'[k], w) /\ BucketFits(bucket'[k], passed'[k], w, time')
    <3>1. bucket'[k] = NoBucket /\ passed'[k] = <<>> /\ 1..Len(<<>>) = {}
      BY <2>1
    <3>2. [i \in 1..Len(passed'[k]) |-> 0] \in [1..Len(passed'[k]) -> Times]
      BY <3>1
    <3> QED BY <3>1, <3>2 DEF Spaced, BucketFits
  <2> QED BY <2>2, <2>3 DEF RateLimitOK
<1>3. CASE ClockAdvances
  <2>1. UNCHANGED <<bucket, passed>> /\ UNCHANGED sweptAt /\ time' \in Times /\ time <= time'
    BY <1>3 DEF ClockAdvances, RateLimitOK, RateLimitTypeOK, Times
  <2> QED BY <1>1, <2>1
<1>4. CASE UNCHANGED rateLimitVars
  <2>1. UNCHANGED <<bucket, passed>> /\ UNCHANGED sweptAt /\ time' \in Times /\ time <= time'
    BY <1>4 DEF rateLimitVars, RateLimitOK, RateLimitTypeOK, Times
  <2> QED BY <1>1, <2>1
<1> QED BY <1>2, <1>3, <1>4, ConsumingKeeps DEF RateLimitNext

\* The invariant holds at first, when nobody has been let through.
LEMMA RateLimitStarts == RateLimitInit => RateLimitOK
<1> SUFFICES ASSUME RateLimitInit PROVE RateLimitOK
  OBVIOUS
<1> USE RateLimitAssumption DEF RateLimitAssumption
<1>1. RateLimitTypeOK
  BY NoBucketIsRow DEF RateLimitInit, RateLimitTypeOK, NonePassed, BucketRow
<1>2. ASSUME NEW k \in Callers
      PROVE  \E w \in [1..Len(passed[k]) -> Times] :
               Spaced(passed[k], w) /\ BucketFits(bucket[k], passed[k], w, time)
  <2>1. bucket[k] = NoBucket /\ passed[k] = <<>> /\ 1..Len(<<>>) = {}
    BY DEF RateLimitInit, NonePassed
  <2>2. [i \in 1..Len(passed[k]) |-> 0] \in [1..Len(passed[k]) -> Times]
    BY <2>1
  <2> QED BY <2>1, <2>2 DEF Spaced, BucketFits
<1> QED BY <1>1, <1>2 DEF RateLimitOK

\* Of finitely many numbers one is the least: the fewest are up to it.
LEMMA LeastOf ==
  ASSUME NEW T \in SUBSET Nat, IsFiniteSet(T), T # {}
  PROVE  \E least \in T : \A n \in T : least <= n
<1> DEFINE Upto(m) == {n \in T : n <= m}
           All == {Upto(m) : m \in T}
<1>1. PICK fewest \in All : \A other \in All : <<other, fewest>> \notin StrictSubsetOrdering(T)
  <2>1. All \subseteq FiniteSubsetsOf(T) /\ All # {}
    <3>1. FiniteSubsetsOf(T) = SUBSET T
      BY FS_FiniteSubsetsOfFinite
    <3>2. All \subseteq SUBSET T
      OBVIOUS
    <3>3. PICK m : m \in T
      OBVIOUS
    <3>4. Upto(m) \in All
      BY <3>3
    <3> QED BY <3>1, <3>2, <3>4
  <2>2. IsWellFoundedOn(StrictSubsetOrdering(T), FiniteSubsetsOf(T))
    BY FS_StrictSubsetOrderingWellFounded
  <2> HIDE DEF All
  <2> QED BY <2>1, <2>2, WFMin
<1>2. PICK least \in T : fewest = Upto(least)
  OBVIOUS
<1>3. ASSUME NEW n \in T, ~(least <= n) PROVE FALSE
  <2>0. n \in Nat /\ least \in Nat /\ n < least /\ \A m \in T : m \in Nat
    BY <1>3
  <2>a. \A m \in T : m <= n => m <= least
    BY <2>0
  <2>b. least <= least /\ ~(least <= n)
    BY <1>3, <2>0
  <2>1. Upto(n) \subseteq Upto(least) /\ least \in Upto(least) /\ least \notin Upto(n)
    BY <2>a, <2>b
  <2>2. Upto(n) \subseteq T /\ Upto(least) \subseteq T /\ Upto(n) \in All
    OBVIOUS
  <2>3. <<Upto(n), Upto(least)>> \in StrictSubsetOrdering(T)
    <3> HIDE DEF Upto
    <3> QED BY <2>1, <2>2 DEF StrictSubsetOrdering
  <2> QED BY <1>1, <1>2, <2>2, <2>3
<1> QED BY <1>3

\* What lies in an interval is no more than its length.
LEMMA Within ==
  ASSUME NEW T, NEW from \in Nat, NEW size \in Nat, T \subseteq from..from + size - 1
  PROVE  IsFiniteSet(T) /\ Cardinality(T) <= size
<1>1. from \in Int /\ from + size - 1 \in Int
  OBVIOUS
<1>2. PICK R : R = from..from + size - 1
  OBVIOUS
<1>3. IsFiniteSet(R) /\ Cardinality(R) = IF from > from + size - 1 THEN 0
                                         ELSE from + size - 1 - from + 1
  BY <1>1, <1>2, FS_Interval
<1>4. Cardinality(R) = size
  BY <1>3
<1>5. T \in SUBSET R
  BY <1>2
<1>6. IsFiniteSet(T) /\ Cardinality(T) <= Cardinality(R)
  BY <1>3, <1>5, FS_Subset
<1> QED BY <1>4, <1>6

\* Requests two windows apart are as far apart as two windows, so a stretch as
\* long as one holds fewer than two windows' requests.
LEMMA LimitsFollow == RateLimitOK => LimitHolds
<1> SUFFICES ASSUME RateLimitOK, NEW k \in Callers
             PROVE  /\ \A t \in 0..time : PassedIn(k, t, t + Window) <= 2 * MaxRequests
                    /\ bucket[k] # NoBucket =>
                         PassedIn(k, bucket[k].resetAt - Window, bucket[k].resetAt) <= MaxRequests
  BY DEF LimitHolds
<1> USE RateLimitAssumption DEF RateLimitAssumption
<1>1. PICK s : s = passed[k]
  OBVIOUS
<1>2. PICK w \in [1..Len(s) -> Times] : Spaced(s, w) /\ BucketFits(bucket[k], s, w, time)
  BY <1>1 DEF RateLimitOK
<1>3. PICK n \in Nat : n = Len(s)
  BY <1>1 DEF RateLimitOK, RateLimitTypeOK
<1>4. /\ \A i \in 1..n : w[i] \in Nat /\ s[i] \in Nat
      /\ \A i \in 1..n : w[i] <= s[i] /\ s[i] < w[i] + Window
      /\ \A i, j \in 1..n : i <= j => w[i] <= w[j]
      /\ \A i \in 1..n : i + MaxRequests <= n => w[i] + Window <= w[i + MaxRequests]
  <2>1. s \in Seq(Times)
    BY <1>1 DEF RateLimitOK, RateLimitTypeOK, Times
  <2>2. \A i \in 1..n : w[i] \in Nat /\ s[i] \in Nat
    BY <1>2, <1>3, <2>1 DEF Times
  <2> QED BY <1>2, <1>3, <2>2 DEF Spaced
<1>5. ASSUME NEW t \in 0..time PROVE PassedIn(k, t, t + Window) <= 2 * MaxRequests
  <2>1. t \in Nat
    BY DEF RateLimitOK, RateLimitTypeOK
  <2>2. PICK T : T = {i \in 1..n : t <= s[i] /\ s[i] < t + Window}
    OBVIOUS
  <2>3. PassedIn(k, t, t + Window) = Cardinality(T)
    BY <1>1, <1>3, <2>2 DEF PassedIn
  <2>4. IsFiniteSet(T) /\ T \in SUBSET Nat
    <3>1. T \subseteq 1..1 + n - 1
      BY <2>2
    <3> QED BY <2>2, <3>1, Within
  <2>5. CASE T = {}
    BY <2>3, <2>5, FS_EmptySet
  <2>6. CASE T # {}
    <3>1. PICK least \in T : \A i \in T : least <= i
      BY <2>4, <2>6, LeastOf
    <3>2. ASSUME NEW i \in T PROVE i < least + 2 * MaxRequests
      <4> SUFFICES ASSUME least + 2 * MaxRequests <= i PROVE FALSE
        BY <2>2, <3>1
      <4>1. least \in 1..n /\ i \in 1..n /\ least + MaxRequests \in 1..n
            /\ (least + MaxRequests) + MaxRequests \in 1..n
        BY <2>2, <3>1
      <4>2. w[least] + Window <= w[least + MaxRequests]
        BY <1>4, <4>1
      <4>3. w[least + MaxRequests] + Window <= w[(least + MaxRequests) + MaxRequests]
        BY <1>4, <4>1
      <4>4. w[(least + MaxRequests) + MaxRequests] <= w[i]
        BY <1>4, <4>1
      <4>5. t <= s[least] /\ s[i] < t + Window
        BY <2>2, <3>1
      <4>6. s[least] < w[least] + Window /\ w[i] <= s[i]
        BY <1>4, <4>1
      <4>7. PICK a \in Nat, b \in Nat, c \in Nat, d \in Nat, x \in Nat, y \in Nat :
              /\ a = w[least] /\ b = w[least + MaxRequests]
              /\ c = w[(least + MaxRequests) + MaxRequests] /\ d = w[i]
              /\ x = s[least] /\ y = s[i]
        BY <1>4, <4>1
      <4>8. /\ a + Window <= b /\ b + Window <= c /\ c <= d
            /\ t <= x /\ y < t + Window /\ x < a + Window /\ d <= y
        BY <4>2, <4>3, <4>4, <4>5, <4>6, <4>7
      <4> QED BY <2>1, <4>8
    <3>3. T \subseteq least..least + 2 * MaxRequests - 1
      BY <2>4, <3>1, <3>2
    <3>4. least \in Nat /\ 2 * MaxRequests \in Nat
      BY <2>4, <3>1
    <3> QED BY <2>3, <3>3, <3>4, Within
  <2> QED BY <2>5, <2>6
<1>6. ASSUME bucket[k] # NoBucket
      PROVE  PassedIn(k, bucket[k].resetAt - Window, bucket[k].resetAt) <= MaxRequests
  <2>1. bucket[k] \in BucketRow /\ Window <= bucket[k].resetAt
        /\ LastIn(s, w, Counted(bucket[k]), bucket[k].resetAt - Window)
    BY <1>2, <1>6 DEF BucketFits, RateLimitOK, RateLimitTypeOK, BucketRow
  <2>2. PICK start \in Nat, last \in 0..MaxRequests :
          start = bucket[k].resetAt - Window /\ last = Counted(bucket[k])
    BY <2>1 DEF BucketRow, Counted
  <2>3. bucket[k].resetAt = start + Window
    BY <2>1, <2>2 DEF BucketRow
  <2>4. PICK T : T = {i \in 1..n : start <= s[i] /\ s[i] < start + Window}
    OBVIOUS
  <2>5. PassedIn(k, bucket[k].resetAt - Window, bucket[k].resetAt) = Cardinality(T)
    BY <1>1, <1>3, <2>2, <2>3, <2>4 DEF PassedIn
  <2>6. \A i \in T : n - last < i
    <3> SUFFICES ASSUME NEW i \in T, ~(n - last < i) PROVE FALSE
      OBVIOUS
    <3>1. i \in 1..n /\ start <= s[i]
      BY <2>4
    <3>2. w[i] + Window <= start
      BY <1>3, <2>1, <2>2, <3>1 DEF LastIn
    <3> QED BY <1>4, <3>1, <3>2
  <2>7. CASE last <= n
    <3>1. PICK from \in Nat : from = n - last + 1
      BY <2>7
    <3>2. T \subseteq from..from + last - 1
      BY <2>4, <2>6, <3>1
    <3>3. last \in Nat /\ last <= MaxRequests /\ MaxRequests \in Nat
      BY RateLimitAssumption DEF RateLimitAssumption
    <3>4. IsFiniteSet(T) /\ Cardinality(T) <= last
      BY <3>1, <3>2, <3>3, Within
    <3> QED BY <2>5, <3>3, <3>4, FS_CardinalityType
  <2>8. CASE n < last
    <3>1. T \subseteq 1..1 + n - 1
      BY <2>4
    <3>2. IsFiniteSet(T) /\ Cardinality(T) <= n
      BY <3>1, Within
    <3> QED BY <2>5, <2>8, <3>2, FS_CardinalityType
  <2> QED BY <2>7, <2>8
<1> QED BY <1>5, <1>6

\* For any limit, window and sweeping, however callers, sweeps and restarts fall
\* between, a caller gets through at most twice the limit over any stretch as long
\* as a window, and at most the limit within the window it holds.
THEOREM LimitSafe == RateLimitSpec => [](RateLimitTypeOK /\ LimitHolds)
<1>1. RateLimitOK => RateLimitTypeOK /\ LimitHolds
  BY LimitsFollow DEF RateLimitOK
<1> QED BY <1>1, RateLimitStarts, RateLimitKeeps, PTL DEF RateLimitSpec

-------------------------------------------------------------------------------
(* What the server promises. *)

\* For any stores, mails, people, runs, callers and deliveries, whatever fails or is
\* lost, the rows, requests and jobs of these components keep their types.
THEOREM ServerTypes ==
  /\ DomainsSpec /\ NotificationsSpec /\ MembersSpec /\ BaselinkerOrdersSpec
  /\ BaselinkerCatalogSpec /\ RateLimitSpec /\ Spec
  => []ServerTypeOK
<1>1. DomainsIInv => DomainsTypeOK
  BY DEF DomainsIInv
<1>2. Spec => []TypeOK
  <2>1. IInv => TypeOK
    BY DEF IInv
  <2> QED BY <2>1, InitIInv, NextIInv, PTL DEF Spec
<1> QED
  BY <1>1, <1>2, DomainsInvariant, MailsSafe, MembersSafe, BaselinkerSafe, CatalogSafe,
     LimitSafe, PTL
  DEF ServerTypeOK
==============================================================================
