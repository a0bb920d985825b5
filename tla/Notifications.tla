----------------------------- MODULE Notifications -----------------------------
(***************************************************************************)
(* E-mail notifications: a request writes a Notification row, adds a job   *)
(* and marks the row QUEUED; a worker sends the mail and writes the        *)
(* outcome, up to the attempts of the queue's policy.  Request and worker  *)
(* write the same row and do not wait for each other.                      *)
(*                                                                         *)
(* A job's id is made of the template, the recipient and the clock, and    *)
(* the queue ignores a job whose id it already has.                        *)
(***************************************************************************)
EXTENDS Naturals, FiniteSets

CONSTANTS
  Mails,          \* notifications
  Owner, Support, Customer, NoAddress,
  SupportIs,      \* the store's support address: Support, Owner or NoAddress
  LastTick,       \* bound of the clock
  MaxSends,       \* attempts of a job, 5 in the queue's policy
  StatementsFail, \* whether a statement after the row's creation may fail
  SenderStalls    \* whether a worker may die in the middle of a job

ASSUME NotificationsAssumption ==
  /\ SupportIs \in {Support, Owner, NoAddress}
  /\ NoAddress \notin {Owner, Support, Customer}
  /\ LastTick \in Nat
  /\ MaxSends \in Nat \ {0}
  /\ {StatementsFail, SenderStalls} \subseteq BOOLEAN

VARIABLES
  clock,     \* Date.now(): two notifications may see the same value
  mail,      \* the request that enqueues each notification, and its row
  sending,   \* the job of each notification, if the queue took one
  sent,      \* how often the provider was given the mail
  overtaken, \* history: mails whose job was taken before its row was QUEUED
  mailBroken \* history: mails for which a statement failed or a worker died

mailVars == <<clock, mail, sending, sent, overtaken, mailBroken>>

Addresses == {Owner, Support, Customer}

Templates == {"payment-customer", "payment-store", "domain-activated", "auth-flow"}

MailRow ==
  [pc : {"idle", "later", "create", "add", "mark", "catch", "over"},
   to : Addresses \cup {NoAddress}, template : Templates, stamp : 0..LastTick,
   status : {"none", "PENDING", "QUEUED", "DELIVERED", "FAILED"},
   next : SUBSET Mails]

NoMail ==
  [pc |-> "idle", to |-> NoAddress, template |-> "auth-flow", stamp |-> 0,
   status |-> "none", next |-> {}]

SendingRow ==
  [pc : {"none", "waiting", "send", "sent", "refused", "completed", "failed"},
   tries : 0..MaxSends]

NotificationsTypeOK ==
  /\ clock \in 0..LastTick
  /\ mail \in [Mails -> MailRow]
  /\ sending \in [Mails -> SendingRow]
  /\ sent \in [Mails -> Nat]
  /\ overtaken \subseteq Mails
  /\ mailBroken \subseteq Mails

NotificationsInit ==
  /\ clock = 0
  /\ mail = [m \in Mails |-> NoMail]
  /\ sending = [m \in Mails |-> [pc |-> "none", tries |-> 0]]
  /\ sent = [m \in Mails |-> 0]
  /\ overtaken = {}
  /\ mailBroken = {}

MailAt(m, pc) == mail[m].pc = pc

SendingAt(m, pc) == sending[m].pc = pc

TimePasses ==
  /\ clock < LastTick
  /\ clock' = clock + 1
  /\ UNCHANGED <<mail, sending, sent, overtaken, mailBroken>>

-------------------------------------------------------------------------------
(* What is to be sent *)

IdleMails == {m \in Mails : MailAt(m, "idle")}

\* enqueueEmailNotification begins: the job id is built before the row exists.
BeginsMail(to, template, next) ==
  [NoMail EXCEPT !.pc = "create", !.to = to, !.template = template,
                 !.stamp = clock, !.next = next]

\* One customer mail and one to each address of the store, each address once.
PaymentRecipients ==
  {<<Customer, "payment-customer">>}
    \cup {<<a, "payment-store">> : a \in {SupportIs, Owner} \ {NoAddress}}

\* notifyPaymentStatusChange enqueues all of them at the same time.
NotifyPayment ==
  \E chosen \in SUBSET IdleMails :
    /\ Cardinality(chosen) = Cardinality(PaymentRecipients)
    /\ \E who \in [chosen -> PaymentRecipients] :
         /\ \A r \in PaymentRecipients : \E m \in chosen : who[m] = r
         /\ mail' = [m \in Mails |->
              IF m \in chosen THEN BeginsMail(who[m][1], who[m][2], {})
              ELSE mail[m]]
    /\ UNCHANGED <<clock, sending, sent, overtaken, mailBroken>>

\* tryEnqueueDomainActivatedNotification: the owner, then the support address,
\* which may be the same one, if the store has it.
NotifyActivation(m, n) ==
  /\ m \in IdleMails
  /\ \/ /\ SupportIs = NoAddress /\ n = m
        /\ mail' = [mail EXCEPT ![m] = BeginsMail(Owner, "domain-activated", {})]
     \/ /\ SupportIs # NoAddress /\ n \in IdleMails \ {m}
        /\ mail' = [mail EXCEPT ![m] = BeginsMail(Owner, "domain-activated", {n}),
                                ![n] = [NoMail EXCEPT !.pc = "later"]]
  /\ UNCHANGED <<clock, sending, sent, overtaken, mailBroken>>

\* issueEmailVerificationToken and issuePasswordResetToken.
NotifyAuthFlow(m) ==
  /\ m \in IdleMails
  /\ mail' = [mail EXCEPT ![m] = BeginsMail(Customer, "auth-flow", {})]
  /\ UNCHANGED <<clock, sending, sent, overtaken, mailBroken>>

-------------------------------------------------------------------------------
(* enqueueEmailNotification *)

CreateRow(m) ==
  /\ MailAt(m, "create")
  /\ mail' = [mail EXCEPT ![m] = [@ EXCEPT !.pc = "add", !.status = "PENDING"]]
  /\ UNCHANGED <<clock, sending, sent, overtaken, mailBroken>>

SameJobId(m, n) ==
  /\ mail[m].to = mail[n].to
  /\ mail[m].template = mail[n].template
  /\ mail[m].stamp = mail[n].stamp

\* A job of the same id, waiting or finished, swallows the new one.
Swallowed(m) == \E n \in Mails \ {m} : sending[n].pc # "none" /\ SameJobId(m, n)

\* Mutant: the job is not added.
AddNothing(m) ==
  /\ MailAt(m, "add")
  /\ mail' = [mail EXCEPT ![m].pc = "mark"]
  /\ UNCHANGED <<clock, sending, sent, overtaken, mailBroken>>

AddJob(m) ==
  /\ MailAt(m, "add")
  /\ mail' = [mail EXCEPT ![m].pc = "mark"]
  /\ sending' = IF Swallowed(m) THEN sending
                ELSE [sending EXCEPT ![m].pc = "waiting"]
  /\ UNCHANGED <<clock, sent, overtaken, mailBroken>>

\* The row is marked whatever it says by now.  Of an activation's two mails the
\* second begins when the first is queued.
MarkQueued(m) ==
  /\ MailAt(m, "mark")
  /\ mail' = [n \in Mails |->
       CASE n = m -> [mail[m] EXCEPT !.pc = "over", !.status = "QUEUED", !.next = {}]
         [] n \in mail[m].next -> BeginsMail(SupportIs, "domain-activated", {})
         [] OTHER -> mail[n]]
  /\ UNCHANGED <<clock, sending, sent, overtaken, mailBroken>>

\* Adding the job or marking the row fails.
EnqueuingFails(m) ==
  /\ StatementsFail
  /\ mail[m].pc \in {"add", "mark"}
  /\ mail' = [mail EXCEPT ![m].pc = "catch"]
  /\ mailBroken' = mailBroken \cup {m}
  /\ UNCHANGED <<clock, sending, sent, overtaken>>

\* The catch writes FAILED, also over what a worker wrote, and throws: an
\* activation's second mail is not begun.
MarkMailFailed(m) ==
  /\ MailAt(m, "catch")
  /\ mail' = [n \in Mails |->
       CASE n = m -> [mail[m] EXCEPT !.pc = "over", !.status = "FAILED", !.next = {}]
         [] n \in mail[m].next -> NoMail
         [] OTHER -> mail[n]]
  /\ UNCHANGED <<clock, sending, sent, overtaken, mailBroken>>

-------------------------------------------------------------------------------
(* processEmailNotificationJob *)

TakeMail(m) ==
  /\ SendingAt(m, "waiting")
  /\ sending' = [sending EXCEPT ![m].pc = "send"]
  /\ overtaken' = IF mail[m].pc # "over" THEN overtaken \cup {m} ELSE overtaken
  /\ UNCHANGED <<clock, mail, sent, mailBroken>>

SendMail(m) ==
  /\ SendingAt(m, "send")
  /\ \/ /\ sent' = [sent EXCEPT ![m] = @ + 1]
        /\ sending' = [sending EXCEPT ![m].pc = "sent"]
     \/ /\ sending' = [sending EXCEPT ![m].pc = "refused"]
        /\ UNCHANGED sent
  /\ UNCHANGED <<clock, mail, overtaken, mailBroken>>

\* A failed job is tried again while attempts are left.
SendAgain(m) ==
  IF sending[m].tries + 1 < MaxSends
  THEN [pc |-> "waiting", tries |-> sending[m].tries + 1]
  ELSE [pc |-> "failed", tries |-> MaxSends]

\* Mutant: the outcome is not written.
RecordNothing(m) ==
  /\ SendingAt(m, "sent")
  /\ sending' = [sending EXCEPT ![m].pc = "completed"]
  /\ UNCHANGED <<clock, mail, sent, overtaken, mailBroken>>

RecordDelivered(m) ==
  /\ SendingAt(m, "sent")
  /\ mail' = [mail EXCEPT ![m].status = "DELIVERED"]
  /\ sending' = [sending EXCEPT ![m].pc = "completed"]
  /\ UNCHANGED <<clock, sent, overtaken, mailBroken>>

RecordRefused(m) ==
  /\ SendingAt(m, "refused")
  /\ mail' = [mail EXCEPT ![m].status = "FAILED"]
  /\ sending' = [sending EXCEPT ![m] = SendAgain(m)]
  /\ UNCHANGED <<clock, sent, overtaken, mailBroken>>

\* Writing the outcome fails, or the worker dies: the job is taken again.
SendingBreaks(m) ==
  /\ \/ StatementsFail /\ sending[m].pc \in {"sent", "refused"}
     \/ SenderStalls /\ sending[m].pc \in {"send", "sent", "refused"}
  /\ sending' = [sending EXCEPT ![m] = SendAgain(m)]
  /\ mailBroken' = mailBroken \cup {m}
  /\ UNCHANGED <<clock, mail, sent, overtaken>>

-------------------------------------------------------------------------------
EnqueueStep(m) == CreateRow(m) \/ AddJob(m) \/ MarkQueued(m) \/ MarkMailFailed(m)

SendingStep(m) ==
  TakeMail(m) \/ SendMail(m) \/ RecordDelivered(m) \/ RecordRefused(m)

NotificationsNext ==
  \/ TimePasses
  \/ NotifyPayment
  \/ \E m \in Mails :
       \/ NotifyAuthFlow(m)
       \/ \E n \in Mails : NotifyActivation(m, n)
       \/ EnqueueStep(m) \/ EnqueuingFails(m)
       \/ SendingStep(m) \/ SendingBreaks(m)

NotificationsSpec == NotificationsInit /\ [][NotificationsNext]_mailVars

-------------------------------------------------------------------------------
Settled(m) ==
  mail[m].pc = "over" /\ sending[m].pc \in {"completed", "failed"}

\* Once request and worker are done, the row tells what became of the mail:
\* DELIVERED if it was sent, FAILED if it was given up; unless the worker
\* overtook the request, which then writes QUEUED over the outcome, or a
\* statement failed.
OutcomeIsRecorded ==
  \A m \in Mails \ (overtaken \cup mailBroken) :
    Settled(m) => mail[m].status = IF sent[m] > 0 THEN "DELIVERED" ELSE "FAILED"

\* Nobody gets the same mail twice unless a worker died, or could not write,
\* after sending it; and no row says DELIVERED of a mail that was not sent.
SentOnce ==
  \A m \in Mails :
    /\ m \notin mailBroken => sent[m] <= 1
    /\ mail[m].status = "DELIVERED" => sent[m] > 0

\* A row and its mail agree, and a mail goes once.
MailsAreAccountedFor == OutcomeIsRecorded /\ SentOnce

\* Every notification that was begun is sent or given up, unless its job was
\* swallowed by one of the same id or could not be added.
EveryMailSettles ==
  \A m \in Mails :
    MailAt(m, "create")
      ~> Settled(m) \/ m \in mailBroken \/ (mail[m].status = "QUEUED" /\ Swallowed(m))

\* A mail's job, to the queue, is active while the worker is at it.
SendState(m) ==
  IF sending[m].pc \in {"send", "sent", "refused"} THEN "active" ELSE sending[m].pc

SendRetries == INSTANCE RetriedJobs WITH
  Jobs <- Mails,
  MaxTries <- MaxSends,
  state <- [m \in Mails |-> SendState(m)],
  failures <- [m \in Mails |-> sending[m].tries]

\* However statements fail and workers die, a mail's job is added once, tried
\* MaxSends times at most and not again after it ended.
RetriesMails == SendRetries!Spec

\* A mail is tried as the policy says, and ends.
MailsRunTheirCourse == RetriesMails /\ EveryMailSettles
===============================================================================
