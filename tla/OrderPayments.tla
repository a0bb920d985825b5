----------------------------- MODULE OrderPayments -----------------------------
(***************************************************************************)
(* One order, from checkout to delivery or refund, as four kinds of actor  *)
(* change it: the customer's payment-intent requests, the gateway, the     *)
(* webhook jobs that the queue retries, and the store's dashboard.         *)
(*                                                                         *)
(* Each action is one statement sent to the database (or one call of the   *)
(* gateway), because nothing in the handlers holds a lock or a transaction *)
(* from one statement to the next: the handlers interleave freely there.   *)
(* The one transaction, updateOrderWithInventory, is one action.           *)
(* A request whose process dies simply takes no further step.              *)
(***************************************************************************)
EXTENDS Naturals, FiniteSets, OrderRules

CONSTANTS
  Intents,         \* requests POST /payments/public/orders/:id/intent
  Events,          \* gateway events, each received once
  Requests,        \* dashboard requests to change the order's status
  MaxAttempts,     \* attempts the queue gives a webhook job
  NoPayment,       \* order.paymentId is null
  FailingSteps,    \* steps of a webhook job whose statement may fail
  JobsTimeOut      \* whether a webhook job may outlive its time limit

ASSUME ConstantsAssumption ==
  /\ Intents # {}
  /\ NoPayment \notin Intents
  /\ MaxAttempts \in Nat \ {0}
  /\ JobsTimeOut \in BOOLEAN

VARIABLES
  order,         \* status, linked payment and the timestamp columns filled
  shipment,      \* status of the shipment created with the order
  restored,      \* committed transactions that put the order's stock back
  payment,       \* payment rows, named by the request that created them
  transactions,  \* PaymentTransaction rows
  audits,        \* StatusTransitionAudit rows
  gateway,       \* the payment intent each request opened at the provider
  event,         \* PaymentWebhookEvent rows
  job,           \* the queue's job of each event
  run,           \* executions of processPaymentWebhookJob
  intent,        \* executions of createOrderPaymentIntent
  request,       \* executions of updateManagedOrderStatus
  notices        \* executions that wrote to the customer and the store

vars == <<order, shipment, restored, payment, transactions, audits, gateway,
          event, job, run, intent, request, notices>>

Attempts == 1..MaxAttempts

\* run[<<e, n>>] is the n-th attempt at event e.
Runs == Events \X Attempts

RunSteps ==
  {"idle", "load", "mark", "lookup", "readPayment", "writePayment",
   "auditPayment", "readOrder", "writeOrder", "auditOrder", "record",
   "finish", "notify", "skip", "catch", "done"}

IntentSteps ==
  {"idle", "create", "link", "gateway", "readPayment", "writePayment",
   "auditPayment", "record", "readOrder", "writeOrder", "auditOrder", "replied",
   "refused"}

RequestSteps == {"idle", "writeOrder", "writeShipment", "auditOrder", "done"}

\* Who changed a status: the key of an audit row.
Writers ==
  ({"intent"} \X Intents) \cup ({"webhook"} \X Runs) \cup ({"dashboard"} \X Requests)

Statuses == OrderStatus \cup PaymentStatus

PaymentRow == [status : PaymentStatus \cup {"NONE"}, paid : BOOLEAN, attempts : Nat]

TransactionRow == [kind : {"INTENT", "WEBHOOK"}, payment : Intents, by : Writers]

AuditRow ==
  [by : Writers, entity : {"PAYMENT", "ORDER"}, from : Statuses, to : Statuses,
   allowed : BOOLEAN]

EventRow ==
  [status : {"NONE", "RECEIVED", "PROCESSING", "PROCESSED", "FAILED"},
   type : EventTypes, payment : Intents]

JobRow ==
  [state : {"none", "waiting", "active", "completed", "failed"},
   attempt : 0..MaxAttempts]

\* seen is the status a handler has read and goes by.
RunRow == [pc : RunSteps, seen : Statuses]

IntentRow == [pc : IntentSteps, payment : Intents, base : Nat, seen : Statuses]

RequestRow ==
  [pc : RequestSteps, to : OrderStatus, seen : OrderStatus, shipment : ShipmentStatus]

TypeOK ==
  /\ order \in [status : OrderStatus, payment : Intents \cup {NoPayment},
                stamps : SUBSET Stamps]
  /\ shipment \in ShipmentStatus
  /\ restored \in Nat
  /\ payment \in [Intents -> PaymentRow]
  /\ transactions \subseteq TransactionRow
  /\ audits \subseteq AuditRow
  /\ gateway \in [Intents -> {"none", "open", "succeeded", "canceled", "refunded"}]
  /\ event \in [Events -> EventRow]
  /\ job \in [Events -> JobRow]
  /\ run \in [Runs -> RunRow]
  /\ intent \in [Intents -> IntentRow]
  /\ request \in [Requests -> RequestRow]
  /\ notices \subseteq Runs

-------------------------------------------------------------------------------
(* The order as createOrderFromCart leaves it, and no payment yet.         *)

Init ==
  /\ order = [status |-> "CREATED", payment |-> NoPayment, stamps |-> {}]
  /\ shipment = "PENDING"
  /\ restored = 0
  /\ payment = [i \in Intents |-> [status |-> "NONE", paid |-> FALSE, attempts |-> 0]]
  /\ transactions = {}
  /\ audits = {}
  /\ gateway = [i \in Intents |-> "none"]
  /\ event = [e \in Events |-> [status |-> "NONE", type |-> "other",
                                payment |-> CHOOSE i \in Intents : TRUE]]
  /\ job = [e \in Events |-> [state |-> "none", attempt |-> 0]]
  /\ run = [r \in Runs |-> [pc |-> "idle", seen |-> "CREATED"]]
  /\ intent = [i \in Intents |-> [pc |-> "idle", payment |-> i, base |-> 0,
                                  seen |-> "CREATED"]]
  /\ request = [d \in Requests |-> [pc |-> "idle", to |-> "CREATED",
                                    seen |-> "CREATED", shipment |-> "PENDING"]]
  /\ notices = {}

-------------------------------------------------------------------------------
(* The statements the handlers share.                                      *)

\* Mutant: the timestamp columns the write does not name become null.
WriteOrderClearing(seen, to, linked) ==
  /\ order' = [status |-> to, payment |-> linked, stamps |-> StampsOf(to)]
  /\ restored' = restored + (IF RestoresStock(seen, to) THEN 1 ELSE 0)

\* updateOrderWithInventory: one transaction that puts the stock back when
\* the status the handler has read says so, and writes the new status
\* whatever the row's status has become.
WriteOrder(seen, to, linked) ==
  /\ order' = [status |-> to, payment |-> linked,
               stamps |-> order.stamps \cup StampsOf(to)]
  /\ restored' = restored + (IF RestoresStock(seen, to) THEN 1 ELSE 0)

\* transitionPaymentStatus's write, as blind as the order's.
WritePayment(p, to, attempts) ==
  payment' = [payment EXCEPT ![p] =
                [status |-> to, paid |-> @.paid \/ to = "APPROVED",
                 attempts |-> attempts]]

Audit(by, entity, from, to, allowed) ==
  audits' = audits \cup {[by |-> by, entity |-> entity, from |-> from,
                          to |-> to, allowed |-> allowed]}

-------------------------------------------------------------------------------
(* createOrderPaymentIntent                                                *)

IntentAt(i, pc) == intent[i].pc = pc

IntentReads(i, pc, seen) ==
  intent' = [intent EXCEPT ![i] = [@ EXCEPT !.pc = pc, !.seen = seen]]

\* Going on without the status that was read, which is not used again.
IntentGoes(i, pc) == IntentReads(i, pc, "CREATED")

\* The request reads the order with its payment and refuses one that cannot
\* be paid for; the e-mail and session checks are met by an honest customer.
ReadPayableOrder(i) ==
  /\ IntentAt(i, "idle")
  /\ IsOrderPayable(order.status)
  /\ \/ /\ order.payment = NoPayment
        /\ IntentGoes(i, "create")
     \/ /\ order.payment # NoPayment
        /\ intent' = [intent EXCEPT ![i] =
             [@ EXCEPT !.pc = "gateway", !.payment = order.payment,
                       !.base = payment[order.payment].attempts]]
  /\ UNCHANGED <<order, shipment, restored, payment, transactions, audits,
                 gateway, event, job, run, request, notices>>

CreatePayment(i) ==
  /\ IntentAt(i, "create")
  /\ payment' = [payment EXCEPT ![i].status = "CREATED"]
  /\ IntentGoes(i, "link")
  /\ UNCHANGED <<order, shipment, restored, transactions, audits, gateway,
                 event, job, run, request, notices>>

LinkPayment(i) ==
  /\ IntentAt(i, "link")
  /\ order' = [order EXCEPT !.payment = i]
  /\ IntentGoes(i, "gateway")
  /\ UNCHANGED <<shipment, restored, payment, transactions, audits, gateway,
                 event, job, run, request, notices>>

\* The provider opens a payment intent whose metadata names the payment row.
OpenIntent(i) ==
  /\ IntentAt(i, "gateway")
  /\ gateway' = [gateway EXCEPT ![i] = "open"]
  /\ IntentGoes(i, "readPayment")
  /\ UNCHANGED <<order, shipment, restored, payment, transactions, audits,
                 event, job, run, request, notices>>

IntentReadsPayment(i) ==
  LET from == payment[intent[i].payment].status IN
  /\ IntentAt(i, "readPayment")
  /\ \/ /\ CanTransitionPayment(from, "PENDING")
        /\ IntentReads(i, "writePayment", from)
        /\ UNCHANGED audits
     \/ /\ ~CanTransitionPayment(from, "PENDING")
        /\ Audit(<<"intent", i>>, "PAYMENT", from, "PENDING", FALSE)
        /\ IntentGoes(i, "refused")
  /\ UNCHANGED <<order, shipment, restored, payment, transactions, gateway,
                 event, job, run, request, notices>>

IntentWritesPayment(i) ==
  /\ IntentAt(i, "writePayment")
  /\ WritePayment(intent[i].payment, "PENDING", intent[i].base + 1)
  /\ IntentReads(i, "auditPayment", intent[i].seen)
  /\ UNCHANGED <<order, shipment, restored, transactions, audits, gateway,
                 event, job, run, request, notices>>

IntentAuditsPayment(i) ==
  /\ IntentAt(i, "auditPayment")
  /\ Audit(<<"intent", i>>, "PAYMENT", intent[i].seen, "PENDING", TRUE)
  /\ IntentGoes(i, "record")
  /\ UNCHANGED <<order, shipment, restored, payment, transactions, gateway,
                 event, job, run, request, notices>>

IntentRecords(i) ==
  /\ IntentAt(i, "record")
  /\ transactions' = transactions \cup
       {[kind |-> "INTENT", payment |-> intent[i].payment, by |-> <<"intent", i>>]}
  /\ IntentGoes(i, "readOrder")
  /\ UNCHANGED <<order, shipment, restored, payment, audits, gateway, event,
                 job, run, request, notices>>

IntentReadsOrder(i) ==
  /\ IntentAt(i, "readOrder")
  /\ \/ /\ CanTransitionOrder(order.status, "WAITING_PAYMENT")
        /\ IntentReads(i, "writeOrder", order.status)
        /\ UNCHANGED audits
     \/ /\ ~CanTransitionOrder(order.status, "WAITING_PAYMENT")
        /\ Audit(<<"intent", i>>, "ORDER", order.status, "WAITING_PAYMENT", FALSE)
        /\ IntentGoes(i, "refused")
  /\ UNCHANGED <<order, shipment, restored, payment, transactions, gateway,
                 event, job, run, request, notices>>

IntentWritesOrder(i) ==
  /\ IntentAt(i, "writeOrder")
  /\ WriteOrder(intent[i].seen, "WAITING_PAYMENT", intent[i].payment)
  /\ IntentReads(i, "auditOrder", intent[i].seen)
  /\ UNCHANGED <<shipment, payment, transactions, audits, gateway, event, job,
                 run, request, notices>>

IntentAuditsOrder(i) ==
  /\ IntentAt(i, "auditOrder")
  /\ Audit(<<"intent", i>>, "ORDER", intent[i].seen, "WAITING_PAYMENT", TRUE)
  /\ IntentGoes(i, "replied")
  /\ UNCHANGED <<order, shipment, restored, payment, transactions, gateway,
                 event, job, run, request, notices>>

IntentStep(i) ==
  \/ ReadPayableOrder(i)
  \/ CreatePayment(i)
  \/ LinkPayment(i)
  \/ OpenIntent(i)
  \/ IntentReadsPayment(i)
  \/ IntentWritesPayment(i)
  \/ IntentAuditsPayment(i)
  \/ IntentRecords(i)
  \/ IntentReadsOrder(i)
  \/ IntentWritesOrder(i)
  \/ IntentAuditsOrder(i)

-------------------------------------------------------------------------------
(* The provider. A failed card leaves its intent open for another attempt. *)

GatewayAfter(state, type) ==
  CASE type \in {"succeeded", "refunded"}  -> type
    [] type \in {"canceled", "abandoned"}  -> "canceled"
    [] OTHER                               -> state

\* The customer can try a card only with the secret of the handler's reply.
CanHappen(i, type) ==
  CASE type \in {"succeeded", "failed"} -> gateway[i] = "open" /\ IntentAt(i, "replied")
    [] type = "refunded"               -> gateway[i] = "succeeded"
    [] type = "other"                  -> gateway[i] # "none"
    [] OTHER                           -> gateway[i] = "open"

\* Something happens to an intent, and receiveStripeWebhook has stored the
\* event and queued its job. Module WebhookIntake has that handler's steps;
\* here a late or reordered delivery is a job that starts late.
EventArrives(e, i, type) ==
  /\ event[e].status = "NONE"
  /\ CanHappen(i, type)
  /\ gateway' = [gateway EXCEPT ![i] = GatewayAfter(@, type)]
  /\ event' = [event EXCEPT ![e] = [status |-> "RECEIVED", type |-> type,
                                    payment |-> intent[i].payment]]
  /\ job' = [job EXCEPT ![e].state = "waiting"]
  /\ UNCHANGED <<order, shipment, restored, payment, transactions, audits,
                 run, intent, request, notices>>

-------------------------------------------------------------------------------
(* The queue and processPaymentWebhookJob. A job that times out is retried *)
(* while its execution goes on: the time limit only stops the waiting.     *)

RunAt(r, pc) == run[r].pc = pc

RunReads(r, pc, seen) == run' = [run EXCEPT ![r] = [pc |-> pc, seen |-> seen]]

\* As IntentGoes: the status that was read is not used again.
RunGoes(r, pc) == RunReads(r, pc, "CREATED")

Row(r) == event[r[1]]

SetRow(r, status) == event' = [event EXCEPT ![r[1]].status = status]

PaymentTarget(r) == WebhookPaymentStatus[Row(r).type]

OrderTarget(r) == WebhookOrderStatus[Row(r).type]

IsActive(r) == job[r[1]] = [state |-> "active", attempt |-> r[2]]

\* Mutant: one attempt too many is promised.
AfterFailureOffByOne(attempt) ==
  IF attempt <= MaxAttempts THEN "waiting" ELSE "failed"

AfterFailure(attempt) == IF attempt < MaxAttempts THEN "waiting" ELSE "failed"

\* An execution ends; only the attempt the queue waits for settles the job.
RunSucceeds(r) ==
  job' = IF IsActive(r) THEN [job EXCEPT ![r[1]].state = "completed"] ELSE job

RunFails(r) ==
  job' = IF IsActive(r) THEN [job EXCEPT ![r[1]].state = AfterFailure(r[2])]
                        ELSE job

StartAttempt(r) ==
  /\ job[r[1]] = [state |-> "waiting", attempt |-> r[2] - 1]
  /\ job' = [job EXCEPT ![r[1]] = [state |-> "active", attempt |-> r[2]]]
  /\ RunGoes(r, "load")
  /\ UNCHANGED <<order, shipment, restored, payment, transactions, audits,
                 gateway, event, intent, request, notices>>

TimeOut(r) ==
  /\ JobsTimeOut
  /\ IsActive(r)
  /\ RunFails(r)
  /\ UNCHANGED <<order, shipment, restored, payment, transactions, audits,
                 gateway, event, run, intent, request, notices>>

LoadEvent(r) ==
  /\ RunAt(r, "load")
  /\ \/ /\ Row(r).status = "PROCESSED"
        /\ RunGoes(r, "done")
        /\ RunSucceeds(r)
     \/ /\ Row(r).status # "PROCESSED"
        /\ RunGoes(r, "mark")
        /\ UNCHANGED job
  /\ UNCHANGED <<order, shipment, restored, payment, transactions, audits,
                 gateway, event, intent, request, notices>>

\* Marks the row, then resolves the type: an unsupported one throws.
MarkProcessing(r) ==
  /\ RunAt(r, "mark")
  /\ SetRow(r, "PROCESSING")
  /\ RunGoes(r, IF Row(r).type \in SupportedEvents THEN "lookup" ELSE "catch")
  /\ UNCHANGED <<order, shipment, restored, payment, transactions, audits,
                 gateway, job, intent, request, notices>>

\* The PaymentTransaction rows of an event: the idempotency key names it.
RecordsOf(e) ==
  {t \in transactions : t.kind = "WEBHOOK" /\ t.by[2][1] = e}

\* Mutant: an earlier attempt's transaction is not looked for.
LookupNothing(r) ==
  /\ RunAt(r, "lookup")
  /\ RunGoes(r, "readPayment")
  /\ UNCHANGED <<order, shipment, restored, payment, transactions, audits,
                 gateway, event, job, intent, request, notices>>

LookupTransaction(r) ==
  /\ RunAt(r, "lookup")
  /\ RunGoes(r, IF RecordsOf(r[1]) # {} THEN "skip" ELSE "readPayment")
  /\ UNCHANGED <<order, shipment, restored, payment, transactions, audits,
                 gateway, event, job, intent, request, notices>>

\* Mutant: the payment's transition is not checked.
RunReadsAnyPayment(r) ==
  /\ RunAt(r, "readPayment")
  /\ RunReads(r, "writePayment", payment[Row(r).payment].status)
  /\ UNCHANGED <<order, shipment, restored, payment, transactions, audits,
                 gateway, event, job, intent, request, notices>>

\* Mutant: a payment already in the target status is passed over.
RunSkipsSamePayment(r) ==
  LET from == payment[Row(r).payment].status IN
  /\ RunAt(r, "readPayment")
  /\ CanTransitionPayment(from, PaymentTarget(r))
  /\ RunReads(r, IF from = PaymentTarget(r) THEN "readOrder" ELSE "writePayment", from)
  /\ UNCHANGED <<order, shipment, restored, payment, transactions, audits,
                 gateway, event, job, intent, request, notices>>

RunReadsPayment(r) ==
  LET from == payment[Row(r).payment].status IN
  /\ RunAt(r, "readPayment")
  /\ \/ /\ CanTransitionPayment(from, PaymentTarget(r))
        /\ RunReads(r, "writePayment", from)
        /\ UNCHANGED audits
     \/ /\ ~CanTransitionPayment(from, PaymentTarget(r))
        /\ Audit(<<"webhook", r>>, "PAYMENT", from, PaymentTarget(r), FALSE)
        /\ RunGoes(r, "catch")
  /\ UNCHANGED <<order, shipment, restored, payment, transactions, gateway,
                 event, job, intent, request, notices>>

RunWritesPayment(r) ==
  /\ RunAt(r, "writePayment")
  /\ WritePayment(Row(r).payment, PaymentTarget(r), payment[Row(r).payment].attempts)
  /\ RunReads(r, "auditPayment", run[r].seen)
  /\ UNCHANGED <<order, shipment, restored, transactions, audits, gateway,
                 event, job, intent, request, notices>>

RunAuditsPayment(r) ==
  /\ RunAt(r, "auditPayment")
  /\ Audit(<<"webhook", r>>, "PAYMENT", run[r].seen, PaymentTarget(r), TRUE)
  /\ RunGoes(r, "readOrder")
  /\ UNCHANGED <<order, shipment, restored, payment, transactions, gateway,
                 event, job, intent, request, notices>>

RunReadsOrder(r) ==
  /\ RunAt(r, "readOrder")
  /\ \/ /\ CanTransitionOrder(order.status, OrderTarget(r))
        /\ RunReads(r, "writeOrder", order.status)
        /\ UNCHANGED audits
     \/ /\ ~CanTransitionOrder(order.status, OrderTarget(r))
        /\ Audit(<<"webhook", r>>, "ORDER", order.status, OrderTarget(r), FALSE)
        /\ RunGoes(r, "catch")
  /\ UNCHANGED <<order, shipment, restored, payment, transactions, gateway,
                 event, job, intent, request, notices>>

RunWritesOrder(r) ==
  /\ RunAt(r, "writeOrder")
  /\ WriteOrder(run[r].seen, OrderTarget(r), order.payment)
  /\ RunReads(r, "auditOrder", run[r].seen)
  /\ UNCHANGED <<shipment, payment, transactions, audits, gateway, event, job,
                 intent, request, notices>>

RunAuditsOrder(r) ==
  /\ RunAt(r, "auditOrder")
  /\ Audit(<<"webhook", r>>, "ORDER", run[r].seen, OrderTarget(r), TRUE)
  /\ RunGoes(r, "record")
  /\ UNCHANGED <<order, shipment, restored, payment, transactions, gateway,
                 event, job, intent, request, notices>>

RunRecords(r) ==
  /\ RunAt(r, "record")
  /\ transactions' = transactions \cup
       {[kind |-> "WEBHOOK", payment |-> Row(r).payment, by |-> <<"webhook", r>>]}
  /\ RunGoes(r, "finish")
  /\ UNCHANGED <<order, shipment, restored, payment, audits, gateway, event,
                 job, intent, request, notices>>

MarkProcessed(r) ==
  /\ RunAt(r, "finish")
  /\ SetRow(r, "PROCESSED")
  /\ IF PaymentTarget(r) \in NotifiedPaymentStatuses
     THEN RunGoes(r, "notify") /\ UNCHANGED job
     ELSE RunGoes(r, "done") /\ RunSucceeds(r)
  /\ UNCHANGED <<order, shipment, restored, payment, transactions, audits,
                 gateway, intent, request, notices>>

\* dispatchPaymentNotificationsIfApplicable: its own errors are swallowed.
Notify(r) ==
  /\ RunAt(r, "notify")
  /\ notices' = notices \cup {r}
  /\ RunGoes(r, "done")
  /\ RunSucceeds(r)
  /\ UNCHANGED <<order, shipment, restored, payment, transactions, audits,
                 gateway, event, intent, request>>

SkipRecorded(r) ==
  /\ RunAt(r, "skip")
  /\ SetRow(r, "PROCESSED")
  /\ RunGoes(r, "done")
  /\ RunSucceeds(r)
  /\ UNCHANGED <<order, shipment, restored, payment, transactions, audits,
                 gateway, intent, request, notices>>

\* Mutant: the row is not marked.
FailUnmarked(r) ==
  /\ RunAt(r, "catch")
  /\ RunGoes(r, "done")
  /\ RunFails(r)
  /\ UNCHANGED <<order, shipment, restored, payment, transactions, audits,
                 gateway, event, intent, request, notices>>

MarkFailed(r) ==
  /\ RunAt(r, "catch")
  /\ SetRow(r, "FAILED")
  /\ RunGoes(r, "done")
  /\ RunFails(r)
  /\ UNCHANGED <<order, shipment, restored, payment, transactions, audits,
                 gateway, intent, request, notices>>

\* A statement fails. Inside the try block the row is marked next; before it
\* (load, mark) and in the catch block itself the execution just ends, and a
\* failed notification ends it as a success.
StatementFails(r) ==
  /\ run[r].pc \in FailingSteps
  /\ \/ /\ run[r].pc \in {"lookup", "readPayment", "writePayment", "auditPayment",
                          "readOrder", "writeOrder", "auditOrder", "record",
                          "finish", "skip"}
        /\ RunGoes(r, "catch")
        /\ UNCHANGED job
     \/ /\ run[r].pc \in {"load", "mark", "catch"}
        /\ RunGoes(r, "done")
        /\ RunFails(r)
     \/ /\ RunAt(r, "notify")
        /\ RunGoes(r, "done")
        /\ RunSucceeds(r)
  /\ UNCHANGED <<order, shipment, restored, payment, transactions, audits,
                 gateway, event, intent, request, notices>>

\* The worker's own steps; a failure or a timeout is not its choice.
RunStep(r) ==
  \/ StartAttempt(r)
  \/ LoadEvent(r)
  \/ MarkProcessing(r)
  \/ LookupTransaction(r)
  \/ RunReadsPayment(r)
  \/ RunWritesPayment(r)
  \/ RunAuditsPayment(r)
  \/ RunReadsOrder(r)
  \/ RunWritesOrder(r)
  \/ RunAuditsOrder(r)
  \/ RunRecords(r)
  \/ MarkProcessed(r)
  \/ Notify(r)
  \/ SkipRecorded(r)
  \/ MarkFailed(r)

-------------------------------------------------------------------------------
(* updateManagedOrderStatus                                                *)

RequestAt(d, pc) == request[d].pc = pc

RequestGoes(d, pc) == request' = [request EXCEPT ![d].pc = pc]

\* Mutant: the transition is not checked.
ReadAnyOrder(d, to) ==
  /\ RequestAt(d, "idle")
  /\ request' = [request EXCEPT ![d] =
       [pc |-> "writeOrder", to |-> to, seen |-> order.status, shipment |-> shipment]]
  /\ UNCHANGED <<order, shipment, restored, payment, transactions, audits,
                 gateway, event, job, run, intent, notices>>

ReadManagedOrder(d, to) ==
  /\ RequestAt(d, "idle")
  /\ \/ /\ CanTransitionOrder(order.status, to)
        /\ request' = [request EXCEPT ![d] =
             [pc |-> "writeOrder", to |-> to, seen |-> order.status,
              shipment |-> shipment]]
        /\ UNCHANGED audits
     \/ /\ ~CanTransitionOrder(order.status, to)
        /\ Audit(<<"dashboard", d>>, "ORDER", order.status, to, FALSE)
        /\ RequestGoes(d, "done")
  /\ UNCHANGED <<order, shipment, restored, payment, transactions, gateway,
                 event, job, run, intent, notices>>

WriteManagedOrder(d) ==
  /\ RequestAt(d, "writeOrder")
  /\ WriteOrder(request[d].seen, request[d].to, order.payment)
  /\ RequestGoes(d, "writeShipment")
  /\ UNCHANGED <<shipment, payment, transactions, audits, gateway, event, job,
                 run, intent, notices>>

WriteShipment(d) ==
  /\ RequestAt(d, "writeShipment")
  /\ shipment' = ShipmentAfter(request[d].shipment, request[d].to)
  /\ RequestGoes(d, "auditOrder")
  /\ UNCHANGED <<order, restored, payment, transactions, audits, gateway,
                 event, job, run, intent, notices>>

AuditManagedOrder(d) ==
  /\ RequestAt(d, "auditOrder")
  /\ Audit(<<"dashboard", d>>, "ORDER", request[d].seen, request[d].to, TRUE)
  /\ RequestGoes(d, "done")
  /\ UNCHANGED <<order, shipment, restored, payment, transactions, gateway,
                 event, job, run, intent, notices>>

RequestStep(d) ==
  \/ \E to \in OperationalOrderStatuses : ReadManagedOrder(d, to)
  \/ WriteManagedOrder(d)
  \/ WriteShipment(d)
  \/ AuditManagedOrder(d)

-------------------------------------------------------------------------------
Next ==
  \/ \E i \in Intents : IntentStep(i)
  \/ \E e \in Events, i \in Intents, type \in EventTypes : EventArrives(e, i, type)
  \/ \E r \in Runs : RunStep(r) \/ TimeOut(r) \/ StatementFails(r)
  \/ \E d \in Requests : RequestStep(d)

Spec == Init /\ [][Next]_vars

\* The worker process runs: a started statement comes back, a queued job is
\* taken. Nothing makes a customer, a store or the gateway act.
FairSpec == Spec /\ \A r \in Runs : WF_vars(RunStep(r))

-------------------------------------------------------------------------------
(* Properties that hold however the actors interleave.                     *)

SomePaymentPaid == \E i \in Intents : payment[i].paid

\* No order is worked on, shipped, delivered or refunded unless some payment
\* of it was captured: the dashboard and the webhook jobs, acting on what
\* they read earlier, never take an unpaid order past PAYMENT_APPROVED.
FulfilledOnlyIfPaid ==
  order.status \in {"PAYMENT_APPROVED", "PROCESSING", "SHIPPED", "DELIVERED",
                    "REFUNDED"} => SomePaymentPaid

\* The timestamps of an order tell a possible story even when stale writes
\* have made its status jump about: delivered after shipped, shipped or
\* refunded after approved, approved after a capture.
MilestoneChain ==
  /\ "deliveredAt" \in order.stamps => "shippedAt" \in order.stamps
  /\ "shippedAt" \in order.stamps => "approvedAt" \in order.stamps
  /\ "refundedAt" \in order.stamps => "approvedAt" \in order.stamps
  /\ "approvedAt" \in order.stamps => SomePaymentPaid

\* A canceled or refunded order has put its stock back at least once: the
\* decision is taken on a stale status, but a closed status that was read
\* was written by a transaction that restored.
ClosedOrderReleasedStock ==
  order.status \in ClosedOrderStatuses => restored > 0

\* A webhook job records its transaction only when the same execution has
\* moved both the payment and the order, and audited both moves.
RecordFollowsBothTransitions ==
  \A r \in Runs :
    [kind |-> "WEBHOOK", payment |-> Row(r).payment, by |-> <<"webhook", r>>]
      \in transactions =>
      \A entity \in {"PAYMENT", "ORDER"} :
        \E a \in audits :
          /\ a.by = <<"webhook", r>>
          /\ a.entity = entity
          /\ a.allowed
          /\ a.to = IF entity = "PAYMENT" THEN PaymentTarget(r) ELSE OrderTarget(r)

\* An event that counts as processed, or that was notified about, left its
\* transaction: retries and skips never mark unapplied events as done.
ProcessedEventIsRecorded ==
  /\ \A e \in Events : event[e].status = "PROCESSED" => RecordsOf(e) # {}
  /\ \A r \in notices : RecordsOf(r[1]) # {}

\* What an event did, it did whole.
EventsAreAppliedWhole == RecordFollowsBothTransitions /\ ProcessedEventIsRecorded

\* The shipment never runs ahead of its order's timestamps, although it is
\* written in a later statement, from a status read before the order's write.
ShipmentFollowsOrder ==
  /\ shipment = "SHIPPED" => "shippedAt" \in order.stamps
  /\ shipment = "DELIVERED" => "deliveredAt" \in order.stamps
  /\ shipment = "CANCELED" => "canceledAt" \in order.stamps

\* Rows refer to rows that exist: the order's payment, the payment a
\* provider's intent or a stored event names.
ReferencesResolve ==
  /\ order.payment # NoPayment => payment[order.payment].status # "NONE"
  /\ \A i \in Intents :
       gateway[i] # "none" => payment[intent[i].payment].status # "NONE"
  /\ \A e \in Events :
       event[e].status # "NONE" => payment[event[e].payment].status # "NONE"

\* The milestones of OrderMilestones: the timestamp columns, and the capture.
Reached == order.stamps \cup (IF SomePaymentPaid THEN {"paid"} ELSE {})

History == INSTANCE OrderMilestones WITH reached <- Reached

\* Stale reads may move the status back, but the order's history is the
\* abstract one: a milestone at a time, in order, none ever taken back.
ImplementsMilestones == History!Spec

\* The events with a row, and whether they have a job yet, as EventQueue has them.
Arrivals == INSTANCE EventQueue WITH
  stored <- {e \in Events : event[e].status # "NONE"},
  jobs <- [e \in Events |-> IF job[e].state = "none" THEN 0 ELSE 1]

\* What the jobs here take from WebhookIntake is what it gives: an event comes with
\* its row and one job, and no retry, time-out or failure queues it a second time
\* or loses the row.
FollowsEventQueue == Arrivals!Spec

\* A job's attempt counts its failures, and itself while it runs or has succeeded.
Retries == INSTANCE RetriedJobs WITH
  Jobs <- Events,
  MaxTries <- MaxAttempts,
  state <- [e \in Events |-> job[e].state],
  failures <- [e \in Events |->
    IF job[e].state \in {"active", "completed"} THEN job[e].attempt - 1
                                               ELSE job[e].attempt]

\* Executions that time out, die or go on after their time settle a job no more
\* than the queue's policy says: late ones change nothing, and it is given up
\* after MaxAttempts failures.
RetriesJobs == Retries!Spec

-------------------------------------------------------------------------------
(* Properties that hold while no job outlives its time limit.              *)

\* Retrying an event after failed statements does not apply it twice: one
\* transaction and one notification at most.
OneRecordPerEvent ==
  \A e \in Events :
    /\ Cardinality(RecordsOf(e)) <= 1
    /\ Cardinality({r \in notices : r[1] = e}) <= 1

\* An event once processed stays processed, whatever jobs fail later.
ProcessedIsFinal ==
  [][\A e \in Events :
       event[e].status = "PROCESSED" => event'[e].status = "PROCESSED"]_vars

\* When the row can be read and marked, the queue and the table agree on how
\* an event ended.
JobAndRowAgree ==
  \A e \in Events :
    /\ job[e].state = "completed" => event[e].status = "PROCESSED"
    /\ job[e].state = "failed" => event[e].status = "FAILED"

\* Whatever interleaves, the order's timestamps, stock, shipment, references and
\* its events' jobs hang together.
OrderIsSound ==
  /\ MilestoneChain
  /\ ClosedOrderReleasedStock
  /\ ShipmentFollowsOrder
  /\ ReferencesResolve
  /\ JobAndRowAgree

-------------------------------------------------------------------------------
(* Liveness of the queue.                                                  *)

\* Every queued event is settled: completed, or given up after the last
\* attempt, even with failing statements and executions that time out.
JobsSettle ==
  \A e \in Events :
    job[e].state = "waiting" ~> job[e].state \in {"completed", "failed"}

\* When the catch block's own statement does not fail, a row does not stay
\* PROCESSING: whoever marked it also finishes it, timed out or not.
RowsLeaveProcessing ==
  \A e \in Events : event[e].status = "PROCESSING" ~> event[e].status # "PROCESSING"

\* A webhook job is queued once with its row, retried as the policy says, and ends.
JobsRunTheirCourse == FollowsEventQueue /\ RetriesJobs /\ JobsSettle

-------------------------------------------------------------------------------
(* What the handlers' read-then-write gap costs. A window is a handler     *)
(* between reading a status and writing over it; SerialSpec keeps those    *)
(* behaviours in which at most one is open at a time, everything else      *)
(* still interleaving.                                                     *)

Windows ==
  {<<"intent", i>> : i \in {j \in Intents : intent[j].pc \in {"writePayment", "writeOrder"}}}
    \cup {<<"webhook", r>> : r \in {q \in Runs : run[q].pc \in {"writePayment", "writeOrder"}}}
    \cup {<<"dashboard", d>> : d \in {q \in Requests : request[q].pc = "writeOrder"}}

OneWindow == \A v, w \in Windows : v = w

SerialSpec == Init /\ [][Next /\ OneWindow']_vars

\* Every change of a payment's status is in the transition table.
PaymentFollowsTable ==
  [][\A i \in Intents : payment[i].status # "NONE" =>
       CanTransitionPayment(payment[i].status, payment'[i].status)]_vars

\* Every change of the order's status is in the transition table.
OrderFollowsTable == [][CanTransitionOrder(order.status, order'.status)]_vars

\* Both tables are followed, and an event once processed stays so, as long as no
\* two windows are open together.
TablesAreFollowed == PaymentFollowsTable /\ OrderFollowsTable /\ ProcessedIsFinal

\* Stock is held exactly while the order is open, and put back once.
StockMatchesStatus ==
  restored = IF order.status \in ClosedOrderStatuses THEN 1 ELSE 0

\* A captured payment is never shown as unpaid again, and once its event is
\* processed the order is not shown as waiting for payment either.
CaptureIsNotForgotten ==
  /\ \A i \in Intents : payment[i].paid => payment[i].status \in {"APPROVED", "REFUNDED"}
  /\ \A e \in Events :
       event[e].status = "PROCESSED" /\ event[e].type = "succeeded" =>
         order.status \notin {"CREATED", "WAITING_PAYMENT", "PAYMENT_FAILED"}

-------------------------------------------------------------------------------
(* A claim of the documents that the code does not keep.                   *)

\* README: the worker turns each supported event into a payment and an order
\* transition; so a captured intent eventually shows on the order.
CaptureReachesOrder ==
  \A e \in Events :
    event[e].status = "RECEIVED" /\ event[e].type = "succeeded"
      ~> "approvedAt" \in order.stamps
===============================================================================
