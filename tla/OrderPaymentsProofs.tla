-------------------------- MODULE OrderPaymentsProofs --------------------------
(***************************************************************************)
(* For any number of intent requests, events, attempts and dashboard       *)
(* requests, with failing statements and jobs that outlive their time      *)
(* limit: types, references, the order's milestones, released stock and    *)
(* the shipment. The argument is that a status a handler has read stays    *)
(* backed by timestamps, which are never cleared, so that a stale write is *)
(* as well founded as a fresh one.                                         *)
(***************************************************************************)
EXTENDS OrderPayments, TLAPS

USE ConstantsAssumption

-------------------------------------------------------------------------------
(* The inductive invariant.                                                *)

\* Where a run has passed the check of its event's type.
Resolved ==
  {"lookup", "readPayment", "writePayment", "auditPayment", "readOrder",
   "writeOrder", "auditOrder", "record", "finish", "notify", "skip"}

\* References resolve because what is referred to was created before.
RefsOK ==
  /\ ReferencesResolve
  /\ \A i \in Intents :
       /\ ~IntentAt(i, "idle") /\ ~IntentAt(i, "create") =>
            payment[intent[i].payment].status # "NONE"
       /\ intent[i].pc \in {"idle", "create", "link"} => intent[i].payment = i
       /\ gateway[i] # "none" =>
            intent[i].pc \notin {"idle", "create", "link", "gateway"}
  /\ \A e \in Events : job[e].state # "none" => event[e].status # "NONE"
  /\ \A r \in Runs :
       /\ ~RunAt(r, "idle") => Row(r).status # "NONE"
       /\ run[r].pc \in Resolved => Row(r).type \in SupportedEvents

\* A payment is shown as captured, and a run has got past its payment with a
\* capture or a refund, only after the payment was captured.
PaidOK ==
  /\ \A i \in Intents :
       /\ payment[i].status \in {"APPROVED", "REFUNDED"} => payment[i].paid
       /\ payment[i].status # "AUTHORIZED"
  /\ \A r \in Runs :
       /\ RunAt(r, "writePayment") /\ Row(r).type = "refunded" =>
            payment[Row(r).payment].paid
       /\ run[r].pc \in {"auditPayment", "readOrder", "writeOrder"}
            /\ Row(r).type \in {"succeeded", "refunded"} =>
            payment[Row(r).payment].paid

\* The timestamps an order with a status has at least.
Backing(status) ==
  CASE status = "PAYMENT_APPROVED" -> {"approvedAt"}
    [] status = "PROCESSING"       -> {"approvedAt"}
    [] status = "SHIPPED"          -> {"approvedAt", "shippedAt"}
    [] status = "DELIVERED"        -> {"approvedAt", "shippedAt", "deliveredAt"}
    [] status = "REFUNDED"         -> {"approvedAt", "refundedAt"}
    [] status = "CANCELED"         -> {"canceledAt"}
    [] OTHER                       -> {}

\* What was once true of a status stays true of the order.
Backed(status) ==
  /\ Backing(status) \subseteq order.stamps
  /\ status \in ClosedOrderStatuses => restored > 0

\* A handler about to write over a status it has read.
WindowOK(seen, to) ==
  /\ seen \in OrderStatus
  /\ Backed(seen)
  /\ CanTransitionOrder(seen, to)

OrderOK ==
  /\ MilestoneChain
  /\ Backed(order.status)
  /\ \A i \in Intents : IntentAt(i, "writeOrder") => WindowOK(intent[i].seen, "WAITING_PAYMENT")
  /\ \A r \in Runs : RunAt(r, "writeOrder") => WindowOK(run[r].seen, OrderTarget(r))
  /\ \A d \in Requests :
       RequestAt(d, "writeOrder") =>
         /\ WindowOK(request[d].seen, request[d].to)
         /\ request[d].to \in OperationalOrderStatuses

\* A shipment status the order's timestamps explain.
ShipmentBacked(status) ==
  /\ status = "SHIPPED" => "shippedAt" \in order.stamps
  /\ status = "DELIVERED" => "deliveredAt" \in order.stamps
  /\ status = "CANCELED" => "canceledAt" \in order.stamps

ShipmentOK ==
  /\ ShipmentBacked(shipment)
  /\ \A d \in Requests :
       /\ request[d].pc \in {"writeOrder", "writeShipment"} =>
            ShipmentBacked(request[d].shipment)
       /\ RequestAt(d, "writeShipment") =>
            /\ StampsOf(request[d].to) \subseteq order.stamps
            /\ request[d].to \in OperationalOrderStatuses

IInv == TypeOK /\ RefsOK /\ PaidOK /\ OrderOK /\ ShipmentOK

-------------------------------------------------------------------------------
(* The tables.                                                             *)

\* What an order can have been before it is what it is now.
LEMMA OrderTable ==
  ASSUME NEW from \in OrderStatus, NEW to \in OrderStatus, CanTransitionOrder(from, to)
  PROVE  /\ to = "PROCESSING" => from \in {"PAYMENT_APPROVED", "PROCESSING"}
         /\ to = "SHIPPED" => from \in {"PROCESSING", "SHIPPED"}
         /\ to = "DELIVERED" => from \in {"SHIPPED", "DELIVERED"}
         /\ to = "REFUNDED" => from \in {"PAYMENT_APPROVED", "PROCESSING", "SHIPPED", "DELIVERED", "REFUNDED"}
  BY DEF CanTransitionOrder, OrderStatusTransitions, OrderStatus

\* Only money that was authorised or taken is given back.
LEMMA RefundTable ==
  ASSUME NEW from \in PaymentStatus, CanTransitionPayment(from, "REFUNDED")
  PROVE  from \in {"AUTHORIZED", "APPROVED", "REFUNDED"}
  BY DEF CanTransitionPayment, PaymentStatusTransitions, PaymentStatus

\* What a supported event wants of the payment and of the order.
LEMMA Targets ==
  ASSUME NEW type \in SupportedEvents
  PROVE  /\ WebhookPaymentStatus[type] \in PaymentStatus
         /\ WebhookOrderStatus[type] \in OrderStatus
         /\ WebhookPaymentStatus[type] = "APPROVED" => type = "succeeded"
         /\ WebhookPaymentStatus[type] = "REFUNDED" => type = "refunded"
         /\ WebhookPaymentStatus[type] # "AUTHORIZED"
         /\ WebhookOrderStatus[type] = "PAYMENT_APPROVED" => type = "succeeded"
         /\ WebhookOrderStatus[type] = "REFUNDED" => type = "refunded"
         /\ type = "succeeded" => WebhookPaymentStatus[type] = "APPROVED"
         /\ WebhookOrderStatus[type] \in {"PAYMENT_APPROVED", "PAYMENT_FAILED", "REFUNDED"}
  BY DEF SupportedEvents, WebhookPaymentStatus, WebhookOrderStatus, PaymentStatus, OrderStatus

-------------------------------------------------------------------------------
(* What a step of a handler changes of its own record and of the rows.     *)

\* An execution is of an event, by its number.
LEMMA RunsPair == \A r \in Runs : r[1] \in Events /\ r[2] \in Attempts
  BY DEF Runs

\* Who writes audit rows.
LEMMA WritersAre ==
  /\ \A i \in Intents : <<"intent", i>> \in Writers
  /\ \A r \in Runs : <<"webhook", r>> \in Writers
  /\ \A d \in Requests : <<"dashboard", d>> \in Writers
  BY DEF Writers

\* An intent request moves to a step with what it read.
LEMMA IntentMoves ==
  ASSUME TypeOK, NEW i \in Intents, NEW pc \in IntentSteps, NEW seen \in Statuses,
         IntentReads(i, pc, seen)
  PROVE  /\ intent' \in [Intents -> IntentRow]
         /\ intent'[i].pc = pc
         /\ intent'[i].seen = seen
         /\ \A j \in Intents : intent'[j].payment = intent[j].payment
         /\ \A j \in Intents \ {i} : intent'[j] = intent[j]
<1> DEFINE row == [intent[i] EXCEPT !.pc = pc, !.seen = seen]
<1>1. intent[i] \in IntentRow
  BY DEF TypeOK
<1>2. row \in IntentRow /\ row.pc = pc /\ row.seen = seen /\ row.payment = intent[i].payment
  BY <1>1 DEF IntentRow
<1>3. intent' = [intent EXCEPT ![i] = row]
  BY DEF IntentReads
<1> HIDE DEF row
<1> QED
  BY <1>2, <1>3 DEF TypeOK

\* A job's execution moves to a step with what it read.
LEMMA RunMoves ==
  ASSUME TypeOK, NEW r \in Runs, NEW pc \in RunSteps, NEW seen \in Statuses,
         RunReads(r, pc, seen)
  PROVE  /\ run' \in [Runs -> RunRow]
         /\ run'[r].pc = pc
         /\ run'[r].seen = seen
         /\ \A q \in Runs \ {r} : run'[q] = run[q]
  BY DEF TypeOK, RunReads, RunRow

\* A request of the dashboard moves to a step.
LEMMA RequestMoves ==
  ASSUME TypeOK, NEW d \in Requests, NEW pc \in RequestSteps, RequestGoes(d, pc)
  PROVE  /\ request' \in [Requests -> RequestRow]
         /\ request'[d].pc = pc
         /\ request'[d].to = request[d].to
         /\ request'[d].seen = request[d].seen
         /\ request'[d].shipment = request[d].shipment
         /\ \A c \in Requests \ {d} : request'[c] = request[c]
  BY DEF TypeOK, RequestGoes, RequestRow

\* An event row may have been marked, which keeps what it is about.
RowsKept ==
  \A e \in Events :
    /\ event'[e].type = event[e].type
    /\ event'[e].payment = event[e].payment
    /\ event[e].status # "NONE" <=> event'[e].status # "NONE"

\* A job may have been taken or settled, but none is added.
JobsKept == \A e \in Events : job'[e].state # "none" => job[e].state # "none"

\* Marking an event's row keeps the rows typed and none is lost.
LEMMA RowMarked ==
  ASSUME TypeOK, NEW r \in Runs, NEW status \in {"PROCESSING", "PROCESSED", "FAILED"},
         Row(r).status # "NONE", SetRow(r, status)
  PROVE  event' \in [Events -> EventRow] /\ RowsKept
  BY RunsPair DEF TypeOK, SetRow, EventRow, RowsKept, Row

\* The end of an execution keeps the jobs typed and none is lost.
LEMMA JobMoves ==
  ASSUME TypeOK, NEW r \in Runs, RunSucceeds(r) \/ RunFails(r)
  PROVE  /\ job' \in [Events -> JobRow]
         /\ JobsKept
<1>1. AfterFailure(r[2]) \in {"waiting", "failed"}
  BY DEF AfterFailure
<1>2. r[1] \in Events
  BY RunsPair
<1>3. CASE IsActive(r)
  <2>1. job[r[1]].state = "active"
    BY <1>3 DEF IsActive
  <2>2. PICK state \in {"waiting", "failed", "completed"} :
          job' = [job EXCEPT ![r[1]].state = state]
    BY <1>1, <1>3 DEF RunSucceeds, RunFails
  <2> QED BY <1>2, <2>1, <2>2 DEF TypeOK, JobRow, JobsKept
<1>4. CASE ~IsActive(r)
  BY <1>4 DEF RunSucceeds, RunFails, TypeOK, JobsKept
<1> QED BY <1>3, <1>4

\* An audit row is well formed.
LEMMA AuditTyped ==
  ASSUME TypeOK, NEW by \in Writers, NEW entity \in {"PAYMENT", "ORDER"},
         NEW from \in Statuses, NEW to \in Statuses, NEW allowed \in BOOLEAN,
         Audit(by, entity, from, to, allowed)
  PROVE  audits' \subseteq AuditRow
  BY DEF TypeOK, Audit, AuditRow

\* What the write of a payment's status changes.
LEMMA PaymentWritten ==
  ASSUME TypeOK, NEW p \in Intents, NEW to \in PaymentStatus, NEW attempts \in Nat,
         WritePayment(p, to, attempts)
  PROVE  /\ payment' \in [Intents -> PaymentRow]
         /\ payment'[p].status = to
         /\ payment'[p].paid = (payment[p].paid \/ to = "APPROVED")
         /\ \A i \in Intents \ {p} : payment'[i] = payment[i]
<1>1. payment[p] \in PaymentRow
  BY DEF TypeOK
<1>2. payment'[p] = [status |-> to, paid |-> payment[p].paid \/ to = "APPROVED",
                     attempts |-> attempts]
  BY DEF TypeOK, WritePayment
<1>3. payment'[p] \in PaymentRow
  BY <1>1, <1>2 DEF PaymentRow
<1> QED
  BY <1>2, <1>3 DEF TypeOK, WritePayment

\* What the write of an order's status changes.
LEMMA OrderWritten ==
  ASSUME TypeOK, NEW seen \in OrderStatus, NEW to \in OrderStatus,
         NEW linked \in Intents \cup {NoPayment}, WriteOrder(seen, to, linked)
  PROVE  /\ order' \in [status : OrderStatus, payment : Intents \cup {NoPayment},
                        stamps : SUBSET Stamps]
         /\ order'.status = to
         /\ order'.payment = linked
         /\ order'.stamps = order.stamps \cup StampsOf(to)
         /\ restored' \in Nat
         /\ restored' >= restored
         /\ RestoresStock(seen, to) => restored' > 0
  BY DEF TypeOK, WriteOrder, StampsOf, Stamps
-------------------------------------------------------------------------------
(* Requests for a payment intent.                                          *)

\* A request that only moves on: nothing the invariant looks at changes but
\* its own record.
LEMMA IntentKeeps ==
  ASSUME IInv, NEW i \in Intents, NEW pc \in IntentSteps, NEW seen \in Statuses,
         IntentReads(i, pc, seen),
         UNCHANGED <<order, shipment, restored, payment, gateway, event, job, run, request>>,
         intent[i].pc \notin {"idle", "create", "link", "gateway"},
         pc \notin {"idle", "create", "link", "gateway"},
         pc = "writeOrder" => WindowOK(seen, "WAITING_PAYMENT")
  PROVE  RefsOK' /\ PaidOK' /\ OrderOK' /\ ShipmentOK'
<1>1. /\ TypeOK
      /\ intent'[i].pc = pc
      /\ intent'[i].seen = seen
      /\ \A j \in Intents : intent'[j].payment = intent[j].payment
      /\ \A j \in Intents \ {i} : intent'[j] = intent[j]
  BY IntentMoves DEF IInv
<1>2. RefsOK'
  BY <1>1 DEF IInv, RefsOK, ReferencesResolve, IntentAt, RunAt, Row
<1>3. PaidOK'
  BY <1>1 DEF IInv, PaidOK, RunAt, Row
<1>4. OrderOK'
  BY <1>1 DEF IInv, OrderOK, MilestoneChain, SomePaymentPaid, Backed, WindowOK,
              OrderTarget, IntentAt, RunAt, RequestAt, Row
<1>5. ShipmentOK'
  BY <1>1 DEF IInv, ShipmentOK, ShipmentBacked, RequestAt
<1> QED
  BY <1>2, <1>3, <1>4, <1>5

\* What a write of the order's status keeps: the chain, and the backing of
\* the new status and of every status some handler has read.
LEMMA OrderWriteKeeps ==
  ASSUME IInv, NEW seen, NEW to \in OrderStatus, NEW linked \in Intents \cup {NoPayment},
         WindowOK(seen, to), to = "PAYMENT_APPROVED" => SomePaymentPaid,
         WriteOrder(seen, to, linked), UNCHANGED payment
  PROVE  /\ MilestoneChain'
         /\ Backed(order.status)'
         /\ \A status \in OrderStatus : Backed(status) => Backed(status)'
         /\ \A status \in ShipmentStatus : ShipmentBacked(status) => ShipmentBacked(status)'
<1>1. TypeOK /\ OrderOK /\ seen \in OrderStatus /\ Backed(seen)
  BY DEF IInv, WindowOK
<1>2. /\ order'.status = to
      /\ order'.stamps = order.stamps \cup StampsOf(to)
      /\ restored' >= restored
      /\ restored \in Nat /\ restored' \in Nat
      /\ RestoresStock(seen, to) => restored' > 0
  BY <1>1, OrderWritten DEF TypeOK
<1>3. Backing(to) \subseteq order'.stamps
  <2>1. /\ to = "PROCESSING" => seen \in {"PAYMENT_APPROVED", "PROCESSING"}
        /\ to = "SHIPPED" => seen \in {"PROCESSING", "SHIPPED"}
        /\ to = "DELIVERED" => seen \in {"SHIPPED", "DELIVERED"}
        /\ to = "REFUNDED" => seen \in {"PAYMENT_APPROVED", "PROCESSING", "SHIPPED", "DELIVERED", "REFUNDED"}
    BY <1>1, OrderTable DEF WindowOK
  <2> QED
    BY <1>1, <1>2, <2>1 DEF Backed, Backing, StampsOf
<1>4. to \in ClosedOrderStatuses => restored' > 0
  BY <1>1, <1>2 DEF Backed, RestoresStock
<1>5. \A status \in OrderStatus : Backed(status) => Backed(status)'
  BY <1>2 DEF Backed
<1>6. \A status \in ShipmentStatus : ShipmentBacked(status) => ShipmentBacked(status)'
  BY <1>2 DEF ShipmentBacked
<1>7. MilestoneChain'
  BY <1>1, <1>2, <1>3 DEF OrderOK, MilestoneChain, SomePaymentPaid, StampsOf, Backing
<1> QED
  BY <1>2, <1>3, <1>4, <1>5, <1>6, <1>7 DEF Backed
\* Every step of an intent request keeps the invariant.
LEMMA IntentStepKeeps ==
  ASSUME IInv, NEW i \in Intents, IntentStep(i)
  PROVE  IInv'
<1> DEFINE p == intent[i].payment
<1>0. /\ TypeOK
      /\ intent[i] \in IntentRow /\ p \in Intents
      /\ intent[i].seen \in Statuses /\ intent[i].base \in Nat
      /\ order.status \in Statuses /\ payment[p].status \in PaymentStatus \cup {"NONE"}
      /\ "CREATED" \in Statuses /\ "PENDING" \in Statuses /\ "WAITING_PAYMENT" \in Statuses
      /\ "PENDING" \in PaymentStatus /\ "WAITING_PAYMENT" \in OrderStatus
      /\ <<"intent", i>> \in Writers
  BY WritersAre DEF IInv, TypeOK, IntentRow, PaymentRow, Statuses, PaymentStatus, OrderStatus
<1>p. ~IntentAt(i, "idle") /\ ~IntentAt(i, "create") => payment[p].status \in PaymentStatus /\ payment[p].status \in Statuses
  BY <1>0 DEF IInv, RefsOK, Statuses
<1>r. \A r \in Runs : Row(r).payment \in Intents
  BY <1>0, RunsPair DEF TypeOK, EventRow, Row
<1>t. /\ order.payment # NoPayment => order.payment \in Intents
      /\ \A j \in Intents : intent[j].payment \in Intents
      /\ \A e \in Events : event[e].payment \in Intents
  BY <1>0 DEF TypeOK, IntentRow, EventRow
<1> HIDE DEF p
<1>1. CASE ReadPayableOrder(i)
  <2>1. CASE order.payment = NoPayment
    <3>1. IntentReads(i, "create", "CREATED")
      BY <1>1, <2>1 DEF ReadPayableOrder, IntentGoes
    <3>2. /\ intent' \in [Intents -> IntentRow]
          /\ intent'[i].pc = "create"
          /\ \A j \in Intents : intent'[j].payment = intent[j].payment
          /\ \A j \in Intents \ {i} : intent'[j] = intent[j]
      BY <1>0, <3>1, IntentMoves DEF IntentSteps
    <3>3. TypeOK'
      BY <1>0, <1>1, <3>2 DEF ReadPayableOrder, TypeOK
    <3>4. RefsOK'
      BY <1>1, <3>2 DEF IInv, ReadPayableOrder, RefsOK, ReferencesResolve, IntentAt, RunAt, Row
    <3>5. PaidOK' /\ ShipmentOK'
      BY <1>1, <3>2 DEF IInv, ReadPayableOrder, PaidOK, RunAt, Row, ShipmentOK, ShipmentBacked, RequestAt
    <3>6. OrderOK'
      BY <1>1, <3>2 DEF IInv, ReadPayableOrder, OrderOK, MilestoneChain, SomePaymentPaid, Backed,
                        WindowOK, OrderTarget, IntentAt, RunAt, RequestAt, Row
    <3> QED
      BY <3>3, <3>4, <3>5, <3>6 DEF IInv
  <2>2. CASE order.payment # NoPayment
    <3> DEFINE row == [intent[i] EXCEPT !.pc = "gateway", !.payment = order.payment,
                                        !.base = payment[order.payment].attempts]
    <3>1. order.payment \in Intents /\ payment[order.payment].attempts \in Nat
      BY <1>0, <2>2 DEF TypeOK, PaymentRow
    <3>2. row \in IntentRow /\ row.pc = "gateway" /\ row.payment = order.payment
      BY <1>0, <3>1 DEF IntentRow, IntentSteps
    <3>3. intent' = [intent EXCEPT ![i] = row]
      BY <1>1, <2>2 DEF ReadPayableOrder
    <3> HIDE DEF row
    <3>4. /\ intent' \in [Intents -> IntentRow]
          /\ intent'[i].pc = "gateway"
          /\ intent'[i].payment = order.payment
          /\ \A j \in Intents \ {i} : intent'[j] = intent[j]
      BY <1>0, <3>2, <3>3 DEF TypeOK
    <3>5. TypeOK'
      BY <1>0, <1>1, <3>4 DEF ReadPayableOrder, TypeOK
    <3>6. RefsOK'
      BY <1>1, <2>2, <3>4 DEF IInv, ReadPayableOrder, RefsOK, ReferencesResolve, IntentAt, RunAt, Row
    <3>7. PaidOK' /\ ShipmentOK'
      BY <1>1, <3>4 DEF IInv, ReadPayableOrder, PaidOK, RunAt, Row, ShipmentOK, ShipmentBacked, RequestAt
    <3>8. OrderOK'
      BY <1>1, <3>4 DEF IInv, ReadPayableOrder, OrderOK, MilestoneChain, SomePaymentPaid, Backed,
                        WindowOK, OrderTarget, IntentAt, RunAt, RequestAt, Row
    <3> QED
      BY <3>5, <3>6, <3>7, <3>8 DEF IInv
  <2> QED
    BY <2>1, <2>2
<1>2. CASE CreatePayment(i)
  <2>1. /\ intent' \in [Intents -> IntentRow]
        /\ intent[i].pc = "create"
        /\ intent'[i].pc = "link"
        /\ \A j \in Intents : intent'[j].payment = intent[j].payment
        /\ \A j \in Intents \ {i} : intent'[j] = intent[j]
    BY <1>0, <1>2, IntentMoves DEF CreatePayment, IntentGoes, IntentAt, IntentSteps
  <2> DEFINE row == [payment[i] EXCEPT !.status = "CREATED"]
  <2>2. row \in PaymentRow /\ row.status = "CREATED" /\ row.paid = payment[i].paid
    BY <1>0 DEF TypeOK, PaymentRow, PaymentStatus
  <2>3. payment' = [payment EXCEPT ![i] = row]
    BY <1>2 DEF CreatePayment
  <2> HIDE DEF row
  <2>4. /\ payment' \in [Intents -> PaymentRow]
        /\ payment'[i].status = "CREATED"
        /\ \A j \in Intents : payment'[j].paid = payment[j].paid
        /\ \A j \in Intents \ {i} : payment'[j] = payment[j]
    BY <1>0, <2>2, <2>3 DEF TypeOK
  <2>5. UNCHANGED <<order, shipment, restored, transactions, audits, gateway,
                    event, job, run, request, notices>>
    BY <1>2 DEF CreatePayment
  <2>6. TypeOK'
    BY <1>0, <2>1, <2>4, <2>5 DEF TypeOK
  <2>7. RefsOK'
    <3>1. \A j \in Intents : payment[j].status # "NONE" => payment'[j].status # "NONE"
      BY <2>4
    <3>2. intent[i].payment = i /\ payment'[i].status # "NONE"
      BY <2>1, <2>4 DEF IInv, RefsOK
    <3> QED
      BY <1>t, <2>1, <2>5, <3>1, <3>2 DEF IInv, RefsOK, ReferencesResolve, IntentAt, RunAt, Row
  <2>8. PaidOK' /\ ShipmentOK'
    <3>1. PaidOK'
      <4>1. \A j \in Intents : payment[j].paid => payment'[j].paid
        BY <2>4
      <4>2. \A j \in Intents : /\ payment'[j].status \in {"APPROVED", "REFUNDED"} => payment'[j].paid
                               /\ payment'[j].status # "AUTHORIZED"
        BY <2>4 DEF IInv, PaidOK
      <4> QED
        BY <1>r, <2>5, <4>1, <4>2 DEF IInv, PaidOK, RunAt, Row
    <3>2. ShipmentOK'
      BY <2>5 DEF IInv, ShipmentOK, ShipmentBacked, RequestAt
    <3> QED
      BY <3>1, <3>2
  <2>9. OrderOK'
    BY <2>1, <2>4, <2>5 DEF IInv, OrderOK, MilestoneChain, SomePaymentPaid, Backed, WindowOK,
                            OrderTarget, IntentAt, RunAt, RequestAt, Row
  <2> QED
    BY <2>6, <2>7, <2>8, <2>9 DEF IInv
<1>3. CASE LinkPayment(i)
  <2>1. /\ intent' \in [Intents -> IntentRow]
        /\ intent[i].pc = "link"
        /\ intent'[i].pc = "gateway"
        /\ \A j \in Intents : intent'[j].payment = intent[j].payment
        /\ \A j \in Intents \ {i} : intent'[j] = intent[j]
    BY <1>0, <1>3, IntentMoves DEF LinkPayment, IntentGoes, IntentAt, IntentSteps
  <2>2. /\ order' \in [status : OrderStatus, payment : Intents \cup {NoPayment},
                       stamps : SUBSET Stamps]
        /\ order'.status = order.status
        /\ order'.stamps = order.stamps
        /\ order'.payment = i
    BY <1>0, <1>3 DEF LinkPayment, TypeOK
  <2>3. UNCHANGED <<shipment, restored, payment, transactions, audits, gateway,
                    event, job, run, request, notices>>
    BY <1>3 DEF LinkPayment
  <2>4. TypeOK'
    BY <1>0, <2>1, <2>2, <2>3 DEF TypeOK
  <2>5. RefsOK'
    BY <2>1, <2>2, <2>3 DEF IInv, RefsOK, ReferencesResolve, IntentAt, RunAt, Row
  <2>6. PaidOK' /\ ShipmentOK'
    BY <2>1, <2>2, <2>3 DEF IInv, PaidOK, RunAt, Row, ShipmentOK, ShipmentBacked, RequestAt
  <2>7. OrderOK'
    BY <2>1, <2>2, <2>3 DEF IInv, OrderOK, MilestoneChain, SomePaymentPaid, Backed, WindowOK,
                            OrderTarget, IntentAt, RunAt, RequestAt, Row
  <2> QED
    BY <2>4, <2>5, <2>6, <2>7 DEF IInv
<1>4. CASE OpenIntent(i)
  <2>1. /\ intent' \in [Intents -> IntentRow]
        /\ intent[i].pc = "gateway"
        /\ intent'[i].pc = "readPayment"
        /\ \A j \in Intents : intent'[j].payment = intent[j].payment
        /\ \A j \in Intents \ {i} : intent'[j] = intent[j]
    BY <1>0, <1>4, IntentMoves DEF OpenIntent, IntentGoes, IntentAt, IntentSteps
  <2>2. TypeOK'
    BY <1>0, <1>4, <2>1 DEF OpenIntent, TypeOK
  <2>3. RefsOK'
    BY <1>0, <1>4, <2>1 DEF IInv, OpenIntent, TypeOK, RefsOK, ReferencesResolve, IntentAt, RunAt, Row
  <2>4. PaidOK' /\ ShipmentOK'
    BY <1>4, <2>1 DEF IInv, OpenIntent, PaidOK, RunAt, Row, ShipmentOK, ShipmentBacked, RequestAt
  <2>5. OrderOK'
    BY <1>4, <2>1 DEF IInv, OpenIntent, OrderOK, MilestoneChain, SomePaymentPaid, Backed, WindowOK,
                      OrderTarget, IntentAt, RunAt, RequestAt, Row
  <2> QED
    BY <2>2, <2>3, <2>4, <2>5 DEF IInv
<1>5. CASE IntentReadsPayment(i)
  <2>1. payment[p].status \in Statuses /\ intent[i].pc = "readPayment"
    BY <1>p, <1>5 DEF IntentReadsPayment, IntentAt
  <2>2. UNCHANGED <<order, shipment, restored, payment, transactions, gateway,
                    event, job, run, request, notices>>
    BY <1>5 DEF IntentReadsPayment
  <2>3. CASE /\ IntentReads(i, "writePayment", payment[p].status)
             /\ UNCHANGED audits
    <3>1. TypeOK'
      BY <1>0, <2>1, <2>2, <2>3, IntentMoves DEF IntentSteps, TypeOK
    <3> QED
      BY <2>1, <2>2, <2>3, <3>1, IntentKeeps DEF IInv, IntentSteps
  <2>4. CASE /\ Audit(<<"intent", i>>, "PAYMENT", payment[p].status, "PENDING", FALSE)
             /\ IntentReads(i, "refused", "CREATED")
    <3>1. audits' \subseteq AuditRow
      BY <1>0, <2>1, <2>4, AuditTyped
    <3>2. TypeOK'
      BY <1>0, <2>2, <2>4, <3>1, IntentMoves DEF IntentSteps, TypeOK
    <3> QED
      BY <1>0, <2>1, <2>2, <2>4, <3>2, IntentKeeps DEF IInv, IntentSteps
  <2> QED
    BY <1>5, <2>3, <2>4 DEF IntentReadsPayment, IntentGoes, p
<1>6. CASE IntentWritesPayment(i)
  <2>1. /\ intent' \in [Intents -> IntentRow]
        /\ intent[i].pc = "writePayment"
        /\ intent'[i].pc = "auditPayment"
        /\ \A j \in Intents : intent'[j].payment = intent[j].payment
        /\ \A j \in Intents \ {i} : intent'[j] = intent[j]
    BY <1>0, <1>6, IntentMoves DEF IntentWritesPayment, IntentAt, IntentSteps
  <2>2. WritePayment(p, "PENDING", intent[i].base + 1) /\ intent[i].base + 1 \in Nat
    BY <1>0, <1>6 DEF IntentWritesPayment, p
  <2>3. /\ payment' \in [Intents -> PaymentRow]
        /\ payment'[p].status = "PENDING"
        /\ payment'[p].paid = payment[p].paid
        /\ \A j \in Intents \ {p} : payment'[j] = payment[j]
    <3>1. payment'[p].paid = (payment[p].paid \/ "PENDING" = "APPROVED")
      BY <1>0, <2>2, PaymentWritten
    <3>2. payment[p].paid \in BOOLEAN
      BY <1>0 DEF TypeOK, PaymentRow
    <3> QED
      BY <1>0, <2>2, <3>1, <3>2, PaymentWritten
  <2>4. UNCHANGED <<order, shipment, restored, transactions, audits, gateway,
                    event, job, run, request, notices>>
    BY <1>6 DEF IntentWritesPayment
  <2>5. TypeOK'
    BY <1>0, <2>1, <2>3, <2>4 DEF TypeOK
  <2>6. RefsOK'
    <3>1. \A j \in Intents : payment[j].status # "NONE" => payment'[j].status # "NONE"
      BY <1>0, <2>3
    <3> QED
      BY <1>t, <2>1, <2>4, <3>1 DEF IInv, RefsOK, ReferencesResolve, IntentAt, RunAt, Row
  <2>7. PaidOK'
    <3>1. \A j \in Intents : payment[j].paid => payment'[j].paid
      BY <1>0, <2>3
    <3>2. \A j \in Intents : /\ payment'[j].status \in {"APPROVED", "REFUNDED"} => payment'[j].paid
                             /\ payment'[j].status # "AUTHORIZED"
      BY <1>0, <2>3 DEF IInv, PaidOK
    <3> QED
      BY <1>r, <2>4, <3>1, <3>2 DEF IInv, PaidOK, RunAt, Row
  <2>8. ShipmentOK'
    BY <2>4 DEF IInv, ShipmentOK, ShipmentBacked, RequestAt
  <2>9. OrderOK'
    BY <1>0, <2>1, <2>3, <2>4 DEF IInv, OrderOK, MilestoneChain, SomePaymentPaid, Backed, WindowOK,
                                  OrderTarget, IntentAt, RunAt, RequestAt, Row
  <2> QED
    BY <2>5, <2>6, <2>7, <2>8, <2>9 DEF IInv
<1>7. CASE IntentAuditsPayment(i)
  <2>1. IntentReads(i, "record", "CREATED") /\ intent[i].pc = "auditPayment"
    BY <1>7 DEF IntentAuditsPayment, IntentGoes, IntentAt
  <2>2. audits' \subseteq AuditRow
    BY <1>0, <1>7, AuditTyped DEF IntentAuditsPayment
  <2>3. UNCHANGED <<order, shipment, restored, payment, transactions, gateway,
                    event, job, run, request, notices>>
    BY <1>7 DEF IntentAuditsPayment
  <2>4. TypeOK'
    BY <1>0, <2>1, <2>2, <2>3, IntentMoves DEF IntentSteps, TypeOK
  <2> QED
    BY <1>0, <2>1, <2>3, <2>4, IntentKeeps DEF IInv, IntentSteps
<1>8. CASE IntentRecords(i)
  <2>1. IntentReads(i, "readOrder", "CREATED") /\ intent[i].pc = "record"
    BY <1>8 DEF IntentRecords, IntentGoes, IntentAt
  <2>2. transactions' \subseteq TransactionRow
    BY <1>0, <1>8 DEF IntentRecords, TypeOK, TransactionRow, p
  <2>3. UNCHANGED <<order, shipment, restored, payment, audits, gateway, event,
                    job, run, request, notices>>
    BY <1>8 DEF IntentRecords
  <2>4. TypeOK'
    BY <1>0, <2>1, <2>2, <2>3, IntentMoves DEF IntentSteps, TypeOK
  <2> QED
    BY <1>0, <2>1, <2>3, <2>4, IntentKeeps DEF IInv, IntentSteps
<1>9. CASE IntentReadsOrder(i)
  <2>1. intent[i].pc = "readOrder"
    BY <1>9 DEF IntentReadsOrder, IntentAt
  <2>2. UNCHANGED <<order, shipment, restored, payment, transactions, gateway,
                    event, job, run, request, notices>>
    BY <1>9 DEF IntentReadsOrder
  <2>3. CASE /\ CanTransitionOrder(order.status, "WAITING_PAYMENT")
             /\ IntentReads(i, "writeOrder", order.status)
             /\ UNCHANGED audits
    <3>1. WindowOK(order.status, "WAITING_PAYMENT")
      BY <2>3 DEF WindowOK, IInv, TypeOK, OrderOK
    <3>2. TypeOK'
      BY <1>0, <2>2, <2>3, IntentMoves DEF IntentSteps, TypeOK
    <3> QED
      BY <1>0, <2>1, <2>2, <2>3, <3>1, <3>2, IntentKeeps DEF IInv, IntentSteps
  <2>4. CASE /\ Audit(<<"intent", i>>, "ORDER", order.status, "WAITING_PAYMENT", FALSE)
             /\ IntentReads(i, "refused", "CREATED")
    <3>1. audits' \subseteq AuditRow
      BY <1>0, <2>4, AuditTyped
    <3>2. TypeOK'
      BY <1>0, <2>2, <2>4, <3>1, IntentMoves DEF IntentSteps, TypeOK
    <3> QED
      BY <1>0, <2>1, <2>2, <2>4, <3>2, IntentKeeps DEF IInv, IntentSteps
  <2> QED
    BY <1>9, <2>3, <2>4 DEF IntentReadsOrder, IntentGoes
<1>10. CASE IntentWritesOrder(i)
  <2>1. /\ intent' \in [Intents -> IntentRow]
        /\ intent[i].pc = "writeOrder"
        /\ intent'[i].pc = "auditOrder"
        /\ \A j \in Intents : intent'[j].payment = intent[j].payment
        /\ \A j \in Intents \ {i} : intent'[j] = intent[j]
    BY <1>0, <1>10, IntentMoves DEF IntentWritesOrder, IntentAt, IntentSteps
  <2>2. /\ WriteOrder(intent[i].seen, "WAITING_PAYMENT", p)
        /\ WindowOK(intent[i].seen, "WAITING_PAYMENT")
    BY <1>10 DEF IntentWritesOrder, IInv, OrderOK, p
  <2>3. UNCHANGED <<shipment, payment, transactions, audits, gateway, event, job,
                    run, request, notices>>
    BY <1>10 DEF IntentWritesOrder
  <2>4. /\ order' \in [status : OrderStatus, payment : Intents \cup {NoPayment},
                       stamps : SUBSET Stamps]
        /\ order'.payment = p
        /\ restored' \in Nat
        /\ order.stamps \subseteq order'.stamps
    BY <1>0, <2>2, OrderWritten DEF WindowOK
  <2>5. /\ MilestoneChain'
        /\ Backed(order.status)'
        /\ \A status \in OrderStatus : Backed(status) => Backed(status)'
        /\ \A status \in ShipmentStatus : ShipmentBacked(status) => ShipmentBacked(status)'
    BY <1>0, <2>2, <2>3, OrderWriteKeeps
  <2>6. TypeOK'
    BY <1>0, <2>1, <2>3, <2>4 DEF TypeOK
  <2>7. RefsOK'
    BY <1>0, <2>1, <2>3, <2>4 DEF IInv, RefsOK, ReferencesResolve, IntentAt, RunAt, Row, p
  <2>8. PaidOK'
    BY <2>1, <2>3 DEF IInv, PaidOK, RunAt, Row
  <2>9. ShipmentOK'
    BY <1>0, <2>3, <2>4, <2>5 DEF IInv, TypeOK, RequestRow, ShipmentOK, RequestAt
  <2>10. OrderOK'
    BY <2>1, <2>3, <2>5 DEF IInv, OrderOK, WindowOK, OrderTarget, IntentAt, RunAt, RequestAt, Row
  <2> QED
    BY <2>6, <2>7, <2>8, <2>9, <2>10 DEF IInv
<1>11. CASE IntentAuditsOrder(i)
  <2>1. IntentReads(i, "replied", "CREATED") /\ intent[i].pc = "auditOrder"
    BY <1>11 DEF IntentAuditsOrder, IntentGoes, IntentAt
  <2>2. audits' \subseteq AuditRow
    BY <1>0, <1>11, AuditTyped DEF IntentAuditsOrder
  <2>3. UNCHANGED <<order, shipment, restored, payment, transactions, gateway,
                    event, job, run, request, notices>>
    BY <1>11 DEF IntentAuditsOrder
  <2>4. TypeOK'
    BY <1>0, <2>1, <2>2, <2>3, IntentMoves DEF IntentSteps, TypeOK
  <2> QED
    BY <1>0, <2>1, <2>3, <2>4, IntentKeeps DEF IInv, IntentSteps
<1> QED
  BY <1>1, <1>2, <1>3, <1>4, <1>5, <1>6, <1>7, <1>8, <1>9, <1>10, <1>11 DEF IntentStep
-------------------------------------------------------------------------------
(* The webhook jobs.                                                       *)

\* So does a step of a job that writes no order and no payment.
LEMMA RunKeeps ==
  ASSUME IInv, NEW r \in Runs, NEW pc \in RunSteps, NEW seen \in Statuses,
         RunReads(r, pc, seen),
         UNCHANGED <<order, shipment, restored, payment, gateway, intent, request>>,
         RowsKept, JobsKept,
         Row(r).status # "NONE",
         pc \in Resolved => Row(r).type \in SupportedEvents,
         pc = "writePayment" /\ Row(r).type = "refunded" => payment[Row(r).payment].paid,
         pc \in {"auditPayment", "readOrder", "writeOrder"}
           /\ Row(r).type \in {"succeeded", "refunded"} => payment[Row(r).payment].paid,
         pc = "writeOrder" => WindowOK(seen, OrderTarget(r))
  PROVE  RefsOK' /\ PaidOK' /\ OrderOK' /\ ShipmentOK'
<1>1. /\ run'[r].pc = pc
      /\ run'[r].seen = seen
      /\ \A q \in Runs \ {r} : run'[q] = run[q]
  BY RunMoves DEF IInv
<1>2. \A q \in Runs : /\ Row(q)'.type = Row(q).type
                      /\ Row(q)'.payment = Row(q).payment
                      /\ Row(q).status # "NONE" => Row(q)'.status # "NONE"
  BY RunsPair DEF RowsKept, Row
<1>3. RefsOK'
  <2>1. ReferencesResolve'
    BY DEF IInv, RefsOK, ReferencesResolve, RowsKept
  <2>2. \A q \in Runs : /\ ~RunAt(q, "idle")' => Row(q)'.status # "NONE"
                        /\ run'[q].pc \in Resolved => Row(q)'.type \in SupportedEvents
    BY <1>1, <1>2 DEF IInv, RefsOK, RunAt
  <2>3. \A e \in Events : job'[e].state # "none" => event'[e].status # "NONE"
    BY DEF IInv, RefsOK, RowsKept, JobsKept
  <2> QED
    BY <2>1, <2>2, <2>3 DEF IInv, RefsOK, IntentAt
<1>4. PaidOK'
  BY <1>1, <1>2 DEF IInv, PaidOK, RunAt
<1>5. OrderOK'
  <2>1. \A q \in Runs : RunAt(q, "writeOrder")' => WindowOK(run[q].seen, OrderTarget(q))'
    <3>1. \A q \in Runs : OrderTarget(q)' = OrderTarget(q)
      BY <1>2 DEF OrderTarget
    <3>2. \A q \in Runs : RunAt(q, "writeOrder")' => WindowOK(run'[q].seen, OrderTarget(q))
      BY <1>1 DEF IInv, OrderOK, RunAt
    <3> QED
      BY <3>1, <3>2 DEF WindowOK, Backed
  <2> QED
    BY <2>1 DEF IInv, OrderOK, MilestoneChain, SomePaymentPaid, Backed, WindowOK,
                IntentAt, RequestAt
<1>6. ShipmentOK'
  BY DEF IInv, ShipmentOK, ShipmentBacked, RequestAt
<1> QED
  BY <1>3, <1>4, <1>5, <1>6
\* What the invariant says of an execution that has started.
LEMMA RunFacts ==
  ASSUME IInv, NEW r \in Runs
  PROVE  /\ TypeOK
         /\ "CREATED" \in Statuses /\ run[r].seen \in Statuses /\ order.status \in Statuses
         /\ <<"webhook", r>> \in Writers
         /\ Row(r).payment \in Intents
         /\ ~RunAt(r, "idle") => Row(r).status # "NONE"
         /\ ~RunAt(r, "idle") => payment[Row(r).payment].status \in PaymentStatus
         /\ run[r].pc \in Resolved =>
              /\ Row(r).type \in SupportedEvents
              /\ PaymentTarget(r) \in PaymentStatus /\ PaymentTarget(r) \in Statuses
              /\ OrderTarget(r) \in OrderStatus /\ OrderTarget(r) \in Statuses
<1>1. /\ TypeOK
      /\ "CREATED" \in Statuses /\ run[r].seen \in Statuses /\ order.status \in Statuses
      /\ <<"webhook", r>> \in Writers
      /\ Row(r).payment \in Intents
  BY RunsPair, WritersAre DEF IInv, TypeOK, RunRow, EventRow, Row, Statuses, OrderStatus
<1>2. ~RunAt(r, "idle") => Row(r).status # "NONE"
  BY DEF IInv, RefsOK
<1>3. ~RunAt(r, "idle") => payment[Row(r).payment].status \in PaymentStatus
  BY <1>1, <1>2, RunsPair DEF IInv, TypeOK, PaymentRow, RefsOK, ReferencesResolve, Row
<1>4. run[r].pc \in Resolved =>
        /\ Row(r).type \in SupportedEvents
        /\ PaymentTarget(r) \in PaymentStatus /\ PaymentTarget(r) \in Statuses
        /\ OrderTarget(r) \in OrderStatus /\ OrderTarget(r) \in Statuses
  BY Targets DEF IInv, RefsOK, PaymentTarget, OrderTarget, Statuses
<1> QED
  BY <1>1, <1>2, <1>3, <1>4

\* And every other step of a webhook job.
LEMMA RunStepKeeps ==
  ASSUME IInv, NEW r \in Runs, RunStep(r) \/ TimeOut(r) \/ StatementFails(r)
  PROVE  IInv'
<1> DEFINE p == Row(r).payment
<1>0. /\ TypeOK
      /\ "CREATED" \in Statuses /\ run[r].seen \in Statuses /\ order.status \in Statuses
      /\ <<"webhook", r>> \in Writers
      /\ p \in Intents
      /\ ~RunAt(r, "idle") => Row(r).status # "NONE"
      /\ ~RunAt(r, "idle") => payment[p].status \in PaymentStatus /\ payment[p].status \in Statuses
      /\ run[r].pc \in Resolved =>
           /\ Row(r).type \in SupportedEvents
           /\ PaymentTarget(r) \in PaymentStatus /\ PaymentTarget(r) \in Statuses
           /\ OrderTarget(r) \in OrderStatus /\ OrderTarget(r) \in Statuses
  BY RunFacts DEF Statuses
<1>1. CASE StartAttempt(r)
  <2>1. RunReads(r, "load", "CREATED") /\ UNCHANGED <<order, shipment, restored, payment,
          transactions, audits, gateway, event, intent, request, notices>>
    BY <1>1 DEF StartAttempt, RunGoes
  <2>2. job[r[1]].state = "waiting"
    BY <1>1 DEF StartAttempt
  <2>3. Row(r).status # "NONE"
    BY <2>2, RunsPair DEF IInv, RefsOK, Row
  <2>4. job' \in [Events -> JobRow] /\ JobsKept
    BY <1>0, <1>1, <2>2, RunsPair DEF StartAttempt, TypeOK, JobRow, Attempts, JobsKept
  <2>5. TypeOK'
    BY <1>0, <2>1, <2>4, RunMoves DEF TypeOK, RunSteps
  <2> QED
    BY <1>0, <2>1, <2>3, <2>4, <2>5, RunKeeps DEF IInv, RunSteps, Resolved, RowsKept
<1>2. CASE LoadEvent(r)
  <2>1. /\ run[r].pc = "load"
        /\ UNCHANGED <<order, shipment, restored, payment, transactions, audits,
                       gateway, event, intent, request, notices>>
    BY <1>2 DEF LoadEvent, RunAt
  <2>2. PICK pc \in {"done", "mark"} : RunReads(r, pc, "CREATED")
    BY <1>2 DEF LoadEvent, RunGoes
  <2>3. job' \in [Events -> JobRow] /\ JobsKept
    BY <1>0, <1>2, JobMoves DEF LoadEvent, TypeOK, JobsKept
  <2>4. TypeOK'
    BY <1>0, <2>1, <2>2, <2>3, RunMoves DEF TypeOK, RunSteps
  <2> QED
    BY <1>0, <2>1, <2>2, <2>3, <2>4, RunKeeps DEF IInv, RunAt, RunSteps, Resolved, RowsKept
<1>3. CASE MarkProcessing(r)
  <2>1. /\ run[r].pc = "mark"
        /\ UNCHANGED <<order, shipment, restored, payment, transactions, audits,
                       gateway, job, intent, request, notices>>
    BY <1>3 DEF MarkProcessing, RunAt
  <2>2. PICK pc \in {"lookup", "catch"} :
          /\ RunReads(r, pc, "CREATED")
          /\ pc = "lookup" => Row(r).type \in SupportedEvents
    BY <1>3 DEF MarkProcessing, RunGoes
  <2>3. event' \in [Events -> EventRow] /\ RowsKept
    BY <1>0, <1>3, <2>1, RowMarked DEF MarkProcessing, RunAt
  <2>4. TypeOK'
    BY <1>0, <2>1, <2>2, <2>3, RunMoves DEF TypeOK, RunSteps
  <2> QED
    BY <1>0, <2>1, <2>2, <2>3, <2>4, RunKeeps DEF IInv, RunAt, RunSteps, Resolved, JobsKept
<1>4. CASE LookupTransaction(r)
  <2>1. /\ run[r].pc = "lookup"
        /\ UNCHANGED <<order, shipment, restored, payment, transactions, audits,
                       gateway, event, job, intent, request, notices>>
    BY <1>4 DEF LookupTransaction, RunAt
  <2>2. PICK pc \in {"skip", "readPayment"} : RunReads(r, pc, "CREATED")
    BY <1>4 DEF LookupTransaction, RunGoes
  <2>3. TypeOK'
    BY <1>0, <2>1, <2>2, RunMoves DEF TypeOK, RunSteps
  <2> QED
    BY <1>0, <2>1, <2>2, <2>3, RunKeeps DEF IInv, RunAt, RunSteps, Resolved, RowsKept, JobsKept
<1>5. CASE RunReadsPayment(r)
  <2>1. /\ run[r].pc = "readPayment"
        /\ UNCHANGED <<order, shipment, restored, payment, transactions, gateway,
                       event, job, intent, request, notices>>
    BY <1>5 DEF RunReadsPayment, RunAt
  <2>2. CASE /\ CanTransitionPayment(payment[p].status, PaymentTarget(r))
             /\ RunReads(r, "writePayment", payment[p].status)
             /\ UNCHANGED audits
    <3>1. Row(r).type = "refunded" => payment[p].paid
      <4>1. SUFFICES ASSUME Row(r).type = "refunded" PROVE payment[p].paid
        OBVIOUS
      <4>2. PaymentTarget(r) = "REFUNDED"
        BY <4>1 DEF PaymentTarget, WebhookPaymentStatus
      <4>3. payment[p].status \in {"AUTHORIZED", "APPROVED", "REFUNDED"}
        BY <1>0, <2>1, <2>2, <4>2, RefundTable DEF RunAt
      <4> QED
        BY <1>0, <4>3 DEF IInv, PaidOK
    <3>2. TypeOK'
      BY <1>0, <2>1, <2>2, RunMoves DEF TypeOK, RunSteps, RunAt
    <3> QED
      BY <1>0, <2>1, <2>2, <3>1, <3>2, RunKeeps DEF IInv, RunAt, RunSteps, Resolved, RowsKept, JobsKept
  <2>3. CASE /\ Audit(<<"webhook", r>>, "PAYMENT", payment[p].status, PaymentTarget(r), FALSE)
             /\ RunReads(r, "catch", "CREATED")
    <3>1. audits' \subseteq AuditRow
      BY <1>0, <2>1, <2>3, AuditTyped DEF RunAt, Resolved
    <3>2. TypeOK'
      BY <1>0, <2>1, <2>3, <3>1, RunMoves DEF TypeOK, RunSteps
    <3> QED
      BY <1>0, <2>1, <2>3, <3>2, RunKeeps DEF IInv, RunAt, RunSteps, Resolved, RowsKept, JobsKept
  <2> QED
    BY <1>5, <2>2, <2>3 DEF RunReadsPayment, RunGoes
<1>6. CASE RunWritesPayment(r)
  <2>1. /\ run[r].pc = "writePayment" /\ RunReads(r, "auditPayment", run[r].seen)
        /\ UNCHANGED <<order, shipment, restored, transactions, audits, gateway,
                       event, job, intent, request, notices>>
    BY <1>6 DEF RunWritesPayment, RunAt
  <2>2. WritePayment(p, PaymentTarget(r), payment[p].attempts) /\ payment[p].attempts \in Nat
    BY <1>0, <1>6 DEF RunWritesPayment, TypeOK, PaymentRow
  <2>3. /\ PaymentTarget(r) \in PaymentStatus
        /\ PaymentTarget(r) # "AUTHORIZED"
        /\ PaymentTarget(r) = "REFUNDED" => payment[p].paid
        /\ Row(r).type = "succeeded" => PaymentTarget(r) = "APPROVED"
        /\ Row(r).type = "refunded" => payment[p].paid
    BY <1>0, <2>1, Targets DEF IInv, PaidOK, RunAt, Resolved, PaymentTarget
  <2>4. /\ payment' \in [Intents -> PaymentRow]
        /\ payment'[p].status = PaymentTarget(r)
        /\ payment'[p].paid = (payment[p].paid \/ PaymentTarget(r) = "APPROVED")
        /\ \A i \in Intents \ {p} : payment'[i] = payment[i]
    BY <1>0, <2>2, <2>3, PaymentWritten
  <2>5. /\ run' \in [Runs -> RunRow]
        /\ run'[r].pc = "auditPayment"
        /\ \A q \in Runs \ {r} : run'[q] = run[q]
    BY <1>0, <2>1, RunMoves DEF RunSteps
  <2>6. /\ \A i \in Intents : payment[i].paid => payment'[i].paid
        /\ \A i \in Intents : payment[i].status # "NONE" => payment'[i].status # "NONE"
    BY <1>0, <2>3, <2>4 DEF PaymentStatus
  <2>7. TypeOK'
    BY <1>0, <2>1, <2>4, <2>5 DEF TypeOK
  <2>8. RefsOK'
    <3>1. /\ order.payment # NoPayment => order.payment \in Intents
          /\ \A j \in Intents : intent[j].payment \in Intents
          /\ \A e \in Events : event[e].payment \in Intents
      BY <1>0 DEF TypeOK, IntentRow, EventRow
    <3> QED
      BY <1>0, <2>1, <2>5, <2>6, <3>1 DEF IInv, RefsOK, ReferencesResolve, IntentAt, RunAt, Row, Resolved
  <2>9. PaidOK'
    <3>1. \A i \in Intents : /\ payment'[i].status \in {"APPROVED", "REFUNDED"} => payment'[i].paid
                             /\ payment'[i].status # "AUTHORIZED"
      BY <1>0, <2>3, <2>4 DEF IInv, PaidOK
    <3>2. Row(r).type \in {"succeeded", "refunded"} => payment'[p].paid
      BY <2>3, <2>4
    <3>3. \A q \in Runs : Row(q).payment \in Intents
      BY <1>0, RunsPair DEF TypeOK, EventRow, Row
    <3>4. \A q \in Runs : /\ RunAt(q, "writePayment")' /\ Row(q).type = "refunded" =>
                               payment'[Row(q).payment].paid
                          /\ run'[q].pc \in {"auditPayment", "readOrder", "writeOrder"}
                               /\ Row(q).type \in {"succeeded", "refunded"} =>
                               payment'[Row(q).payment].paid
      BY <2>5, <2>6, <3>2, <3>3 DEF IInv, PaidOK, RunAt
    <3> QED
      BY <2>1, <3>1, <3>4 DEF PaidOK, Row
  <2>10. ShipmentOK'
    BY <2>1 DEF IInv, ShipmentOK, ShipmentBacked, RequestAt
  <2>11. OrderOK'
    BY <2>1, <2>5, <2>6 DEF IInv, OrderOK, MilestoneChain, SomePaymentPaid, Backed, WindowOK,
                            OrderTarget, IntentAt, RunAt, RequestAt, Row
  <2> QED
    BY <2>7, <2>8, <2>9, <2>10, <2>11 DEF IInv
<1>7. CASE RunAuditsPayment(r)
  <2>1. /\ run[r].pc = "auditPayment" /\ RunReads(r, "readOrder", "CREATED")
        /\ UNCHANGED <<order, shipment, restored, payment, gateway, intent, request,
                       event, job, transactions, notices>>
    BY <1>7 DEF RunAuditsPayment, RunGoes, RunAt
  <2>2. audits' \subseteq AuditRow
    BY <1>0, <1>7, <2>1, AuditTyped DEF RunAuditsPayment, Resolved
  <2>3. TypeOK'
    BY <1>0, <2>1, <2>2, RunMoves DEF TypeOK, RunSteps
  <2> QED
    BY <1>0, <2>1, <2>2, <2>3, RunKeeps DEF IInv, RunAt, RunSteps, Resolved, RowsKept, JobsKept, PaidOK
<1>8. CASE RunReadsOrder(r)
  <2>1. /\ run[r].pc = "readOrder"
        /\ UNCHANGED <<order, shipment, restored, payment, transactions, gateway,
                       event, job, intent, request, notices>>
    BY <1>8 DEF RunReadsOrder, RunAt
  <2>2. CASE /\ CanTransitionOrder(order.status, OrderTarget(r))
             /\ RunReads(r, "writeOrder", order.status)
             /\ UNCHANGED audits
    <3>1. WindowOK(order.status, OrderTarget(r))
      BY <2>2 DEF WindowOK, IInv, TypeOK, OrderOK
    <3>2. TypeOK'
      BY <1>0, <2>1, <2>2, RunMoves DEF TypeOK, RunSteps
    <3> QED
      BY <1>0, <2>1, <2>2, <3>1, <3>2, RunKeeps DEF IInv, PaidOK, RunAt, RunSteps, Resolved, RowsKept, JobsKept
  <2>3. CASE /\ Audit(<<"webhook", r>>, "ORDER", order.status, OrderTarget(r), FALSE)
             /\ RunReads(r, "catch", "CREATED")
    <3>1. audits' \subseteq AuditRow
      BY <1>0, <2>1, <2>3, AuditTyped DEF Resolved
    <3>2. TypeOK'
      BY <1>0, <2>1, <2>3, <3>1, RunMoves DEF TypeOK, RunSteps
    <3> QED
      BY <1>0, <2>1, <2>3, <3>2, RunKeeps DEF IInv, RunAt, RunSteps, Resolved, RowsKept, JobsKept
  <2> QED
    BY <1>8, <2>2, <2>3 DEF RunReadsOrder, RunGoes
<1>9. CASE RunWritesOrder(r)
  <2>1. /\ run[r].pc = "writeOrder" /\ RunReads(r, "auditOrder", run[r].seen)
        /\ UNCHANGED <<shipment, payment, transactions, audits, gateway, event,
                       job, intent, request, notices>>
    BY <1>9 DEF RunWritesOrder, RunAt
  <2>2. /\ WriteOrder(run[r].seen, OrderTarget(r), order.payment)
        /\ WindowOK(run[r].seen, OrderTarget(r))
        /\ OrderTarget(r) \in OrderStatus
        /\ order.payment \in Intents \cup {NoPayment}
    BY <1>0, <1>9 DEF RunWritesOrder, IInv, OrderOK, TypeOK, RunAt, Resolved
  <2>3. OrderTarget(r) = "PAYMENT_APPROVED" => SomePaymentPaid
    BY <1>0, <2>1, Targets DEF IInv, PaidOK, SomePaymentPaid, OrderTarget, Resolved
  <2>4. /\ order' \in [status : OrderStatus, payment : Intents \cup {NoPayment},
                       stamps : SUBSET Stamps]
        /\ order'.payment = order.payment
        /\ restored' \in Nat
        /\ order.stamps \subseteq order'.stamps
    BY <1>0, <2>2, OrderWritten DEF WindowOK
  <2>5. /\ MilestoneChain'
        /\ Backed(order.status)'
        /\ \A status \in OrderStatus : Backed(status) => Backed(status)'
        /\ \A status \in ShipmentStatus : ShipmentBacked(status) => ShipmentBacked(status)'
    BY <2>1, <2>2, <2>3, OrderWriteKeeps
  <2>6. /\ run' \in [Runs -> RunRow]
        /\ run'[r].pc = "auditOrder"
        /\ \A q \in Runs \ {r} : run'[q] = run[q]
    BY <1>0, <2>1, RunMoves DEF RunSteps
  <2>7. TypeOK'
    BY <1>0, <2>1, <2>4, <2>6 DEF TypeOK
  <2>8. RefsOK'
    BY <1>0, <2>1, <2>4, <2>6 DEF IInv, RefsOK, ReferencesResolve, IntentAt, RunAt, Row, Resolved
  <2>9. PaidOK'
    BY <2>1, <2>6 DEF IInv, PaidOK, RunAt, Row
  <2>10. ShipmentOK'
    BY <1>0, <2>1, <2>4, <2>5 DEF IInv, TypeOK, RequestRow, ShipmentOK, RequestAt
  <2>11. OrderOK'
    BY <2>1, <2>5, <2>6 DEF IInv, OrderOK, WindowOK, OrderTarget, IntentAt, RunAt, RequestAt, Row
  <2> QED
    BY <2>7, <2>8, <2>9, <2>10, <2>11 DEF IInv
<1>10. CASE RunAuditsOrder(r)
  <2>1. /\ run[r].pc = "auditOrder" /\ RunReads(r, "record", "CREATED")
        /\ UNCHANGED <<order, shipment, restored, payment, gateway, intent, request,
                       event, job, transactions, notices>>
    BY <1>10 DEF RunAuditsOrder, RunGoes, RunAt
  <2>2. audits' \subseteq AuditRow
    BY <1>0, <1>10, <2>1, AuditTyped DEF RunAuditsOrder, Resolved
  <2>3. TypeOK'
    BY <1>0, <2>1, <2>2, RunMoves DEF TypeOK, RunSteps
  <2> QED
    BY <1>0, <2>1, <2>2, <2>3, RunKeeps DEF IInv, RunAt, RunSteps, Resolved, RowsKept, JobsKept
<1>11. CASE RunRecords(r)
  <2>1. /\ run[r].pc = "record" /\ RunReads(r, "finish", "CREATED")
        /\ UNCHANGED <<order, shipment, restored, payment, gateway, intent, request,
                       event, job, audits, notices>>
    BY <1>11 DEF RunRecords, RunGoes, RunAt
  <2>2. transactions' \subseteq TransactionRow
    BY <1>0, <1>11 DEF RunRecords, TypeOK, TransactionRow
  <2>3. TypeOK'
    BY <1>0, <2>1, <2>2, RunMoves DEF TypeOK, RunSteps
  <2> QED
    BY <1>0, <2>1, <2>2, <2>3, RunKeeps DEF IInv, RunAt, RunSteps, Resolved, RowsKept, JobsKept
<1>12. CASE MarkProcessed(r)
  <2>1. /\ run[r].pc = "finish"
        /\ UNCHANGED <<order, shipment, restored, payment, transactions, audits,
                       gateway, intent, request, notices>>
    BY <1>12 DEF MarkProcessed, RunAt
  <2>2. PICK pc \in {"notify", "done"} : RunReads(r, pc, "CREATED")
    BY <1>12 DEF MarkProcessed, RunGoes
  <2>3. event' \in [Events -> EventRow] /\ RowsKept
    BY <1>0, <1>12, <2>1, RowMarked DEF MarkProcessed, RunAt
  <2>4. job' \in [Events -> JobRow] /\ JobsKept
    BY <1>0, <1>12, JobMoves DEF MarkProcessed, TypeOK, JobsKept
  <2>5. TypeOK'
    BY <1>0, <2>1, <2>2, <2>3, <2>4, RunMoves DEF TypeOK, RunSteps
  <2> QED
    BY <1>0, <2>1, <2>2, <2>3, <2>4, <2>5, RunKeeps DEF IInv, RunAt, RunSteps, Resolved
<1>13. CASE Notify(r)
  <2>1. /\ run[r].pc = "notify" /\ RunReads(r, "done", "CREATED")
        /\ UNCHANGED <<order, shipment, restored, payment, gateway, intent, request,
                       event, audits, transactions>>
    BY <1>13 DEF Notify, RunGoes, RunAt
  <2>2. job' \in [Events -> JobRow] /\ JobsKept
    BY <1>0, <1>13, JobMoves DEF Notify
  <2>3. notices' \subseteq Runs
    BY <1>0, <1>13 DEF Notify, TypeOK
  <2>4. TypeOK'
    BY <1>0, <2>1, <2>2, <2>3, RunMoves DEF TypeOK, RunSteps
  <2> QED
    BY <1>0, <2>1, <2>2, <2>3, <2>4, RunKeeps DEF IInv, RunAt, RunSteps, Resolved, RowsKept
<1>14. CASE SkipRecorded(r)
  <2>1. /\ run[r].pc = "skip" /\ RunReads(r, "done", "CREATED")
        /\ UNCHANGED <<order, shipment, restored, payment, gateway, intent, request,
                       audits, transactions, notices>>
    BY <1>14 DEF SkipRecorded, RunGoes, RunAt
  <2>2. event' \in [Events -> EventRow] /\ RowsKept
    BY <1>0, <1>14, <2>1, RowMarked DEF SkipRecorded, RunAt
  <2>3. job' \in [Events -> JobRow] /\ JobsKept
    BY <1>0, <1>14, JobMoves DEF SkipRecorded
  <2>4. TypeOK'
    BY <1>0, <2>1, <2>2, <2>3, RunMoves DEF TypeOK, RunSteps
  <2> QED
    BY <1>0, <2>1, <2>2, <2>3, <2>4, RunKeeps DEF IInv, RunAt, RunSteps, Resolved
<1>15. CASE MarkFailed(r)
  <2>1. /\ run[r].pc = "catch" /\ RunReads(r, "done", "CREATED")
        /\ UNCHANGED <<order, shipment, restored, payment, gateway, intent, request,
                       audits, transactions, notices>>
    BY <1>15 DEF MarkFailed, RunGoes, RunAt
  <2>2. event' \in [Events -> EventRow] /\ RowsKept
    BY <1>0, <1>15, <2>1, RowMarked DEF MarkFailed, RunAt
  <2>3. job' \in [Events -> JobRow] /\ JobsKept
    BY <1>0, <1>15, JobMoves DEF MarkFailed
  <2>4. TypeOK'
    BY <1>0, <2>1, <2>2, <2>3, RunMoves DEF TypeOK, RunSteps
  <2> QED
    BY <1>0, <2>1, <2>2, <2>3, <2>4, RunKeeps DEF IInv, RunAt, RunSteps, Resolved
<1>16. CASE TimeOut(r)
  <2>1. /\ job' \in [Events -> JobRow] /\ JobsKept
        /\ UNCHANGED <<order, shipment, restored, payment, transactions, audits,
                       gateway, event, run, intent, request, notices>>
    BY <1>0, <1>16, JobMoves DEF TimeOut
  <2>2. TypeOK'
    BY <1>0, <2>1 DEF TypeOK
  <2>3. RefsOK'
    BY <2>1 DEF IInv, JobsKept, RefsOK, ReferencesResolve, IntentAt, RunAt, Row
  <2>4. PaidOK' /\ ShipmentOK'
    BY <2>1 DEF IInv, PaidOK, RunAt, Row, ShipmentOK, ShipmentBacked, RequestAt
  <2>5. OrderOK'
    BY <2>1 DEF IInv, OrderOK, MilestoneChain, SomePaymentPaid, Backed, WindowOK,
                OrderTarget, IntentAt, RunAt, RequestAt, Row
  <2> QED
    BY <2>2, <2>3, <2>4, <2>5 DEF IInv
<1>17. CASE StatementFails(r)
  <2>1. /\ run[r].pc # "idle"
        /\ UNCHANGED <<order, shipment, restored, payment, transactions, audits,
                       gateway, event, intent, request, notices>>
    BY <1>17 DEF StatementFails, RunAt
  <2>2. PICK pc \in {"catch", "done"} : RunReads(r, pc, "CREATED")
    BY <1>17 DEF StatementFails, RunGoes
  <2>3. job' \in [Events -> JobRow] /\ JobsKept
    BY <1>0, <1>17, JobMoves DEF StatementFails, TypeOK, JobsKept
  <2>4. TypeOK'
    BY <1>0, <2>1, <2>2, <2>3, RunMoves DEF TypeOK, RunSteps
  <2> QED
    BY <1>0, <2>1, <2>2, <2>3, <2>4, RunKeeps DEF IInv, RunAt, RunSteps, Resolved, RowsKept
<1> QED
  BY <1>1, <1>2, <1>3, <1>4, <1>5, <1>6, <1>7, <1>8, <1>9, <1>10, <1>11, <1>12, <1>13, <1>14, <1>15, <1>16, <1>17 DEF RunStep
-------------------------------------------------------------------------------
(* The gateway, the dashboard, and the theorems.                           *)

\* An event that arrives was sent for what the gateway has done.
LEMMA EventArrivesKeeps ==
  ASSUME IInv, NEW e \in Events, NEW i \in Intents, NEW type \in EventTypes,
         EventArrives(e, i, type)
  PROVE  IInv'
<1> DEFINE row == [status |-> "RECEIVED", type |-> type, payment |-> intent[i].payment]
<1>1. /\ TypeOK
      /\ event[e].status = "NONE"
      /\ gateway[i] # "none"
      /\ intent[i].payment \in Intents
      /\ UNCHANGED <<order, shipment, restored, payment, transactions, audits,
                     run, intent, request, notices>>
  BY DEF EventArrives, CanHappen, IInv, TypeOK, IntentRow
<1>2. row \in EventRow /\ row.status # "NONE" /\ row.payment = intent[i].payment
  BY <1>1 DEF EventRow
<1>3. event' = [event EXCEPT ![e] = row]
  BY DEF EventArrives
<1> HIDE DEF row
<1>4. /\ event' \in [Events -> EventRow]
      /\ event'[e] = row
      /\ \A x \in Events \ {e} : event'[x] = event[x]
  BY <1>1, <1>2, <1>3 DEF TypeOK
<1>5. gateway' = [gateway EXCEPT ![i] = GatewayAfter(gateway[i], type)]
  BY DEF EventArrives
<1>6. GatewayAfter(gateway[i], type) \in {"open", "succeeded", "canceled", "refunded"}
  BY <1>1 DEF GatewayAfter, TypeOK
<1>7. /\ gateway' \in [Intents -> {"none", "open", "succeeded", "canceled", "refunded"}]
      /\ \A j \in Intents : gateway'[j] # "none" => gateway[j] # "none"
  BY <1>1, <1>5, <1>6 DEF TypeOK
<1>8. /\ job' \in [Events -> JobRow]
      /\ \A x \in Events \ {e} : job'[x] = job[x]
  BY <1>1 DEF EventArrives, TypeOK, JobRow
<1>9. \A r \in Runs : ~RunAt(r, "idle") => Row(r)' = Row(r)
  BY <1>1, <1>4, RunsPair DEF IInv, RefsOK, RunAt, Row
<1>10. TypeOK'
  BY <1>1, <1>4, <1>7, <1>8 DEF TypeOK
<1>11. RefsOK'
  <2>1. ReferencesResolve'
    BY <1>1, <1>2, <1>4, <1>7 DEF IInv, RefsOK, ReferencesResolve
  <2>2. \A x \in Events : job'[x].state # "none" => event'[x].status # "NONE"
    BY <1>2, <1>4, <1>8 DEF IInv, RefsOK
  <2>3. \A r \in Runs :
          /\ ~RunAt(r, "idle")' => Row(r)'.status # "NONE"
          /\ run'[r].pc \in Resolved => Row(r)'.type \in SupportedEvents
    BY <1>1, <1>9 DEF IInv, RefsOK, RunAt, Resolved
  <2> QED
    BY <1>1, <1>7, <2>1, <2>2, <2>3 DEF IInv, RefsOK, IntentAt
<1>12. PaidOK'
  BY <1>1, <1>9 DEF IInv, PaidOK, RunAt
<1>13. ShipmentOK'
  BY <1>1 DEF IInv, ShipmentOK, ShipmentBacked, RequestAt
<1>14. OrderOK'
  <2>1. \A r \in Runs : RunAt(r, "writeOrder")' => WindowOK(run[r].seen, OrderTarget(r))'
    <3>1. \A r \in Runs : RunAt(r, "writeOrder") => OrderTarget(r)' = OrderTarget(r)
      BY <1>9 DEF OrderTarget, RunAt
    <3> QED
      BY <1>1, <3>1 DEF IInv, OrderOK, WindowOK, Backed, RunAt
  <2> QED
    BY <1>1, <2>1 DEF IInv, OrderOK, MilestoneChain, SomePaymentPaid, Backed, WindowOK,
                      IntentAt, RequestAt
<1> QED
  BY <1>10, <1>11, <1>12, <1>13, <1>14 DEF IInv

\* What a step of the dashboard leaves to itself.
LEMMA DashboardKeeps ==
  ASSUME IInv, UNCHANGED <<payment, gateway, event, job, run, intent>>,
         order'.payment = order.payment
  PROVE  RefsOK' /\ PaidOK'
  BY DEF IInv, RefsOK, ReferencesResolve, PaidOK, IntentAt, RunAt, Row

\* Every step of a request of the dashboard keeps the invariant.
LEMMA RequestStepKeeps ==
  ASSUME IInv, NEW d \in Requests, RequestStep(d)
  PROVE  IInv'
<1>0. /\ TypeOK
      /\ request[d] \in RequestRow
      /\ request[d].to \in OrderStatus /\ request[d].to \in Statuses
      /\ request[d].seen \in OrderStatus /\ request[d].seen \in Statuses
      /\ request[d].shipment \in ShipmentStatus
      /\ order.status \in OrderStatus /\ order.status \in Statuses
      /\ order.payment \in Intents \cup {NoPayment}
      /\ OperationalOrderStatuses \subseteq OrderStatus
      /\ OperationalOrderStatuses \subseteq Statuses
      /\ <<"dashboard", d>> \in Writers
  BY WritersAre DEF IInv, TypeOK, RequestRow, Statuses, OperationalOrderStatuses, OrderStatus
<1>1. ASSUME NEW to \in OperationalOrderStatuses, ReadManagedOrder(d, to)
      PROVE  IInv'
  <2>1. UNCHANGED <<order, shipment, restored, payment, transactions, gateway,
                    event, job, run, intent, notices>>
    BY <1>1 DEF ReadManagedOrder
  <2>2. RefsOK' /\ PaidOK'
    BY <2>1, DashboardKeeps
  <2>3. CASE CanTransitionOrder(order.status, to)
    <3> DEFINE row == [pc |-> "writeOrder", to |-> to, seen |-> order.status,
                       shipment |-> shipment]
    <3>1. /\ row \in RequestRow /\ row.pc = "writeOrder" /\ row.to = to
          /\ row.seen = order.status /\ row.shipment = shipment
      BY <1>0 DEF RequestRow, RequestSteps, TypeOK
    <3>2. request' = [request EXCEPT ![d] = row] /\ UNCHANGED audits
      BY <1>1, <2>3 DEF ReadManagedOrder
    <3> HIDE DEF row
    <3>3. /\ request' \in [Requests -> RequestRow]
          /\ request'[d] = row
          /\ \A c \in Requests \ {d} : request'[c] = request[c]
      BY <1>0, <3>1, <3>2 DEF TypeOK
    <3>4. WindowOK(order.status, to)
      BY <1>0, <2>3 DEF WindowOK, IInv, OrderOK
    <3>5. TypeOK'
      BY <1>0, <2>1, <3>2, <3>3 DEF TypeOK
    <3>6. ShipmentOK'
      BY <2>1, <3>1, <3>3 DEF IInv, ShipmentOK, ShipmentBacked, RequestAt
    <3>7. OrderOK'
      BY <2>1, <3>1, <3>3, <3>4 DEF IInv, OrderOK, MilestoneChain, SomePaymentPaid, Backed,
         WindowOK, OrderTarget, IntentAt, RunAt, RequestAt, Row
    <3> QED
      BY <2>2, <3>5, <3>6, <3>7 DEF IInv
  <2>4. CASE ~CanTransitionOrder(order.status, to)
    <3>1. Audit(<<"dashboard", d>>, "ORDER", order.status, to, FALSE) /\ RequestGoes(d, "done")
      BY <1>1, <2>4 DEF ReadManagedOrder
    <3>2. audits' \subseteq AuditRow
      BY <1>0, <3>1, AuditTyped
    <3>3. /\ request' \in [Requests -> RequestRow]
          /\ request'[d].pc = "done"
          /\ \A c \in Requests \ {d} : request'[c] = request[c]
      BY <1>0, <3>1, RequestMoves DEF RequestSteps
    <3>4. TypeOK'
      BY <1>0, <2>1, <3>2, <3>3 DEF TypeOK
    <3>5. ShipmentOK'
      BY <2>1, <3>3 DEF IInv, ShipmentOK, ShipmentBacked, RequestAt
    <3>6. OrderOK'
      BY <2>1, <3>3 DEF IInv, OrderOK, MilestoneChain, SomePaymentPaid, Backed,
         WindowOK, OrderTarget, IntentAt, RunAt, RequestAt, Row
    <3> QED
      BY <2>2, <3>4, <3>5, <3>6 DEF IInv
  <2> QED
    BY <2>3, <2>4
<1>2. CASE WriteManagedOrder(d)
  <2>1. /\ request[d].pc = "writeOrder"
        /\ WriteOrder(request[d].seen, request[d].to, order.payment)
        /\ RequestGoes(d, "writeShipment")
        /\ UNCHANGED <<shipment, payment, transactions, audits, gateway, event, job,
                       run, intent, notices>>
    BY <1>2 DEF WriteManagedOrder, RequestAt
  <2>2. /\ WindowOK(request[d].seen, request[d].to)
        /\ request[d].to \in OperationalOrderStatuses
    BY <2>1 DEF IInv, OrderOK, RequestAt
  <2>3. /\ order' \in [status : OrderStatus, payment : Intents \cup {NoPayment},
                       stamps : SUBSET Stamps]
        /\ order'.payment = order.payment
        /\ order'.stamps = order.stamps \cup StampsOf(request[d].to)
        /\ restored' \in Nat
    BY <1>0, <2>1, OrderWritten
  <2>4. /\ MilestoneChain'
        /\ Backed(order.status)'
        /\ \A status \in OrderStatus : Backed(status) => Backed(status)'
        /\ \A status \in ShipmentStatus : ShipmentBacked(status) => ShipmentBacked(status)'
    BY <1>0, <2>1, <2>2, OrderWriteKeeps DEF OperationalOrderStatuses
  <2>5. /\ request' \in [Requests -> RequestRow]
        /\ request'[d].pc = "writeShipment"
        /\ request'[d].to = request[d].to
        /\ request'[d].shipment = request[d].shipment
        /\ \A c \in Requests \ {d} : request'[c] = request[c]
    BY <1>0, <2>1, RequestMoves DEF RequestSteps
  <2>6. TypeOK'
    BY <1>0, <2>1, <2>3, <2>5 DEF TypeOK
  <2>7. RefsOK' /\ PaidOK'
    BY <2>1, <2>3, DashboardKeeps
  <2>8. ShipmentOK'
    <3>1. ShipmentBacked(shipment)'
      BY <1>0, <2>1, <2>4 DEF IInv, TypeOK, ShipmentOK
    <3>2. \A c \in Requests : request[c].shipment \in ShipmentStatus
      BY <1>0 DEF TypeOK, RequestRow
    <3>3. \A c \in Requests : request'[c].pc \in {"writeOrder", "writeShipment"} =>
                                ShipmentBacked(request[c].shipment)'
      BY <2>1, <2>4, <2>5, <3>2 DEF IInv, ShipmentOK
    <3>4. \A c \in Requests : RequestAt(c, "writeShipment")' =>
            /\ StampsOf(request'[c].to) \subseteq order'.stamps
            /\ request'[c].to \in OperationalOrderStatuses
      BY <2>2, <2>3, <2>5 DEF IInv, ShipmentOK, RequestAt
    <3> QED
      BY <3>1, <3>3, <3>4 DEF ShipmentOK
  <2>9. OrderOK'
    BY <2>1, <2>4, <2>5 DEF IInv, OrderOK, WindowOK, OrderTarget, IntentAt, RunAt, RequestAt, Row
  <2> QED
    BY <2>6, <2>7, <2>8, <2>9 DEF IInv
<1>3. CASE WriteShipment(d)
  <2>1. /\ request[d].pc = "writeShipment"
        /\ shipment' = ShipmentAfter(request[d].shipment, request[d].to)
        /\ RequestGoes(d, "auditOrder")
        /\ UNCHANGED <<order, restored, payment, transactions, audits, gateway,
                       event, job, run, intent, notices>>
    BY <1>3 DEF WriteShipment, RequestAt
  <2>2. /\ request[d].to \in OperationalOrderStatuses
        /\ StampsOf(request[d].to) \subseteq order.stamps
        /\ ShipmentBacked(request[d].shipment)
    BY <2>1 DEF IInv, ShipmentOK, RequestAt
  <2>3. /\ shipment' \in ShipmentStatus
        /\ ShipmentBacked(shipment)'
    BY <1>0, <2>1, <2>2 DEF ShipmentAfter, ShipmentStatus, ShipmentBacked, StampsOf, OperationalOrderStatuses
  <2>4. /\ request' \in [Requests -> RequestRow]
        /\ request'[d].pc = "auditOrder"
        /\ \A c \in Requests \ {d} : request'[c] = request[c]
    BY <1>0, <2>1, RequestMoves DEF RequestSteps
  <2>5. TypeOK'
    BY <1>0, <2>1, <2>3, <2>4 DEF TypeOK
  <2>6. RefsOK' /\ PaidOK'
    BY <2>1, DashboardKeeps
  <2>7. ShipmentOK'
    BY <2>1, <2>3, <2>4 DEF IInv, ShipmentOK, ShipmentBacked, RequestAt
  <2>8. OrderOK'
    BY <2>1, <2>4 DEF IInv, OrderOK, MilestoneChain, SomePaymentPaid, Backed, WindowOK,
                      OrderTarget, IntentAt, RunAt, RequestAt, Row
  <2> QED
    BY <2>5, <2>6, <2>7, <2>8 DEF IInv
<1>4. CASE AuditManagedOrder(d)
  <2>1. /\ RequestGoes(d, "done")
        /\ UNCHANGED <<order, shipment, restored, payment, transactions, gateway,
                       event, job, run, intent, notices>>
    BY <1>4 DEF AuditManagedOrder
  <2>2. audits' \subseteq AuditRow
    BY <1>0, <1>4, AuditTyped DEF AuditManagedOrder
  <2>3. /\ request' \in [Requests -> RequestRow]
        /\ request'[d].pc = "done"
        /\ \A c \in Requests \ {d} : request'[c] = request[c]
    BY <1>0, <2>1, RequestMoves DEF RequestSteps
  <2>4. TypeOK'
    BY <1>0, <2>1, <2>2, <2>3 DEF TypeOK
  <2>5. RefsOK' /\ PaidOK'
    BY <2>1, DashboardKeeps
  <2>6. ShipmentOK'
    BY <2>1, <2>3 DEF IInv, ShipmentOK, ShipmentBacked, RequestAt
  <2>7. OrderOK'
    BY <2>1, <2>3 DEF IInv, OrderOK, MilestoneChain, SomePaymentPaid, Backed, WindowOK,
                      OrderTarget, IntentAt, RunAt, RequestAt, Row
  <2> QED
    BY <2>4, <2>5, <2>6, <2>7 DEF IInv
<1> QED
  BY <1>1, <1>2, <1>3, <1>4 DEF RequestStep

\* There is an order and nothing has happened to it.
LEMMA InitHolds == Init => IInv
<1> SUFFICES ASSUME Init PROVE IInv
  OBVIOUS
<1>1. TypeOK
  BY DEF Init, TypeOK, OrderStatus, ShipmentStatus, PaymentRow, EventRow, EventTypes,
         JobRow, RunRow, RunSteps, Statuses, IntentRow, IntentSteps, RequestRow, RequestSteps
<1>2. RefsOK
  BY DEF Init, RefsOK, ReferencesResolve, IntentAt, RunAt, Resolved
<1>3. PaidOK
  BY DEF Init, PaidOK, RunAt
<1>4. OrderOK
  BY DEF Init, OrderOK, MilestoneChain, Backed, Backing, ClosedOrderStatuses,
         IntentAt, RunAt, RequestAt
<1>5. ShipmentOK
  BY DEF Init, ShipmentOK, ShipmentBacked, RequestAt
<1> QED
  BY <1>1, <1>2, <1>3, <1>4, <1>5 DEF IInv

\* The invariant speaks of the variables only.
LEMMA StutterKeeps == IInv /\ UNCHANGED vars => IInv'
<1> SUFFICES ASSUME IInv, UNCHANGED vars PROVE IInv'
  OBVIOUS
<1>1. UNCHANGED <<order, shipment, restored, payment, transactions, audits, gateway,
                  event, job, run, intent, request, notices>>
  BY DEF vars
<1>2. TypeOK'
  BY <1>1 DEF IInv, TypeOK
<1>3. RefsOK' /\ PaidOK' /\ ShipmentOK'
  BY <1>1 DEF IInv, RefsOK, ReferencesResolve, PaidOK, IntentAt, RunAt, Row, ShipmentOK,
              ShipmentBacked, RequestAt
<1>4. OrderOK'
  BY <1>1 DEF IInv, OrderOK, MilestoneChain, SomePaymentPaid, Backed, WindowOK,
              OrderTarget, IntentAt, RunAt, RequestAt, Row
<1> QED
  BY <1>2, <1>3, <1>4 DEF IInv

\* Every step keeps the invariant.
LEMMA NextKeeps == IInv /\ [Next]_vars => IInv'
  BY IntentStepKeeps, EventArrivesKeeps, RunStepKeeps, RequestStepKeeps, StutterKeeps DEF Next

\* The invariant holds in every reachable state.
LEMMA AlwaysIInv == Spec => []IInv
  BY InitHolds, NextKeeps, PTL DEF Spec
\* Types, for any number of actors.
THEOREM OrderTypes == Spec => []TypeOK
  BY AlwaysIInv, PTL DEF IInv

\* Whatever the interleaving: fulfilled orders were paid for, the timestamps
\* tell a possible story, closed orders have released their stock, the
\* shipment follows the order, and rows refer to rows that exist.
THEOREM OrderSafe ==
  Spec => [](/\ FulfilledOnlyIfPaid
             /\ MilestoneChain
             /\ ClosedOrderReleasedStock
             /\ ShipmentFollowsOrder
             /\ ReferencesResolve)
<1>1. IInv => /\ FulfilledOnlyIfPaid
              /\ MilestoneChain
              /\ ClosedOrderReleasedStock
              /\ ShipmentFollowsOrder
              /\ ReferencesResolve
  <2> SUFFICES ASSUME IInv
               PROVE  /\ FulfilledOnlyIfPaid
                      /\ MilestoneChain
                      /\ ClosedOrderReleasedStock
                      /\ ShipmentFollowsOrder
                      /\ ReferencesResolve
    OBVIOUS
  <2>1. MilestoneChain /\ Backed(order.status)
    BY DEF IInv, OrderOK
  <2>2. FulfilledOnlyIfPaid
    BY <2>1 DEF FulfilledOnlyIfPaid, MilestoneChain, Backed, Backing
  <2>3. ClosedOrderReleasedStock
    BY <2>1 DEF ClosedOrderReleasedStock, Backed
  <2>4. ShipmentFollowsOrder
    BY DEF IInv, ShipmentOK, ShipmentBacked, ShipmentFollowsOrder
  <2>5. ReferencesResolve
    BY DEF IInv, RefsOK
  <2> QED
    BY <2>1, <2>2, <2>3, <2>4, <2>5
<1> QED
  BY <1>1, AlwaysIInv, PTL

-------------------------------------------------------------------------------
(* The order's history implements OrderMilestones.                         *)

\* A step writes one status to the order, or may add a capture, never both,
\* and takes neither back.
LEMMA OneThingAtATime ==
  ASSUME IInv, [Next]_vars
  PROVE  \/ /\ \E to \in OrderStatus : order'.stamps = order.stamps \cup StampsOf(to)
            /\ UNCHANGED payment
         \/ /\ order'.stamps = order.stamps
            /\ SomePaymentPaid => SomePaymentPaid'
<1> USE DEF SomePaymentPaid
<1>0. TypeOK
  BY DEF IInv
<1>1. ASSUME NEW p \in Intents, NEW to, NEW attempts, WritePayment(p, to, attempts),
             UNCHANGED order
      PROVE  SomePaymentPaid => SomePaymentPaid'
  <2>1. /\ payment'[p].paid = (payment[p].paid \/ to = "APPROVED")
        /\ \A i \in Intents \ {p} : payment'[i] = payment[i]
    BY <1>0, <1>1 DEF TypeOK, WritePayment
  <2>2. payment[p].paid => payment'[p].paid
    BY <2>1
  <2> QED
    BY <2>1, <2>2
<1>2. ASSUME NEW seen \in OrderStatus, NEW to \in OrderStatus,
             NEW linked \in Intents \cup {NoPayment}, WriteOrder(seen, to, linked)
      PROVE  \E s \in OrderStatus : order'.stamps = order.stamps \cup StampsOf(s)
  BY <1>0, <1>2, OrderWritten
<1>3. ASSUME NEW i \in Intents, IntentStep(i)
      PROVE  \/ /\ \E to \in OrderStatus : order'.stamps = order.stamps \cup StampsOf(to)
                /\ UNCHANGED payment
             \/ /\ order'.stamps = order.stamps
                /\ SomePaymentPaid => SomePaymentPaid'
  <2>1. intent[i].payment \in Intents
    BY <1>0 DEF TypeOK, IntentRow
  <2>2. CASE CreatePayment(i)
    <3>1. order' = order /\ payment' = [payment EXCEPT ![i].status = "CREATED"]
      BY <2>2 DEF CreatePayment
    <3>2. \A j \in Intents : payment'[j].paid = payment[j].paid
      BY <1>0, <3>1 DEF TypeOK, PaymentRow
    <3> QED
      BY <3>1, <3>2
  <2>3. CASE LinkPayment(i)
    BY <1>0, <2>3 DEF LinkPayment, TypeOK
  <2>4. CASE IntentWritesPayment(i)
    BY <1>1, <2>1, <2>4 DEF IntentWritesPayment
  <2>5. CASE IntentWritesOrder(i)
    <3>1. intent[i].seen \in OrderStatus /\ "WAITING_PAYMENT" \in OrderStatus
      BY <2>5 DEF IntentWritesOrder, IInv, OrderOK, WindowOK, OrderStatus
    <3>2. UNCHANGED payment /\ WriteOrder(intent[i].seen, "WAITING_PAYMENT", intent[i].payment)
      BY <2>5 DEF IntentWritesOrder
    <3> QED
      BY <1>2, <2>1, <3>1, <3>2
  <2>6. CASE ~CreatePayment(i) /\ ~LinkPayment(i) /\ ~IntentWritesPayment(i) /\ ~IntentWritesOrder(i)
    <3>1. UNCHANGED <<order, payment>>
      BY <1>3, <2>6 DEF IntentStep, ReadPayableOrder, OpenIntent, IntentReadsPayment,
         IntentAuditsPayment, IntentRecords, IntentReadsOrder, IntentAuditsOrder
    <3> QED
      BY <3>1
  <2> QED
    BY <2>2, <2>3, <2>4, <2>5, <2>6
<1>4. ASSUME NEW r \in Runs, RunStep(r) \/ TimeOut(r) \/ StatementFails(r)
      PROVE  \/ /\ \E to \in OrderStatus : order'.stamps = order.stamps \cup StampsOf(to)
                /\ UNCHANGED payment
             \/ /\ order'.stamps = order.stamps
                /\ SomePaymentPaid => SomePaymentPaid'
  <2>1. CASE RunWritesPayment(r)
    <3>1. Row(r).payment \in Intents
      BY RunFacts
    <3> QED
      BY <1>1, <2>1, <3>1 DEF RunWritesPayment
  <2>2. CASE RunWritesOrder(r)
    <3>1. /\ run[r].seen \in OrderStatus /\ OrderTarget(r) \in OrderStatus
          /\ order.payment \in Intents \cup {NoPayment}
      BY <2>2, RunFacts DEF RunWritesOrder, IInv, OrderOK, WindowOK, TypeOK, RunAt, Resolved
    <3>2. UNCHANGED payment /\ WriteOrder(run[r].seen, OrderTarget(r), order.payment)
      BY <2>2 DEF RunWritesOrder
    <3> QED
      BY <1>2, <3>1, <3>2
  <2>3. CASE ~RunWritesPayment(r) /\ ~RunWritesOrder(r)
    <3>1. UNCHANGED <<order, payment>>
      BY <1>4, <2>3 DEF RunStep, StartAttempt, LoadEvent, MarkProcessing, LookupTransaction,
         RunReadsPayment, RunAuditsPayment, RunReadsOrder, RunAuditsOrder, RunRecords,
         MarkProcessed, Notify, SkipRecorded, MarkFailed, TimeOut, StatementFails
    <3> QED
      BY <3>1
  <2> QED
    BY <2>1, <2>2, <2>3
<1>5. ASSUME NEW d \in Requests, RequestStep(d)
      PROVE  /\ \E to \in OrderStatus : order'.stamps = order.stamps \cup StampsOf(to)
             /\ UNCHANGED payment
  <2>1. CASE WriteManagedOrder(d)
    <3>1. /\ request[d].seen \in OrderStatus /\ request[d].to \in OrderStatus
          /\ order.payment \in Intents \cup {NoPayment}
      BY <1>0, <2>1 DEF TypeOK, RequestRow
    <3>2. UNCHANGED payment /\ WriteOrder(request[d].seen, request[d].to, order.payment)
      BY <2>1 DEF WriteManagedOrder
    <3> QED
      BY <1>2, <3>1, <3>2
  <2>2. CASE ~WriteManagedOrder(d)
    <3>1. UNCHANGED <<order, payment>>
      BY <1>5, <2>2 DEF RequestStep, ReadManagedOrder, WriteShipment, AuditManagedOrder
    <3>2. StampsOf("PROCESSING") = {} /\ "PROCESSING" \in OrderStatus
      BY DEF StampsOf, OrderStatus
    <3> QED
      BY <3>1, <3>2
  <2> QED
    BY <2>1, <2>2
<1>6. ASSUME NEW e \in Events, NEW i \in Intents, NEW type \in EventTypes, EventArrives(e, i, type)
      PROVE  UNCHANGED <<order, payment>>
  BY <1>6 DEF EventArrives
<1>7. CASE UNCHANGED vars
  BY <1>7 DEF vars
<1> QED
  BY <1>3, <1>4, <1>5, <1>6, <1>7 DEF Next

\* Every step reaches a milestone of the order's history or none.
LEMMA ReachesAMilestone ==
  ASSUME IInv, IInv', [Next]_vars
  PROVE  [History!Next]_Reached
<1>1. MilestoneChain /\ MilestoneChain'
  BY DEF IInv, OrderOK
<1>2. CASE /\ order'.stamps = order.stamps
           /\ SomePaymentPaid => SomePaymentPaid'
  <2>1. Reached' = Reached \/ Reached' = Reached \cup {"paid"}
    BY <1>2 DEF Reached
  <2> QED
    BY <2>1 DEF History!Next, History!Reach, History!Milestones, History!Presupposes
<1>3. ASSUME NEW to \in OrderStatus, order'.stamps = order.stamps \cup StampsOf(to),
             UNCHANGED payment
      PROVE  [History!Next]_Reached
  <2>1. SomePaymentPaid' <=> SomePaymentPaid
    BY <1>3 DEF SomePaymentPaid
  <2>2. Reached' = Reached \cup StampsOf(to)
    BY <1>3, <2>1 DEF Reached
  <2>3. CASE StampsOf(to) = {}
    BY <2>2, <2>3
  <2>4. ASSUME NEW m \in Stamps, StampsOf(to) = {m}
        PROVE  History!Reach(m)
    <3>1. History!Presupposes[m] \subseteq Reached
      BY <1>1, <1>3, <2>1, <2>4 DEF History!Presupposes, Stamps, Reached, MilestoneChain
    <3> QED
      BY <2>2, <2>4, <3>1 DEF History!Reach
  <2>5. StampsOf(to) = {} \/ \E m \in Stamps : StampsOf(to) = {m}
    BY DEF StampsOf, Stamps
  <2> QED
    BY <2>3, <2>4, <2>5 DEF History!Next, History!Milestones, Stamps
<1> QED
  BY <1>2, <1>3, OneThingAtATime

\* The order's timestamps and captures grow as OrderMilestones says, although
\* its status may be written over by a stale one.
THEOREM MilestonesRefined == Spec => ImplementsMilestones
<1>1. Init => History!Init
  BY DEF Init, History!Init, Reached, SomePaymentPaid
<1>2. IInv /\ IInv' /\ [Next]_vars => [History!Next]_Reached
  BY ReachesAMilestone
<1> QED
  BY <1>1, <1>2, AlwaysIInv, PTL DEF Spec, ImplementsMilestones, History!Spec

-------------------------------------------------------------------------------
(* The events and their jobs: no more is taken of them than EventQueue     *)
(* gives, which WebhookIntake implements.                                  *)

\* Neither a row nor a job is added or lost.
QueueKept ==
  \A e \in Events :
    /\ event[e].status # "NONE" <=> event'[e].status # "NONE"
    /\ job[e].state # "none" <=> job'[e].state # "none"

\* The end of an execution settles a job or has it wait again.
LEMMA JobsStay ==
  ASSUME TypeOK, NEW r \in Runs,
         \/ RunSucceeds(r) \/ RunFails(r) \/ UNCHANGED job
         \/ /\ job[r[1]].state = "waiting"
            /\ job' = [job EXCEPT ![r[1]] = [state |-> "active", attempt |-> r[2]]]
  PROVE  \A e \in Events : job[e].state # "none" <=> job'[e].state # "none"
<1>1. AfterFailure(r[2]) \in {"waiting", "failed"} /\ r[1] \in Events
  BY RunsPair DEF AfterFailure
<1>2. CASE RunSucceeds(r) \/ RunFails(r)
  <2>1. CASE IsActive(r)
    <3>1. PICK state \in {"waiting", "failed", "completed"} :
            job' = [job EXCEPT ![r[1]].state = state]
      BY <1>1, <1>2, <2>1 DEF RunSucceeds, RunFails
    <3>2. job[r[1]].state = "active"
      BY <2>1 DEF IsActive
    <3> QED BY <1>1, <3>1, <3>2 DEF TypeOK, JobRow
  <2>2. CASE ~IsActive(r)
    BY <1>2, <2>2 DEF RunSucceeds, RunFails
  <2> QED BY <2>1, <2>2
<1>3. CASE UNCHANGED job
  BY <1>3
<1>4. CASE /\ job[r[1]].state = "waiting"
           /\ job' = [job EXCEPT ![r[1]] = [state |-> "active", attempt |-> r[2]]]
  BY <1>1, <1>4 DEF TypeOK
<1> QED BY <1>2, <1>3, <1>4

\* A webhook job marks the row it was queued for, and the queue only its own job.
LEMMA RunKeepsQueue ==
  ASSUME IInv, NEW r \in Runs, RunStep(r) \/ TimeOut(r) \/ StatementFails(r)
  PROVE  QueueKept
<1>1. TypeOK /\ (~RunAt(r, "idle") => Row(r).status # "NONE")
  BY RunFacts
<1>2. CASE StartAttempt(r) \/ TimeOut(r) \/ LoadEvent(r) \/ Notify(r) \/ StatementFails(r)
  <2>1. UNCHANGED event
    BY <1>2 DEF StartAttempt, TimeOut, LoadEvent, Notify, StatementFails
  <2>2. \/ RunSucceeds(r) \/ RunFails(r) \/ UNCHANGED job
        \/ /\ job[r[1]].state = "waiting"
           /\ job' = [job EXCEPT ![r[1]] = [state |-> "active", attempt |-> r[2]]]
    BY <1>2 DEF StartAttempt, TimeOut, LoadEvent, Notify, StatementFails
  <2> QED BY <1>1, <2>1, <2>2, JobsStay DEF QueueKept
<1>3. CASE MarkProcessing(r) \/ MarkProcessed(r) \/ SkipRecorded(r) \/ MarkFailed(r)
  <2>1. ~RunAt(r, "idle")
    BY <1>3 DEF MarkProcessing, MarkProcessed, SkipRecorded, MarkFailed, RunAt
  <2>2. PICK status \in {"PROCESSING", "PROCESSED", "FAILED"} : SetRow(r, status)
    BY <1>3 DEF MarkProcessing, MarkProcessed, SkipRecorded, MarkFailed
  <2>3. RunSucceeds(r) \/ RunFails(r) \/ UNCHANGED job
    BY <1>3 DEF MarkProcessing, MarkProcessed, SkipRecorded, MarkFailed
  <2> QED BY <1>1, <2>1, <2>2, <2>3, RowMarked, JobsStay DEF QueueKept, RowsKept
<1>4. CASE \/ LookupTransaction(r) \/ RunReadsPayment(r) \/ RunWritesPayment(r)
           \/ RunAuditsPayment(r) \/ RunReadsOrder(r) \/ RunWritesOrder(r)
           \/ RunAuditsOrder(r) \/ RunRecords(r)
  BY <1>4
  DEF LookupTransaction, RunReadsPayment, RunWritesPayment, RunAuditsPayment, RunReadsOrder,
      RunWritesOrder, RunAuditsOrder, RunRecords, QueueKept
<1> QED BY <1>2, <1>3, <1>4 DEF RunStep

\* However jobs are retried, time out and fail, an event is stored and queued once:
\* the jobs need of the webhook endpoint no more than EventQueue says.
THEOREM QueueFollowed == Spec => FollowsEventQueue
<1>1. Init => Arrivals!Init
  BY DEF Init, Arrivals!Init
<1>2. IInv /\ [Next]_vars => [Arrivals!Next]_(Arrivals!vars)
  <2> SUFFICES ASSUME IInv, [Next]_vars PROVE [Arrivals!Next]_(Arrivals!vars)
    OBVIOUS
  <2>1. CASE QueueKept
    BY <2>1 DEF QueueKept, Arrivals!vars
  <2>2. CASE UNCHANGED <<event, job>>
    BY <2>1, <2>2 DEF QueueKept
  <2>3. ASSUME NEW e \in Events, NEW i \in Intents, NEW type \in EventTypes,
               EventArrives(e, i, type)
        PROVE  [Arrivals!Next]_(Arrivals!vars)
    <3> DEFINE Stored == {o \in Events : event[o].status # "NONE"}
               Jobs == [o \in Events |-> IF job[o].state = "none" THEN 0 ELSE 1]
    <3>1. /\ event[e].status = "NONE" /\ job[e].state = "none"
          /\ event \in [Events -> EventRow] /\ job \in [Events -> JobRow]
      BY <2>3 DEF EventArrives, IInv, RefsOK, TypeOK
    <3>2. /\ event'[e].status = "RECEIVED" /\ job'[e].state = "waiting"
          /\ \A o \in Events \ {e} : event'[o] = event[o] /\ job'[o] = job[o]
      BY <2>3, <3>1 DEF EventArrives, JobRow
    <3>3. Stored' = Stored \cup {e}
      BY <3>1, <3>2
    <3>4. Jobs[e] = 0 /\ Jobs' = [Jobs EXCEPT ![e] = 1]
      BY <3>1, <3>2
    <3>5. Arrivals!Queue(e)
      BY <3>3, <3>4 DEF Arrivals!Queue
    <3> QED BY <3>5 DEF Arrivals!Next
  <2>4. ASSUME NEW i \in Intents, IntentStep(i) PROVE UNCHANGED <<event, job>>
    BY <2>4
    DEF IntentStep, ReadPayableOrder, CreatePayment, LinkPayment, OpenIntent, IntentReadsPayment,
        IntentWritesPayment, IntentAuditsPayment, IntentRecords, IntentReadsOrder,
        IntentWritesOrder, IntentAuditsOrder
  <2>5. ASSUME NEW d \in Requests, RequestStep(d) PROVE UNCHANGED <<event, job>>
    BY <2>5 DEF RequestStep, ReadManagedOrder, WriteManagedOrder, WriteShipment,
                AuditManagedOrder
  <2>6. CASE UNCHANGED vars
    BY <2>2, <2>6 DEF vars
  <2> QED BY <2>1, <2>2, <2>3, <2>4, <2>5, <2>6, RunKeepsQueue DEF Next
<1> QED
  BY <1>1, <1>2, AlwaysIInv, PTL DEF Spec, FollowsEventQueue, Arrivals!Spec

-------------------------------------------------------------------------------
(* The jobs and the queue's policy, as RetriedJobs has it.                 *)

\* How often a job has failed, by its row.
FailuresIn(row) ==
  IF row.state \in {"active", "completed"} THEN row.attempt - 1 ELSE row.attempt

\* A step that has one job in another state, with its failures as before, is a step
\* of the policy, and so is one more failure.
LEMMA JobGoes ==
  ASSUME TypeOK, NEW e \in Events, NEW row \in JobRow,
         job' = [job EXCEPT ![e] = row],
         \/ /\ FailuresIn(row) = FailuresIn(job[e])
            /\ \/ job[e].state = "none" /\ row.state = "waiting"
               \/ job[e].state = "waiting" /\ row.state = "active"
               \/ job[e].state = "active" /\ row.state = "completed"
         \/ /\ FailuresIn(row) = FailuresIn(job[e]) + 1
            /\ job[e].state = "active"
            /\ row.state = IF FailuresIn(row) < MaxAttempts THEN "waiting" ELSE "failed"
  PROVE  Retries!Next
<1> DEFINE S == [o \in Events |-> job[o].state]
           F == [o \in Events |-> IF job[o].state \in {"active", "completed"}
                                 THEN job[o].attempt - 1 ELSE job[o].attempt]
<1>1. S[e] = job[e].state /\ F[e] = FailuresIn(job[e])
  BY DEF FailuresIn
<1>2. job \in [Events -> JobRow]
  BY DEF TypeOK
<1>3. S' = [S EXCEPT ![e] = row.state]
  BY <1>2
<1>4. F' = [F EXCEPT ![e] = FailuresIn(row)]
  BY <1>2 DEF FailuresIn
<1>5. CASE FailuresIn(row) = FailuresIn(job[e])
  <2>1. F' = F
    BY <1>1, <1>4, <1>5
  <2>2. CASE job[e].state = "none" /\ row.state = "waiting"
    <3>1. Retries!Add(e)
      BY <1>1, <1>3, <2>1, <2>2 DEF Retries!Add, Retries!Goes
    <3> QED BY <3>1 DEF Retries!Next
  <2>3. CASE job[e].state = "waiting" /\ row.state = "active"
    <3>1. Retries!Take(e)
      BY <1>1, <1>3, <2>1, <2>3 DEF Retries!Take, Retries!Goes
    <3> QED BY <3>1 DEF Retries!Next
  <2>4. CASE job[e].state = "active" /\ row.state = "completed"
    <3>1. Retries!Succeed(e)
      BY <1>1, <1>3, <2>1, <2>4 DEF Retries!Succeed, Retries!Goes
    <3> QED BY <3>1 DEF Retries!Next
  <2>5. FailuresIn(row) # FailuresIn(job[e]) + 1
    <3>1. row.attempt \in Nat
      BY ConstantsAssumption DEF JobRow
    <3> QED BY <1>5, <3>1 DEF FailuresIn
  <2> QED BY <2>2, <2>3, <2>4, <2>5
<1>6. CASE /\ FailuresIn(row) = FailuresIn(job[e]) + 1
           /\ job[e].state = "active"
           /\ row.state = IF FailuresIn(row) < MaxAttempts THEN "waiting" ELSE "failed"
  <2>1. F' = [F EXCEPT ![e] = F[e] + 1]
    BY <1>1, <1>4, <1>6
  <2>2. row.state = IF F[e] + 1 < MaxAttempts THEN "waiting" ELSE "failed"
    BY <1>1, <1>6
  <2>3. S[e] = "active"
    BY <1>1, <1>6
  <2>4. S' = [S EXCEPT ![e] = IF F[e] + 1 < MaxAttempts THEN "waiting" ELSE "failed"]
    BY <1>3, <2>2
  <2>5. Retries!Fail(e)
    BY <2>1, <2>3, <2>4 DEF Retries!Fail, Retries!Goes
  <2> QED BY <2>5 DEF Retries!Next
<1> QED BY <1>5, <1>6

\* Starting an attempt, and the end of an execution, be it the attempt the queue
\* waits for or a late one.
LEMMA RunRetries ==
  ASSUME IInv, NEW r \in Runs, RunStep(r) \/ TimeOut(r) \/ StatementFails(r)
  PROVE  Retries!Next \/ UNCHANGED job
<1>1. TypeOK /\ r[1] \in Events /\ r[2] \in 1..MaxAttempts /\ MaxAttempts \in Nat \ {0}
  BY RunsPair, ConstantsAssumption DEF IInv, Attempts
<1>2. PICK e \in Events, n \in 1..MaxAttempts : e = r[1] /\ n = r[2]
  BY <1>1
<1>3. CASE StartAttempt(r)
  <2>1. /\ job[e] = [state |-> "waiting", attempt |-> n - 1]
        /\ job' = [job EXCEPT ![e] = [state |-> "active", attempt |-> n]]
    BY <1>2, <1>3 DEF StartAttempt
  <2>2. [state |-> "active", attempt |-> n] \in JobRow
    BY <1>1 DEF JobRow
  <2>3. PICK row \in JobRow : row = [state |-> "active", attempt |-> n]
    BY <2>2
  <2>4. /\ job[e].state = "waiting" /\ FailuresIn(job[e]) = n - 1
        /\ row.state = "active" /\ FailuresIn(row) = n - 1
    BY <2>1, <2>3 DEF FailuresIn
  <2>5. job' = [job EXCEPT ![e] = row]
    BY <2>1, <2>3
  <2> QED BY <1>1, <2>4, <2>5, JobGoes
<1>4. CASE IsActive(r) /\ (RunSucceeds(r) \/ RunFails(r))
  <2>1. job[e] = [state |-> "active", attempt |-> n]
    BY <1>2, <1>4 DEF IsActive
  <2>2. job[e].state = "active" /\ FailuresIn(job[e]) = n - 1
    BY <2>1 DEF FailuresIn
  <2>3. job \in [Events -> JobRow]
    BY <1>1 DEF TypeOK
  <2>4. CASE RunSucceeds(r)
    <3>1. job' = [job EXCEPT ![e].state = "completed"]
      BY <1>2, <1>4, <2>4 DEF RunSucceeds
    <3>0. [state |-> "completed", attempt |-> n] \in JobRow
      BY <1>1 DEF JobRow
    <3>2. PICK row \in JobRow : row = [state |-> "completed", attempt |-> n]
      BY <3>0
    <3>3. [job[e] EXCEPT !.state = "completed"] = row
      BY <2>1, <3>2
    <3>4. job' = [job EXCEPT ![e] = row]
      BY <1>2, <2>3, <3>1, <3>3
    <3>5. row.state = "completed" /\ FailuresIn(row) = n - 1
      BY <3>2 DEF FailuresIn
    <3> QED BY <1>1, <2>2, <3>4, <3>5, JobGoes
  <2>5. CASE RunFails(r)
    <3>1. job' = [job EXCEPT ![e].state = AfterFailure(n)]
      BY <1>2, <1>4, <2>5 DEF RunFails
    <3>2. AfterFailure(n) = IF n < MaxAttempts THEN "waiting" ELSE "failed"
      BY DEF AfterFailure
    <3>0. [state |-> AfterFailure(n), attempt |-> n] \in JobRow
      BY <1>1, <3>2 DEF JobRow
    <3>3. PICK row \in JobRow : row = [state |-> AfterFailure(n), attempt |-> n]
      BY <3>0
    <3>4. [job[e] EXCEPT !.state = AfterFailure(n)] = row
      BY <2>1, <3>3
    <3>5. job' = [job EXCEPT ![e] = row]
      BY <1>2, <2>3, <3>1, <3>4
    <3>6. row.state = AfterFailure(n) /\ FailuresIn(row) = n
      BY <3>2, <3>3 DEF FailuresIn
    <3>7. FailuresIn(row) = FailuresIn(job[e]) + 1
      BY <2>2, <3>6
    <3>8. row.state = IF FailuresIn(row) < MaxAttempts THEN "waiting" ELSE "failed"
      BY <3>2, <3>6
    <3> QED BY <1>1, <2>2, <3>5, <3>7, <3>8, JobGoes
  <2> QED BY <1>4, <2>4, <2>5
<1>5. CASE ~IsActive(r) /\ (RunSucceeds(r) \/ RunFails(r))
  BY <1>5 DEF RunSucceeds, RunFails
<1>6. StartAttempt(r) \/ RunSucceeds(r) \/ RunFails(r) \/ UNCHANGED job
  <2>1. CASE RunStep(r)
    BY <2>1
    DEF RunStep, LoadEvent, MarkProcessing, LookupTransaction, RunReadsPayment,
        RunWritesPayment, RunAuditsPayment, RunReadsOrder, RunWritesOrder, RunAuditsOrder,
        RunRecords, MarkProcessed, Notify, SkipRecorded, MarkFailed
  <2>2. CASE TimeOut(r) \/ StatementFails(r)
    BY <2>2 DEF TimeOut, StatementFails
  <2> QED BY <2>1, <2>2
<1> QED BY <1>3, <1>4, <1>5, <1>6

\* Whatever times out, dies or goes on late, the jobs are retried by the queue's
\* policy and by nothing else.
THEOREM JobsRetried == Spec => RetriesJobs
<1>1. Init => Retries!Init
  BY DEF Init, Retries!Init
<1>2. IInv /\ [Next]_vars => [Retries!Next]_(Retries!vars)
  <2> SUFFICES ASSUME IInv, [Next]_vars PROVE [Retries!Next]_(Retries!vars)
    OBVIOUS
  <2>1. CASE UNCHANGED job
    BY <2>1 DEF Retries!vars
  <2>2. ASSUME NEW e \in Events, NEW i \in Intents, NEW type \in EventTypes,
               EventArrives(e, i, type)
        PROVE  Retries!Next
    <3>1. TypeOK /\ job \in [Events -> JobRow] /\ job[e].state = "none"
      BY <2>2 DEF EventArrives, IInv, RefsOK, TypeOK
    <3>2. job' = [job EXCEPT ![e].state = "waiting"]
      BY <2>2 DEF EventArrives
    <3>3. PICK row \in JobRow : row = [job[e] EXCEPT !.state = "waiting"]
      BY <3>1 DEF JobRow
    <3>4. job' = [job EXCEPT ![e] = row]
      BY <3>1, <3>2, <3>3
    <3>5. row.state = "waiting" /\ row.attempt = job[e].attempt
      BY <3>1, <3>3 DEF JobRow
    <3>6. FailuresIn(job[e]) = job[e].attempt /\ FailuresIn(row) = job[e].attempt
      BY <3>1, <3>5 DEF FailuresIn
    <3> QED BY <3>1, <3>4, <3>5, <3>6, JobGoes
  <2>3. ASSUME NEW i \in Intents, IntentStep(i) PROVE UNCHANGED job
    BY <2>3
    DEF IntentStep, ReadPayableOrder, CreatePayment, LinkPayment, OpenIntent, IntentReadsPayment,
        IntentWritesPayment, IntentAuditsPayment, IntentRecords, IntentReadsOrder,
        IntentWritesOrder, IntentAuditsOrder
  <2>4. ASSUME NEW d \in Requests, RequestStep(d) PROVE UNCHANGED job
    BY <2>4 DEF RequestStep, ReadManagedOrder, WriteManagedOrder, WriteShipment,
                AuditManagedOrder
  <2>5. CASE UNCHANGED vars
    BY <2>1, <2>5 DEF vars
  <2> QED BY <2>1, <2>2, <2>3, <2>4, <2>5, RunRetries DEF Next
<1> QED
  BY <1>1, <1>2, AlwaysIInv, PTL DEF Spec, RetriesJobs, Retries!Spec

\* What the policy promises: a job is given up after MaxAttempts failures, and no
\* earlier.
LEMMA JobsGivenUpAtTheLimit == RetriesJobs => []Retries!GivenUpAtTheLimit
<1> DEFINE S == [o \in Events |-> job[o].state]
           F == [o \in Events |-> IF job[o].state \in {"active", "completed"}
                                 THEN job[o].attempt - 1 ELSE job[o].attempt]
           Limit == /\ \A o \in Events : F[o] \in 0..MaxAttempts
                    /\ \A o \in Events : S[o] = "failed" <=> F[o] = MaxAttempts
<1>1. Retries!Init => Limit
  BY ConstantsAssumption DEF Retries!Init
<1>2. Limit /\ [Retries!Next]_(Retries!vars) => Limit'
  <2> SUFFICES ASSUME Limit, [Retries!Next]_(Retries!vars) PROVE Limit'
    OBVIOUS
  <2>0. MaxAttempts \in Nat \ {0}
    BY ConstantsAssumption
  <2>1. CASE UNCHANGED Retries!vars
    <3>1. S' = S /\ F' = F
      BY <2>1 DEF Retries!vars
    <3> HIDE DEF S, F
    <3> QED BY <3>1
  <2>2. ASSUME NEW e \in Events,
               Retries!Add(e) \/ Retries!Take(e) \/ Retries!Succeed(e) \/ Retries!Fail(e)
        PROVE  Limit'
    <3>1. PICK to \in {"waiting", "active", "completed", "failed"} :
            /\ S' = [S EXCEPT ![e] = to]
            /\ S[e] # "failed"
            /\ \/ to # "failed" /\ F' = F
               \/ /\ F' = [F EXCEPT ![e] = F[e] + 1]
                  /\ to = IF F[e] + 1 < MaxAttempts THEN "waiting" ELSE "failed"
      BY <2>2
      DEF Retries!Add, Retries!Take, Retries!Succeed, Retries!Fail, Retries!Goes
    <3>2. /\ DOMAIN S = Events /\ DOMAIN F = Events
      OBVIOUS
    <3> HIDE DEF S, F
    <3>3. F[e] < MaxAttempts /\ F[e] \in Nat
      BY <2>0, <3>1
    <3>4. \A o \in Events \ {e} : S'[o] = S[o] /\ F'[o] = F[o]
      BY <3>1, <3>2
    <3>5. S'[e] = to /\ F'[e] \in 0..MaxAttempts /\ (to = "failed" <=> F'[e] = MaxAttempts)
      BY <2>0, <3>1, <3>2, <3>3
    <3> QED BY <3>4, <3>5
  <2> QED BY <2>1, <2>2 DEF Retries!Next
<1>3. Limit => Retries!GivenUpAtTheLimit
  BY DEF Retries!GivenUpAtTheLimit
<1> HIDE DEF Limit
<1> QED BY <1>1, <1>2, <1>3, PTL DEF RetriesJobs, Retries!Spec
===============================================================================
