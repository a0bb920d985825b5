------------------------------ MODULE OrderRules ------------------------------
(***************************************************************************)
(* The status vocabularies of orders, payments and shipments and the two   *)
(* transition tables every handler consults before it writes a status.     *)
(* Pure definitions: no state.                                             *)
(***************************************************************************)

OrderStatus ==
  {"CREATED", "WAITING_PAYMENT", "PAYMENT_APPROVED", "PAYMENT_FAILED",
   "PROCESSING", "SHIPPED", "DELIVERED", "CANCELED", "REFUNDED"}

PaymentStatus ==
  {"CREATED", "PENDING", "AUTHORIZED", "APPROVED", "FAILED", "CANCELED",
   "EXPIRED", "REFUNDED"}

ShipmentStatus ==
  {"PENDING", "READY_TO_SHIP", "SHIPPED", "DELIVERED", "CANCELED", "RETURNED"}

\* The statuses a store operator may ask for on the dashboard.
OperationalOrderStatuses == {"PROCESSING", "SHIPPED", "DELIVERED", "CANCELED"}

\* Orders that hold no stock any more.
ClosedOrderStatuses == {"CANCELED", "REFUNDED"}

OrderStatusTransitions ==
  [CREATED          |-> {"WAITING_PAYMENT", "CANCELED"},
   WAITING_PAYMENT  |-> {"PAYMENT_APPROVED", "PAYMENT_FAILED", "CANCELED"},
   PAYMENT_APPROVED |-> {"PROCESSING", "REFUNDED", "CANCELED"},
   PAYMENT_FAILED   |-> {"WAITING_PAYMENT", "CANCELED"},
   PROCESSING       |-> {"SHIPPED", "CANCELED", "REFUNDED"},
   SHIPPED          |-> {"DELIVERED", "REFUNDED"},
   DELIVERED        |-> {"REFUNDED"},
   CANCELED         |-> {},
   REFUNDED         |-> {}]

PaymentStatusTransitions ==
  [CREATED    |-> {"PENDING", "CANCELED", "EXPIRED", "FAILED"},
   PENDING    |-> {"AUTHORIZED", "APPROVED", "FAILED", "CANCELED", "EXPIRED"},
   AUTHORIZED |-> {"APPROVED", "CANCELED", "REFUNDED"},
   APPROVED   |-> {"REFUNDED"},
   FAILED     |-> {"PENDING", "CANCELED", "EXPIRED"},
   CANCELED   |-> {"PENDING"},
   EXPIRED    |-> {"PENDING"},
   REFUNDED   |-> {}]

\* Mutant: the table is not consulted.
AnyOrderTransition(from, to) == TRUE

\* Writing the status a row already has is always allowed.
CanTransitionOrder(from, to) == from = to \/ to \in OrderStatusTransitions[from]

CanTransitionPayment(from, to) ==
  from = to \/ to \in PaymentStatusTransitions[from]

\* A customer may start (or restart) a payment for these orders only.
IsOrderPayable(status) ==
  status \in {"CREATED", "WAITING_PAYMENT", "PAYMENT_FAILED"}

\* The gateway events the webhook worker can act on; "abandoned" is
\* payment_intent.canceled with cancellation_reason "abandoned".
SupportedEvents == {"succeeded", "failed", "canceled", "abandoned", "refunded"}

\* "other" stands for every type the worker refuses.
EventTypes == SupportedEvents \cup {"other"}

\* What a supported event does to its payment and to its order.
WebhookPaymentStatus ==
  [succeeded |-> "APPROVED", failed |-> "FAILED", canceled |-> "CANCELED",
   abandoned |-> "EXPIRED", refunded |-> "REFUNDED"]

WebhookOrderStatus ==
  [succeeded |-> "PAYMENT_APPROVED", failed |-> "PAYMENT_FAILED",
   canceled |-> "PAYMENT_FAILED", abandoned |-> "PAYMENT_FAILED",
   refunded |-> "REFUNDED"]

\* Payment outcomes the customer and the store are written to about.
NotifiedPaymentStatuses == {"APPROVED", "FAILED", "EXPIRED", "REFUNDED"}

\* Mutants: a cancellation forgets the stock; the status read is not looked at.
RestoresOnRefundOnly(seen, to) == to = "REFUNDED" /\ seen \notin ClosedOrderStatuses

RestoresAgain(seen, to) == to \in ClosedOrderStatuses

\* A status write puts stock back exactly when it closes an order that, as
\* far as the handler has read, was still open.
RestoresStock(seen, to) ==
  to \in ClosedOrderStatuses /\ seen \notin ClosedOrderStatuses

\* The timestamp columns a status write fills. No handler ever clears one.
Stamps ==
  {"approvedAt", "canceledAt", "refundedAt", "shippedAt", "deliveredAt"}

StampsOf(to) ==
  CASE to = "PAYMENT_APPROVED" -> {"approvedAt"}
    [] to = "CANCELED"         -> {"canceledAt"}
    [] to = "REFUNDED"         -> {"refundedAt"}
    [] to = "SHIPPED"          -> {"shippedAt"}
    [] to = "DELIVERED"        -> {"deliveredAt"}
    [] OTHER                   -> {}

\* Mutant: the order's status is copied.
ShipmentCopiesOrder(seen, to) == to

\* The shipment row's next status when the dashboard moves its order to to;
\* seen is the shipment status read with the order.
ShipmentAfter(seen, to) ==
  CASE to = "PROCESSING" -> IF seen = "PENDING" THEN "READY_TO_SHIP" ELSE seen
    [] OTHER             -> to
===============================================================================
