-------------------------- MODULE SerialOrderProofs --------------------------
(***************************************************************************)
(* What the handlers would guarantee if no two of them were between        *)
(* reading a status and writing over it at once, for any number of actors  *)
(* and attempts: the transition tables are followed, stock is put back     *)
(* exactly once, and a capture is not forgotten. The argument is that the  *)
(* status an open window has read is still the row's.                      *)
(***************************************************************************)
EXTENDS WebhookJobsProofs

USE ConstantsAssumption

\* The order is shown as paid for, or closed.
Shown == order.status \notin {"CREATED", "WAITING_PAYMENT", "PAYMENT_FAILED"}

\* An open window goes by the row's present status.
IntentFresh(i) ==
  /\ IntentAt(i, "writePayment") =>
       /\ intent[i].seen = payment[intent[i].payment].status
       /\ CanTransitionPayment(intent[i].seen, "PENDING")
  /\ IntentAt(i, "writeOrder") => intent[i].seen = order.status
  /\ intent[i].pc \in {"idle", "create"} => payment[i].status = "NONE"

RunFresh(r) ==
  /\ RunAt(r, "writePayment") =>
       /\ run[r].seen = payment[Row(r).payment].status
       /\ CanTransitionPayment(run[r].seen, PaymentTarget(r))
  /\ RunAt(r, "writeOrder") => run[r].seen = order.status
  /\ run[r].pc \in {"auditOrder", "record"} /\ Row(r).type = "succeeded" => Shown

RequestFresh(d) == RequestAt(d, "writeOrder") => request[d].seen = order.status

SerialOK ==
  /\ OneWindow
  /\ \A i \in Intents : IntentFresh(i)
  /\ \A r \in Runs : RunFresh(r)
  /\ \A d \in Requests : RequestFresh(d)
  /\ StockMatchesStatus
  /\ \A i \in Intents : payment[i].paid => payment[i].status \in {"APPROVED", "REFUNDED"}
  /\ \A e \in Events : RecordsOf(e) # {} /\ event[e].type = "succeeded" => Shown

\* Both tables are followed by the step.
FollowsTables ==
  /\ CanTransitionOrder(order.status, order'.status)
  /\ \A i \in Intents : payment[i].status # "NONE" =>
       CanTransitionPayment(payment[i].status, payment'[i].status)

-------------------------------------------------------------------------------
(* Windows and the rows they write.                                        *)

IntentWindow(i) == intent[i].pc \in {"writePayment", "writeOrder"}

RunWindow(r) == run[r].pc \in {"writePayment", "writeOrder"}

RequestWindow(d) == RequestAt(d, "writeOrder")

\* Whose window is open, all others' are closed.
LEMMA OthersAreClosed ==
  ASSUME OneWindow
  PROVE  /\ \A i \in Intents : IntentWindow(i) =>
              /\ \A j \in Intents \ {i} : ~IntentWindow(j)
              /\ \A r \in Runs : ~RunWindow(r)
              /\ \A d \in Requests : ~RequestWindow(d)
         /\ \A r \in Runs : RunWindow(r) =>
              /\ \A i \in Intents : ~IntentWindow(i)
              /\ \A q \in Runs \ {r} : ~RunWindow(q)
              /\ \A d \in Requests : ~RequestWindow(d)
         /\ \A d \in Requests : RequestWindow(d) =>
              /\ \A i \in Intents : ~IntentWindow(i)
              /\ \A r \in Runs : ~RunWindow(r)
              /\ \A c \in Requests \ {d} : ~RequestWindow(c)
<1>1. /\ \A i \in Intents : IntentWindow(i) => <<"intent", i>> \in Windows
      /\ \A r \in Runs : RunWindow(r) => <<"webhook", r>> \in Windows
      /\ \A d \in Requests : RequestWindow(d) => <<"dashboard", d>> \in Windows
  BY DEF Windows, IntentWindow, RunWindow, RequestWindow, RequestAt
<1>2. \A v, w \in Windows : v = w
  BY DEF OneWindow
<1>3. ASSUME NEW i \in Intents, IntentWindow(i)
      PROVE  /\ \A j \in Intents \ {i} : ~IntentWindow(j)
             /\ \A r \in Runs : ~RunWindow(r)
             /\ \A d \in Requests : ~RequestWindow(d)
  <2>1. \A w \in Windows : w = <<"intent", i>>
    BY <1>1, <1>2, <1>3
  <2>2. \A j \in Intents : IntentWindow(j) => <<"intent", j>> = <<"intent", i>>
    BY <1>1, <2>1
  <2>3. \A q \in Runs : RunWindow(q) => <<"webhook", q>> = <<"intent", i>>
    BY <1>1, <2>1
  <2>4. \A c \in Requests : RequestWindow(c) => <<"dashboard", c>> = <<"intent", i>>
    BY <1>1, <2>1
  <2> QED
    BY <2>2, <2>3, <2>4
<1>4. ASSUME NEW r \in Runs, RunWindow(r)
      PROVE  /\ \A i \in Intents : ~IntentWindow(i)
             /\ \A q \in Runs \ {r} : ~RunWindow(q)
             /\ \A d \in Requests : ~RequestWindow(d)
  <2>1. \A w \in Windows : w = <<"webhook", r>>
    BY <1>1, <1>2, <1>4
  <2>2. \A j \in Intents : IntentWindow(j) => <<"intent", j>> = <<"webhook", r>>
    BY <1>1, <2>1
  <2>3. \A q \in Runs : RunWindow(q) => <<"webhook", q>> = <<"webhook", r>>
    BY <1>1, <2>1
  <2>4. \A c \in Requests : RequestWindow(c) => <<"dashboard", c>> = <<"webhook", r>>
    BY <1>1, <2>1
  <2> QED
    BY <2>2, <2>3, <2>4
<1>5. ASSUME NEW d \in Requests, RequestWindow(d)
      PROVE  /\ \A i \in Intents : ~IntentWindow(i)
             /\ \A r \in Runs : ~RunWindow(r)
             /\ \A c \in Requests \ {d} : ~RequestWindow(c)
  <2>1. \A w \in Windows : w = <<"dashboard", d>>
    BY <1>1, <1>2, <1>5
  <2>2. \A j \in Intents : IntentWindow(j) => <<"intent", j>> = <<"dashboard", d>>
    BY <1>1, <2>1
  <2>3. \A q \in Runs : RunWindow(q) => <<"webhook", q>> = <<"dashboard", d>>
    BY <1>1, <2>1
  <2>4. \A c \in Requests : RequestWindow(c) => <<"dashboard", c>> = <<"dashboard", d>>
    BY <1>1, <2>1
  <2> QED
    BY <2>2, <2>3, <2>4
<1> QED
  BY <1>3, <1>4, <1>5

\* A write over the order's present status keeps to the table, does not
\* unshow what was shown, and puts stock back when it closes the order.
LEMMA FreshOrderWrite ==
  ASSUME TypeOK, StockMatchesStatus, NEW to \in OrderStatus,
         NEW linked \in Intents \cup {NoPayment},
         CanTransitionOrder(order.status, to), WriteOrder(order.status, to, linked)
  PROVE  /\ order'.status = to
         /\ StockMatchesStatus'
         /\ Shown => Shown'
<1>1. order'.status = to /\ order.status \in OrderStatus
  BY OrderWritten DEF TypeOK
<1>2. Shown => to \notin {"CREATED", "WAITING_PAYMENT", "PAYMENT_FAILED"}
  BY <1>1 DEF Shown, CanTransitionOrder, OrderStatusTransitions, OrderStatus
<1>3. order.status \in ClosedOrderStatuses => to = order.status
  BY DEF CanTransitionOrder, OrderStatusTransitions, ClosedOrderStatuses
<1>4. restored' = restored + (IF RestoresStock(order.status, to) THEN 1 ELSE 0)
  BY DEF WriteOrder
<1>5. StockMatchesStatus'
  BY <1>1, <1>3, <1>4 DEF StockMatchesStatus, RestoresStock
<1> QED
  BY <1>1, <1>2, <1>5 DEF Shown

\* What a captured payment shows.
PaidShown == \A i \in Intents : payment[i].paid => payment[i].status \in {"APPROVED", "REFUNDED"}

\* A write over a payment's present status keeps to the table and to what
\* was captured.
LEMMA FreshPaymentWrite ==
  ASSUME TypeOK, PaidShown, NEW p \in Intents, NEW to \in PaymentStatus, NEW attempts \in Nat,
         payment[p].status \in PaymentStatus, CanTransitionPayment(payment[p].status, to),
         WritePayment(p, to, attempts)
  PROVE  /\ PaidShown'
         /\ payment'[p].status = to
         /\ \A i \in Intents \ {p} : payment'[i] = payment[i]
         /\ \A i \in Intents : payment[i].status # "NONE" =>
              CanTransitionPayment(payment[i].status, payment'[i].status)
<1>1. /\ payment'[p].status = to
      /\ payment'[p].paid = (payment[p].paid \/ to = "APPROVED")
      /\ \A i \in Intents \ {p} : payment'[i] = payment[i]
  BY PaymentWritten
<1>2. payment[p].paid => to \in {"APPROVED", "REFUNDED"}
  BY DEF PaidShown, CanTransitionPayment, PaymentStatusTransitions, PaymentStatus
<1>3. PaidShown'
  BY <1>1, <1>2 DEF PaidShown
<1>4. \A i \in Intents : payment[i].status # "NONE" =>
              CanTransitionPayment(payment[i].status, payment'[i].status)
  BY <1>1 DEF CanTransitionPayment
<1> QED
  BY <1>1, <1>3, <1>4

\* The row a window is about stays as it was read, or the window is closed.
LEMMA IntentStays ==
  ASSUME NEW i \in Intents, IntentFresh(i), intent'[i] = intent[i],
         IntentWindow(i) =>
           /\ order'.status = order.status
           /\ payment'[intent[i].payment].status = payment[intent[i].payment].status,
         payment[i].status = "NONE" /\ intent[i].pc \in {"idle", "create"} =>
           payment'[i].status = "NONE"
  PROVE  IntentFresh(i)'
  BY DEF IntentFresh, IntentAt, IntentWindow

\* A job's execution keeps what it read while nobody writes in its window.
LEMMA RunStays ==
  ASSUME NEW r \in Runs, IInv, Grown, RunFresh(r), run'[r] = run[r],
         RunWindow(r) =>
           /\ order'.status = order.status
           /\ payment'[Row(r).payment].status = payment[Row(r).payment].status,
         Shown => Shown'
  PROVE  RunFresh(r)'
<1>1. CASE RunAt(r, "idle")
  BY <1>1 DEF RunFresh, RunAt
<1>2. CASE ~RunAt(r, "idle")
  <2>1. Row(r).status # "NONE"
    BY <1>2, RunFacts
  <2>2. /\ Row(r)'.type = Row(r).type /\ Row(r)'.payment = Row(r).payment
        /\ PaymentTarget(r)' = PaymentTarget(r)
    BY <2>1, RunsPair DEF Grown, Row, PaymentTarget
  <2> QED
    BY <2>2 DEF RunFresh, RunAt, RunWindow
<1> QED
  BY <1>1, <1>2

\* And so does a request of the dashboard.
LEMMA RequestStays ==
  ASSUME NEW d \in Requests, RequestFresh(d), request'[d] = request[d],
         RequestWindow(d) => order'.status = order.status
  PROVE  RequestFresh(d)'
  BY DEF RequestFresh, RequestAt, RequestWindow

\* No record of a paid event is new, unless the order shows it.
RecordsShown ==
  \A e \in Events :
    RecordsOf(e)' # {} /\ event'[e].type = "succeeded" =>
      (RecordsOf(e) # {} /\ event[e].type = "succeeded") \/ Shown

\* A step that writes no status keeps every window fresh but the mover's,
\* which is given.
LEMMA QuietStep ==
  ASSUME IInv, SerialOK, Grown, OneWindow', RecordsShown,
         order'.status = order.status, UNCHANGED <<restored, payment>>,
         \A i \in Intents : intent'[i] = intent[i] \/ IntentFresh(i)',
         \A r \in Runs : run'[r] = run[r] \/ RunFresh(r)',
         \A d \in Requests : request'[d] = request[d] \/ RequestFresh(d)'
  PROVE  SerialOK' /\ FollowsTables
<1>1. Shown' <=> Shown
  BY DEF Shown
<1>2. \A i \in Intents : IntentFresh(i)'
  BY IntentStays DEF SerialOK
<1>3. \A r \in Runs : RunFresh(r)'
  BY <1>1, RunStays DEF SerialOK
<1>4. \A d \in Requests : RequestFresh(d)'
  BY RequestStays DEF SerialOK
<1>5. StockMatchesStatus'
  BY DEF SerialOK, StockMatchesStatus
<1>6. \A e \in Events : RecordsOf(e)' # {} /\ event'[e].type = "succeeded" => Shown'
  BY <1>1 DEF RecordsShown, SerialOK
<1>7. FollowsTables
  BY DEF FollowsTables, CanTransitionOrder, CanTransitionPayment
<1> QED
  BY <1>2, <1>3, <1>4, <1>5, <1>6, <1>7 DEF SerialOK

\* A write of the order's status, by the one whose window was open.
LEMMA OrderWriteStep ==
  ASSUME IInv, SerialOK, Grown, OneWindow', NEW to \in OrderStatus,
         NEW linked \in Intents \cup {NoPayment},
         CanTransitionOrder(order.status, to), WriteOrder(order.status, to, linked),
         UNCHANGED <<payment, event, transactions>>,
         \A i \in Intents : (intent'[i] = intent[i] /\ ~IntentWindow(i)) \/ IntentFresh(i)',
         \A r \in Runs : (run'[r] = run[r] /\ ~RunWindow(r)) \/ RunFresh(r)',
         \A d \in Requests : (request'[d] = request[d] /\ ~RequestWindow(d)) \/ RequestFresh(d)'
  PROVE  SerialOK' /\ FollowsTables
<1>1. /\ order'.status = to
      /\ StockMatchesStatus'
      /\ Shown => Shown'
  BY FreshOrderWrite DEF IInv, SerialOK
<1>2. \A i \in Intents : IntentFresh(i)'
  BY IntentStays DEF SerialOK
<1>3. \A r \in Runs : RunFresh(r)'
  BY <1>1, RunStays DEF SerialOK
<1>4. \A d \in Requests : RequestFresh(d)'
  BY RequestStays DEF SerialOK
<1>5. \A e \in Events : RecordsOf(e)' # {} /\ event'[e].type = "succeeded" => Shown'
  BY <1>1 DEF RecordsOf, SerialOK
<1>6. FollowsTables
  BY <1>1 DEF FollowsTables, CanTransitionPayment
<1> QED
  BY <1>1, <1>2, <1>3, <1>4, <1>5, <1>6 DEF SerialOK

\* A write of a payment's status, by the one whose window was open.
LEMMA PaymentWriteStep ==
  ASSUME IInv, SerialOK, Grown, OneWindow', NEW p \in Intents, NEW to \in PaymentStatus,
         NEW attempts \in Nat, payment[p].status \in PaymentStatus,
         CanTransitionPayment(payment[p].status, to), WritePayment(p, to, attempts),
         UNCHANGED <<order, restored, event, transactions>>,
         \A i \in Intents : (intent'[i] = intent[i] /\ ~IntentWindow(i)) \/ IntentFresh(i)',
         \A r \in Runs : (run'[r] = run[r] /\ ~RunWindow(r)) \/ RunFresh(r)',
         \A d \in Requests : (request'[d] = request[d] /\ ~RequestWindow(d)) \/ RequestFresh(d)'
  PROVE  SerialOK' /\ FollowsTables
<1>1. /\ PaidShown'
      /\ \A i \in Intents \ {p} : payment'[i] = payment[i]
      /\ \A i \in Intents : payment[i].status # "NONE" =>
              CanTransitionPayment(payment[i].status, payment'[i].status)
  BY FreshPaymentWrite DEF IInv, SerialOK, PaidShown
<1>2. Shown' <=> Shown
  BY DEF Shown
<1>3. \A i \in Intents : payment[i].status = "NONE" => payment'[i].status = "NONE"
  BY <1>1 DEF PaymentStatus
<1>4. \A i \in Intents : IntentFresh(i)'
  BY <1>3, IntentStays DEF SerialOK
<1>5. \A r \in Runs : RunFresh(r)'
  BY <1>2, RunStays DEF SerialOK
<1>6. \A d \in Requests : RequestFresh(d)'
  BY RequestStays DEF SerialOK
<1>7. \A e \in Events : RecordsOf(e)' # {} /\ event'[e].type = "succeeded" => Shown'
  BY <1>2 DEF RecordsOf, SerialOK
<1>8. FollowsTables
  BY <1>1 DEF FollowsTables, CanTransitionOrder
<1>9. StockMatchesStatus'
  BY DEF SerialOK, StockMatchesStatus
<1> QED
  BY <1>1, <1>4, <1>5, <1>6, <1>7, <1>8, <1>9 DEF SerialOK, PaidShown

-------------------------------------------------------------------------------
(* The actors.                                                             *)

\* With one window open at a time, an intent request writes what it read.
LEMMA IntentStepSerial ==
  ASSUME IInv, SerialOK, Grown, OneWindow', NEW i \in Intents, IntentStep(i)
  PROVE  SerialOK' /\ FollowsTables
<1> DEFINE p == intent[i].payment
<1>0. /\ TypeOK /\ "CREATED" \in Statuses /\ intent[i].seen \in Statuses
      /\ intent[i] \in IntentRow /\ p \in Intents
      /\ "WAITING_PAYMENT" \in OrderStatus /\ "PENDING" \in PaymentStatus
      /\ IntentFresh(i)
      /\ ~IntentAt(i, "idle") /\ ~IntentAt(i, "create") => payment[p].status \in PaymentStatus
  BY DEF IInv, TypeOK, IntentRow, PaymentRow, RefsOK, Statuses, PaymentStatus, OrderStatus, SerialOK
\* The others go on as they were.
<1>1. ASSUME NEW pc, NEW seen, IntentReads(i, pc, seen)
      PROVE  /\ intent'[i].pc = pc /\ intent'[i].seen = seen /\ intent'[i].payment = p
             /\ \A j \in Intents \ {i} : intent'[j] = intent[j]
  BY <1>0, <1>1 DEF IntentReads, TypeOK, IntentRow
<1>2. ASSUME NEW pc, NEW seen, IntentReads(i, pc, seen),
             order'.status = order.status, UNCHANGED <<restored, payment, event, run, request>>,
             \/ UNCHANGED transactions
             \/ \E t : t.kind = "INTENT" /\ transactions' = transactions \cup {t},
             pc = "create" => IntentAt(i, "idle"), pc # "idle",
             pc = "writePayment" =>
               seen = payment[p].status /\ CanTransitionPayment(seen, "PENDING"),
             pc = "writeOrder" => seen = order.status
      PROVE  SerialOK' /\ FollowsTables
  <2>1. /\ intent'[i].pc = pc /\ intent'[i].seen = seen /\ intent'[i].payment = p
        /\ \A j \in Intents \ {i} : intent'[j] = intent[j]
    BY <1>1, <1>2
  <2>2. IntentFresh(i)'
    BY <1>0, <1>2, <2>1 DEF IntentFresh, IntentAt
  <2>3. RecordsShown
    BY <1>2 DEF RecordsShown, RecordsOf
  <2> QED
    BY <1>2, <2>1, <2>2, <2>3, QuietStep
<1>3. CASE ReadPayableOrder(i)
  <2>1. UNCHANGED <<order, restored, payment, event, run, request, transactions>>
    BY <1>3 DEF ReadPayableOrder
  <2>2. CASE IntentGoes(i, "create")
    BY <1>2, <1>3, <2>1, <2>2 DEF ReadPayableOrder, IntentGoes
  <2>3. CASE order.payment # NoPayment
    <3>1. /\ intent'[i].pc = "gateway"
          /\ \A j \in Intents \ {i} : intent'[j] = intent[j]
      <4> DEFINE row == [intent[i] EXCEPT !.pc = "gateway", !.payment = order.payment,
                                          !.base = payment[order.payment].attempts]
      <4>1. row.pc = "gateway" /\ intent' = [intent EXCEPT ![i] = row]
        BY <1>0, <1>3, <2>3 DEF ReadPayableOrder, IntentRow
      <4> HIDE DEF row
      <4> QED
        BY <1>0, <4>1 DEF TypeOK
    <3>2. IntentFresh(i)'
      BY <3>1 DEF IntentFresh, IntentAt
    <3>3. RecordsShown
      BY <2>1 DEF RecordsShown, RecordsOf
    <3> QED
      BY <2>1, <3>1, <3>2, <3>3, QuietStep
  <2> QED
    BY <1>3, <2>2, <2>3 DEF ReadPayableOrder
<1>4. CASE CreatePayment(i)
  <2>1. /\ IntentReads(i, "link", "CREATED") /\ IntentAt(i, "create")
        /\ UNCHANGED <<order, restored, event, run, request, transactions>>
        /\ payment' = [payment EXCEPT ![i].status = "CREATED"]
    BY <1>4 DEF CreatePayment, IntentGoes
  <2>2. payment[i].status = "NONE"
    BY <1>0, <2>1 DEF IntentFresh, IntentAt
  <2>3. /\ \A j \in Intents \ {i} : payment'[j] = payment[j]
        /\ payment'[i].paid = payment[i].paid
    BY <1>0, <2>1 DEF TypeOK, PaymentRow
  <2>4. ~payment[i].paid
    BY <2>2 DEF SerialOK
  <2>5. PaidShown' /\ StockMatchesStatus' /\ Shown' = Shown
    BY <2>1, <2>3, <2>4 DEF PaidShown, SerialOK, StockMatchesStatus, Shown
  <2>6. \A j \in Intents : IntentFresh(j)'
    <3>1. ASSUME NEW j \in Intents \ {i} PROVE IntentFresh(j)'
      <4>1. IntentWindow(j) => intent[j].payment \in Intents \ {i}
        BY <1>0, <2>2 DEF IntentWindow, IInv, RefsOK, IntentAt, TypeOK, IntentRow
      <4> QED
        BY <1>1, <2>1, <2>3, <4>1, IntentStays DEF SerialOK
    <3>2. IntentFresh(i)'
      BY <1>1, <2>1 DEF IntentFresh, IntentAt
    <3> QED
      BY <3>1, <3>2
  <2>7. ASSUME NEW r \in Runs PROVE RunFresh(r)'
    <3>1. RunWindow(r) => Row(r).payment \in Intents \ {i}
      <4>1. RunWindow(r) => Row(r).payment \in Intents /\ payment[Row(r).payment].status \in PaymentStatus
        BY RunFacts DEF RunWindow, RunAt
      <4> QED
        BY <2>2, <4>1 DEF PaymentStatus
    <3> QED
      BY <2>1, <2>3, <2>5, <3>1, RunStays DEF SerialOK
  <2>8. \A d \in Requests : RequestFresh(d)'
    BY <2>1, RequestStays DEF SerialOK
  <2>9. \A e \in Events : RecordsOf(e)' # {} /\ event'[e].type = "succeeded" => Shown'
    BY <2>1, <2>5 DEF RecordsOf, SerialOK
  <2>10. FollowsTables
    BY <2>1, <2>2, <2>3 DEF FollowsTables, CanTransitionOrder, CanTransitionPayment
  <2> QED
    BY <2>5, <2>6, <2>7, <2>8, <2>9, <2>10 DEF SerialOK, PaidShown
<1>5. CASE LinkPayment(i)
  <2>1. order'.status = order.status
    BY <1>0, <1>5 DEF LinkPayment, TypeOK
  <2> QED
    BY <1>2, <1>5, <2>1 DEF LinkPayment, IntentGoes
<1>6. CASE OpenIntent(i)
  BY <1>2, <1>6 DEF OpenIntent, IntentGoes
<1>7. CASE IntentReadsPayment(i)
  <2>1. UNCHANGED <<order, restored, payment, event, run, request, transactions>>
    BY <1>7 DEF IntentReadsPayment
  <2>2. CASE /\ CanTransitionPayment(payment[p].status, "PENDING")
             /\ IntentReads(i, "writePayment", payment[p].status)
    BY <1>2, <2>1, <2>2
  <2>3. CASE IntentReads(i, "refused", "CREATED")
    BY <1>2, <2>1, <2>3
  <2> QED
    BY <1>7, <2>2, <2>3 DEF IntentReadsPayment, IntentGoes
<1>8. CASE IntentWritesPayment(i)
  <2>1. /\ IntentReads(i, "auditPayment", intent[i].seen) /\ IntentAt(i, "writePayment")
        /\ WritePayment(p, "PENDING", intent[i].base + 1)
        /\ UNCHANGED <<order, restored, event, run, request, transactions>>
    BY <1>8 DEF IntentWritesPayment
  <2>2. CanTransitionPayment(payment[p].status, "PENDING") /\ payment[p].status \in PaymentStatus
    BY <1>0, <2>1 DEF IntentFresh, IntentAt
  <2>3. intent[i].base + 1 \in Nat
    BY <1>0 DEF IntentRow
  <2>4. IntentWindow(i)
    BY <2>1 DEF IntentWindow, IntentAt
  <2>5. IntentFresh(i)' /\ \A j \in Intents \ {i} : intent'[j] = intent[j]
    BY <1>1, <2>1 DEF IntentFresh, IntentAt
  <2>6. /\ \A j \in Intents \ {i} : ~IntentWindow(j)
        /\ \A r \in Runs : ~RunWindow(r)
        /\ \A d \in Requests : ~RequestWindow(d)
    BY <2>4, OthersAreClosed DEF SerialOK
  <2> HIDE DEF p
  <2> QED
    BY <1>0, <2>1, <2>2, <2>3, <2>5, <2>6, PaymentWriteStep
<1>9. CASE IntentAuditsPayment(i)
  BY <1>2, <1>9 DEF IntentAuditsPayment, IntentGoes
<1>10. CASE IntentRecords(i)
  <2> DEFINE t == [kind |-> "INTENT", payment |-> intent[i].payment, by |-> <<"intent", i>>]
  <2>1. t.kind = "INTENT" /\ transactions' = transactions \cup {t}
    BY <1>10 DEF IntentRecords
  <2> HIDE DEF t
  <2> QED
    BY <1>2, <1>10, <2>1 DEF IntentRecords, IntentGoes
<1>11. CASE IntentReadsOrder(i)
  <2>1. UNCHANGED <<order, restored, payment, event, run, request, transactions>>
    BY <1>11 DEF IntentReadsOrder
  <2>2. CASE IntentReads(i, "writeOrder", order.status)
    BY <1>2, <2>1, <2>2
  <2>3. CASE IntentReads(i, "refused", "CREATED")
    BY <1>2, <2>1, <2>3
  <2> QED
    BY <1>11, <2>2, <2>3 DEF IntentReadsOrder, IntentGoes
<1>12. CASE IntentWritesOrder(i)
  <2>1. /\ IntentReads(i, "auditOrder", intent[i].seen) /\ IntentAt(i, "writeOrder")
        /\ WriteOrder(intent[i].seen, "WAITING_PAYMENT", p)
        /\ UNCHANGED <<payment, event, run, request, transactions>>
    BY <1>12 DEF IntentWritesOrder
  <2>2. intent[i].seen = order.status /\ CanTransitionOrder(order.status, "WAITING_PAYMENT")
    BY <1>0, <2>1 DEF IntentFresh, IInv, OrderOK, WindowOK
  <2>3. IntentWindow(i)
    BY <2>1 DEF IntentWindow, IntentAt
  <2>4. IntentFresh(i)' /\ \A j \in Intents \ {i} : intent'[j] = intent[j]
    BY <1>1, <2>1 DEF IntentFresh, IntentAt
  <2>5. /\ \A j \in Intents \ {i} : ~IntentWindow(j)
        /\ \A r \in Runs : ~RunWindow(r)
        /\ \A d \in Requests : ~RequestWindow(d)
    BY <2>3, OthersAreClosed DEF SerialOK
  <2>6. WriteOrder(order.status, "WAITING_PAYMENT", p) /\ p \in Intents \cup {NoPayment}
    BY <1>0, <2>1, <2>2
  <2> HIDE DEF p
  <2> QED
    BY <1>0, <2>1, <2>2, <2>4, <2>5, <2>6, OrderWriteStep
<1>13. CASE IntentAuditsOrder(i)
  BY <1>2, <1>13 DEF IntentAuditsOrder, IntentGoes
<1> QED
  BY <1>3, <1>4, <1>5, <1>6, <1>7, <1>8, <1>9, <1>10, <1>11, <1>12, <1>13 DEF IntentStep

\* An event with a record has arrived, and stays what it is about.
LEMMA RecordedArrived ==
  ASSUME IInv, AppliedOK, NEW e \in Events, RecordsOf(e) # {}
  PROVE  event[e].status # "NONE"
<1>1. PICK t \in transactions : t.kind = "WEBHOOK" /\ t.by[2][1] = e
  BY DEF RecordsOf
<1>2. PICK r \in Runs : t.by = <<"webhook", r>>
  BY <1>1 DEF AppliedOK
<1>3. r[1] = e
  BY <1>1, <1>2
<1> QED
  BY <1>2, <1>3 DEF AppliedOK, RecordBacked, Row

\* No step but a job's adds a record.
LEMMA RecordsStayShown ==
  ASSUME IInv, AppliedOK, Grown, transactions' = transactions
  PROVE  RecordsShown
<1> SUFFICES ASSUME NEW e \in Events, RecordsOf(e)' # {}, event'[e].type = "succeeded"
             PROVE  RecordsOf(e) # {} /\ event[e].type = "succeeded"
  BY DEF RecordsShown
<1>1. RecordsOf(e) # {}
  BY DEF RecordsOf
<1> QED
  BY <1>1, RecordedArrived DEF Grown

\* With one window open at a time, a webhook job writes along the tables.
LEMMA RunStepSerial ==
  ASSUME IInv, AppliedOK, SerialOK, Grown, OneWindow', NEW r \in Runs,
         RunStep(r) \/ TimeOut(r) \/ StatementFails(r)
  PROVE  SerialOK' /\ FollowsTables
<1> DEFINE p == Row(r).payment
<1>0. /\ TypeOK /\ p \in Intents /\ r[1] \in Events
      /\ RunFresh(r)
      /\ run[r].pc \in Resolved =>
           /\ payment[p].status \in PaymentStatus
           /\ Row(r).type \in SupportedEvents
           /\ PaymentTarget(r) \in PaymentStatus
           /\ OrderTarget(r) \in OrderStatus
  BY RunFacts, RunsPair DEF SerialOK, Resolved, RunAt
<1>1. ASSUME NEW pc, NEW seen, RunReads(r, pc, seen)
      PROVE  /\ run'[r].pc = pc /\ run'[r].seen = seen
             /\ \A q \in Runs \ {r} : run'[q] = run[q]
  BY <1>0, <1>1 DEF RunReads, TypeOK
\* The execution moves on, its row about what it was.
<1>2. ASSUME NEW pc, NEW seen, RunReads(r, pc, seen),
             UNCHANGED <<order, restored, payment, intent, request>>, RecordsShown,
             pc = "writePayment" =>
               /\ ~RunAt(r, "idle") /\ seen = payment[p].status
               /\ CanTransitionPayment(seen, PaymentTarget(r)),
             pc = "writeOrder" => seen = order.status,
             pc = "record" => RunAt(r, "auditOrder"), pc # "auditOrder"
      PROVE  SerialOK' /\ FollowsTables
  <2>1. /\ run'[r].pc = pc /\ run'[r].seen = seen
        /\ \A q \in Runs \ {r} : run'[q] = run[q]
    BY <1>1, <1>2
  <2>2. ~RunAt(r, "idle") =>
          /\ Row(r)'.type = Row(r).type /\ Row(r)'.payment = p
          /\ PaymentTarget(r)' = PaymentTarget(r)
    BY <1>0, RunFacts DEF Grown, Row, PaymentTarget
  <2>3. Shown' <=> Shown
    BY <1>2 DEF Shown
  <2>4. RunFresh(r)'
    BY <1>0, <1>2, <2>1, <2>2, <2>3 DEF RunFresh, RunAt
  <2> QED
    BY <1>2, <2>1, <2>4, QuietStep
<1>3. CASE StartAttempt(r)
  BY <1>2, <1>3, RecordsStayShown DEF StartAttempt, RunGoes
<1>4. CASE LoadEvent(r)
  <2>1. PICK pc \in {"done", "mark"} : RunReads(r, pc, "CREATED")
    BY <1>4 DEF LoadEvent, RunGoes
  <2>2. UNCHANGED <<order, restored, payment, intent, request, transactions>>
    BY <1>4 DEF LoadEvent
  <2> QED
    BY <1>2, <2>1, <2>2, RecordsStayShown
<1>5. CASE MarkProcessing(r)
  <2>1. PICK pc \in {"lookup", "catch"} : RunReads(r, pc, "CREATED")
    BY <1>5 DEF MarkProcessing, RunGoes
  <2>2. UNCHANGED <<order, restored, payment, intent, request, transactions>>
    BY <1>5 DEF MarkProcessing
  <2> QED
    BY <1>2, <2>1, <2>2, RecordsStayShown
<1>6. CASE LookupTransaction(r)
  <2>1. PICK pc \in {"skip", "readPayment"} : RunReads(r, pc, "CREATED")
    BY <1>6 DEF LookupTransaction, RunGoes
  <2>2. UNCHANGED <<order, restored, payment, intent, request, transactions>>
    BY <1>6 DEF LookupTransaction
  <2> QED
    BY <1>2, <2>1, <2>2, RecordsStayShown
<1>7. CASE RunReadsPayment(r)
  <2>1. UNCHANGED <<order, restored, payment, intent, request, transactions>> /\ ~RunAt(r, "idle")
    BY <1>7 DEF RunReadsPayment, RunAt
  <2>2. CASE /\ CanTransitionPayment(payment[p].status, PaymentTarget(r))
             /\ RunReads(r, "writePayment", payment[p].status)
    BY <1>2, <2>1, <2>2, RecordsStayShown
  <2>3. CASE RunReads(r, "catch", "CREATED")
    BY <1>2, <2>1, <2>3, RecordsStayShown
  <2> QED
    BY <1>7, <2>2, <2>3 DEF RunReadsPayment, RunGoes
<1>8. CASE RunWritesPayment(r)
  <2>1. /\ RunReads(r, "auditPayment", run[r].seen) /\ RunAt(r, "writePayment")
        /\ WritePayment(p, PaymentTarget(r), payment[p].attempts)
        /\ UNCHANGED <<order, restored, event, intent, request, transactions>>
    BY <1>8 DEF RunWritesPayment
  <2>2. /\ CanTransitionPayment(payment[p].status, PaymentTarget(r))
        /\ payment[p].status \in PaymentStatus /\ PaymentTarget(r) \in PaymentStatus
    BY <1>0, <2>1 DEF RunFresh, RunAt, Resolved
  <2>3. payment[p].attempts \in Nat
    BY <1>0 DEF TypeOK, PaymentRow
  <2>4. RunFresh(r)' /\ \A q \in Runs \ {r} : run'[q] = run[q]
    BY <1>1, <2>1 DEF RunFresh, RunAt
  <2>5. /\ \A i \in Intents : ~IntentWindow(i)
        /\ \A q \in Runs \ {r} : ~RunWindow(q)
        /\ \A d \in Requests : ~RequestWindow(d)
    BY <2>1, OthersAreClosed DEF SerialOK, RunWindow, RunAt
  <2> HIDE DEF p
  <2> QED
    BY <1>0, <2>1, <2>2, <2>3, <2>4, <2>5, PaymentWriteStep
<1>9. CASE RunAuditsPayment(r)
  BY <1>2, <1>9, RecordsStayShown DEF RunAuditsPayment, RunGoes
<1>10. CASE RunReadsOrder(r)
  <2>1. UNCHANGED <<order, restored, payment, intent, request, transactions>>
    BY <1>10 DEF RunReadsOrder
  <2>2. CASE RunReads(r, "writeOrder", order.status)
    BY <1>2, <2>1, <2>2, RecordsStayShown
  <2>3. CASE RunReads(r, "catch", "CREATED")
    BY <1>2, <2>1, <2>3, RecordsStayShown
  <2> QED
    BY <1>10, <2>2, <2>3 DEF RunReadsOrder, RunGoes
<1>11. CASE RunWritesOrder(r)
  <2>1. /\ RunReads(r, "auditOrder", run[r].seen) /\ RunAt(r, "writeOrder")
        /\ WriteOrder(run[r].seen, OrderTarget(r), order.payment)
        /\ UNCHANGED <<payment, event, intent, request, transactions>>
    BY <1>11 DEF RunWritesOrder
  <2>2. /\ run[r].seen = order.status /\ OrderTarget(r) \in OrderStatus
        /\ CanTransitionOrder(order.status, OrderTarget(r))
        /\ order.payment \in Intents \cup {NoPayment}
    BY <1>0, <2>1 DEF RunFresh, RunAt, Resolved, IInv, OrderOK, WindowOK, TypeOK
  <2>3. WriteOrder(order.status, OrderTarget(r), order.payment)
    BY <2>1, <2>2
  <2>4. /\ \A i \in Intents : ~IntentWindow(i)
        /\ \A q \in Runs \ {r} : ~RunWindow(q)
        /\ \A d \in Requests : ~RequestWindow(d)
    BY <2>1, OthersAreClosed DEF SerialOK, RunWindow, RunAt
  <2>5. run'[r].pc = "auditOrder" /\ \A q \in Runs \ {r} : run'[q] = run[q]
    BY <1>1, <2>1
  <2>6. RunFresh(r)'
    <3>1. order'.status = OrderTarget(r)
      BY <1>0, <2>2, <2>3, OrderWritten DEF TypeOK
    <3>2. Row(r).type = "succeeded" => OrderTarget(r) = "PAYMENT_APPROVED"
      BY DEF OrderTarget, WebhookOrderStatus
    <3>3. Row(r)' = Row(r)
      BY <2>1 DEF Row
    <3> QED
      BY <2>5, <3>1, <3>2, <3>3 DEF RunFresh, RunAt, Shown
  <2> QED
    BY <1>0, <2>1, <2>2, <2>3, <2>4, <2>5, <2>6, OrderWriteStep
<1>12. CASE RunAuditsOrder(r)
  BY <1>2, <1>12, RecordsStayShown DEF RunAuditsOrder, RunGoes
<1>13. CASE RunRecords(r)
  <2> DEFINE t == [kind |-> "WEBHOOK", payment |-> Row(r).payment, by |-> <<"webhook", r>>]
  <2>1. /\ RunReads(r, "finish", "CREATED") /\ RunAt(r, "record")
        /\ UNCHANGED <<order, restored, payment, intent, request, event>>
        /\ transactions' = transactions \cup {t}
    BY <1>13 DEF RunRecords, RunGoes
  <2>2. Row(r).type = "succeeded" => Shown
    BY <1>0, <2>1 DEF RunFresh, RunAt
  <2>3. \A e \in Events : e # r[1] => RecordsOf(e)' = RecordsOf(e)
    BY <2>1 DEF RecordsOf
  <2>4. RecordsShown
    BY <2>1, <2>2, <2>3 DEF RecordsShown, Row
  <2> HIDE DEF t
  <2> QED
    BY <1>2, <2>1, <2>4
<1>14. CASE MarkProcessed(r)
  <2>1. PICK pc \in {"notify", "done"} : RunReads(r, pc, "CREATED")
    BY <1>14 DEF MarkProcessed, RunGoes
  <2>2. UNCHANGED <<order, restored, payment, intent, request, transactions>>
    BY <1>14 DEF MarkProcessed
  <2> QED
    BY <1>2, <2>1, <2>2, RecordsStayShown
<1>15. CASE Notify(r)
  BY <1>2, <1>15, RecordsStayShown DEF Notify, RunGoes
<1>16. CASE SkipRecorded(r)
  BY <1>2, <1>16, RecordsStayShown DEF SkipRecorded, RunGoes
<1>17. CASE MarkFailed(r)
  BY <1>2, <1>17, RecordsStayShown DEF MarkFailed, RunGoes
<1>18. CASE TimeOut(r)
  BY <1>18, RecordsStayShown, QuietStep DEF TimeOut
<1>19. CASE StatementFails(r)
  <2>1. PICK pc \in {"catch", "done"} : RunReads(r, pc, "CREATED")
    BY <1>19 DEF StatementFails, RunGoes
  <2>2. UNCHANGED <<order, restored, payment, intent, request, transactions>>
    BY <1>19 DEF StatementFails
  <2> QED
    BY <1>2, <2>1, <2>2, RecordsStayShown
<1> QED
  BY <1>3, <1>4, <1>5, <1>6, <1>7, <1>8, <1>9, <1>10, <1>11, <1>12, <1>13, <1>14, <1>15,
     <1>16, <1>17, <1>18, <1>19 DEF RunStep

\* With one window open at a time, the dashboard writes along the tables.
LEMMA RequestStepSerial ==
  ASSUME IInv, AppliedOK, SerialOK, Grown, OneWindow', NEW d \in Requests, RequestStep(d)
  PROVE  SerialOK' /\ FollowsTables
<1>0. /\ TypeOK /\ RequestFresh(d) /\ request[d] \in RequestRow
      /\ order.payment \in Intents \cup {NoPayment}
  BY DEF IInv, SerialOK, TypeOK
<1>1. ASSUME NEW to \in OperationalOrderStatuses, ReadManagedOrder(d, to)
      PROVE  SerialOK' /\ FollowsTables
  <2>1. UNCHANGED <<order, restored, payment, event, run, intent, transactions>>
    BY <1>1 DEF ReadManagedOrder
  <2>2. \A c \in Requests \ {d} : request'[c] = request[c]
    BY <1>0, <1>1 DEF ReadManagedOrder, RequestGoes, TypeOK
  <2>3. RequestFresh(d)'
    <3>1. CASE RequestGoes(d, "done")
      BY <1>0, <3>1 DEF RequestGoes, TypeOK, RequestRow, RequestFresh, RequestAt
    <3>2. CASE request' = [request EXCEPT ![d] =
                 [pc |-> "writeOrder", to |-> to, seen |-> order.status, shipment |-> shipment]]
      BY <1>0, <2>1, <3>2 DEF TypeOK, RequestFresh, RequestAt
    <3> QED
      BY <1>1, <3>1, <3>2 DEF ReadManagedOrder
  <2> QED
    BY <2>1, <2>2, <2>3, RecordsStayShown, QuietStep
<1>2. ASSUME NEW pc \in RequestSteps \ {"writeOrder"}, RequestGoes(d, pc)
      PROVE  RequestFresh(d)' /\ \A c \in Requests \ {d} : request'[c] = request[c]
  BY <1>0, <1>2, RequestMoves DEF RequestFresh, RequestAt
<1>3. CASE WriteManagedOrder(d)
  <2>1. /\ RequestGoes(d, "writeShipment") /\ RequestAt(d, "writeOrder")
        /\ WriteOrder(request[d].seen, request[d].to, order.payment)
        /\ UNCHANGED <<payment, event, run, intent, transactions>>
    BY <1>3 DEF WriteManagedOrder
  <2>2. /\ request[d].seen = order.status /\ request[d].to \in OrderStatus
        /\ CanTransitionOrder(order.status, request[d].to)
    BY <1>0, <2>1 DEF RequestFresh, RequestRow, IInv, OrderOK, WindowOK
  <2>3. WriteOrder(order.status, request[d].to, order.payment)
    BY <2>1, <2>2
  <2>4. /\ \A i \in Intents : ~IntentWindow(i)
        /\ \A r \in Runs : ~RunWindow(r)
        /\ \A c \in Requests \ {d} : ~RequestWindow(c)
    BY <2>1, OthersAreClosed DEF SerialOK, RequestWindow
  <2>5. RequestFresh(d)' /\ \A c \in Requests \ {d} : request'[c] = request[c]
    BY <1>2, <2>1 DEF RequestSteps
  <2> QED
    BY <1>0, <2>1, <2>2, <2>3, <2>4, <2>5, OrderWriteStep
<1>4. CASE WriteShipment(d) \/ AuditManagedOrder(d)
  <2>1. /\ RequestFresh(d)' /\ \A c \in Requests \ {d} : request'[c] = request[c]
        /\ UNCHANGED <<order, restored, payment, event, run, intent, transactions>>
    BY <1>2, <1>4 DEF WriteShipment, AuditManagedOrder, RequestSteps
  <2> QED
    BY <2>1, RecordsStayShown, QuietStep
<1> QED
  BY <1>1, <1>3, <1>4 DEF RequestStep

\* Whoever steps, the serial invariant holds after it and the tables were followed.
LEMMA NextSerial ==
  IInv /\ AppliedOK /\ SerialOK /\ [Next /\ OneWindow']_vars => SerialOK' /\ FollowsTables
<1> SUFFICES ASSUME IInv, AppliedOK, SerialOK, [Next /\ OneWindow']_vars
             PROVE  SerialOK' /\ FollowsTables
  OBVIOUS
<1>1. Grown
  BY StepGrows
<1>2. OneWindow'
  <2>1. CASE UNCHANGED vars
    <3>1. Windows' = Windows
      BY <2>1 DEF vars, Windows
    <3> QED
      BY <3>1 DEF SerialOK, OneWindow
  <2> QED
    BY <2>1
<1>3. CASE UNCHANGED vars
  BY <1>1, <1>2, <1>3, RecordsStayShown, QuietStep DEF vars
<1>4. ASSUME NEW e \in Events, NEW i \in Intents, NEW type \in EventTypes,
             EventArrives(e, i, type)
      PROVE  SerialOK' /\ FollowsTables
  BY <1>1, <1>2, <1>4, RecordsStayShown, QuietStep DEF EventArrives
<1> QED
  BY <1>1, <1>2, <1>3, <1>4, IntentStepSerial, RunStepSerial, RequestStepSerial DEF Next

\* Nobody has read anything yet.
LEMMA InitSerial == Init => SerialOK
<1> SUFFICES ASSUME Init PROVE SerialOK
  OBVIOUS
<1>1. Windows = {}
  BY DEF Init, Windows
<1>2. OneWindow
  BY <1>1 DEF OneWindow
<1> QED
  BY <1>2 DEF Init, SerialOK, IntentFresh, IntentAt, RunFresh, RunAt, RequestFresh, RequestAt,
     StockMatchesStatus, ClosedOrderStatuses, RecordsOf

\* The serial invariant with the two it builds on.
LEMMA AlwaysSerial == SerialSpec => [](IInv /\ AppliedOK /\ SerialOK)
<1>1. [Next /\ OneWindow']_vars => [Next]_vars
  OBVIOUS
<1>2. Init => AppliedOK
  BY DEF Init, AppliedOK, RunApplied, RunAt, ProcessedEventIsRecorded
<1> QED
  BY <1>1, <1>2, InitHolds, InitSerial, NextKeeps, NextKeepsApplied, NextSerial, PTL
     DEF SerialSpec

\* With one window open at a time, stock is held exactly while the order is
\* open and put back once, and neither a captured payment nor, once its event
\* is processed, its order is shown as unpaid again.
THEOREM SerialSafe == SerialSpec => [](StockMatchesStatus /\ CaptureIsNotForgotten)
<1>1. IInv /\ AppliedOK /\ SerialOK => StockMatchesStatus /\ CaptureIsNotForgotten
  <2> SUFFICES ASSUME IInv, AppliedOK, SerialOK, NEW e \in Events,
                      event[e].status = "PROCESSED", event[e].type = "succeeded"
               PROVE  Shown
    BY DEF SerialOK, CaptureIsNotForgotten, Shown
  <2>1. RecordsOf(e) # {}
    BY DEF AppliedOK, ProcessedEventIsRecorded
  <2> QED
    BY <2>1 DEF SerialOK
<1> QED
  BY <1>1, AlwaysSerial, PTL

\* With one window open at a time, every change of the order's and of a
\* payment's status is in its transition table; and while no execution
\* outlives its job, a processed event stays processed.
THEOREM SerialTables ==
  ASSUME JobsTimeOut = FALSE
  PROVE  SerialSpec => TablesAreFollowed
<1>1. IInv /\ AppliedOK /\ SerialOK /\ [Next /\ OneWindow']_vars =>
        /\ [CanTransitionOrder(order.status, order'.status)]_vars
        /\ [\A i \in Intents : payment[i].status # "NONE" =>
              CanTransitionPayment(payment[i].status, payment'[i].status)]_vars
  BY NextSerial DEF FollowsTables
<1>2. SerialSpec => Spec
  BY PTL DEF SerialSpec, Spec
<1>3. Spec => ProcessedIsFinal
  BY EventsOnce
<1> QED
  BY <1>1, <1>2, <1>3, AlwaysSerial, PTL
     DEF SerialSpec, TablesAreFollowed, PaymentFollowsTable, OrderFollowsTable
==============================================================================
