--------------------------- MODULE WebhookJobsProofs ---------------------------
(***************************************************************************)
(* What the retries of a webhook job do to its event, for any number of    *)
(* events and attempts. With jobs that outlive their time limit: what an   *)
(* event did, it did whole. Without: it did it once, a processed event     *)
(* stays processed, and the queue and the table agree on how it ended.     *)
(***************************************************************************)
EXTENDS OrderPaymentsProofs, FiniteSetTheorems

USE ConstantsAssumption

-------------------------------------------------------------------------------
(* Events are applied whole.                                               *)

\* An execution has audited a move it was allowed to make.
Audited(r, entity) ==
  \E a \in audits :
    /\ a.by = <<"webhook", r>>
    /\ a.entity = entity
    /\ a.allowed
    /\ a.to = IF entity = "PAYMENT" THEN PaymentTarget(r) ELSE OrderTarget(r)

\* What an execution has left behind at each of its steps.
RunApplied(r) ==
  /\ run[r].pc \in {"readOrder", "writeOrder", "auditOrder", "record"} => Audited(r, "PAYMENT")
  /\ RunAt(r, "record") => Audited(r, "ORDER")
  /\ run[r].pc \in {"finish", "notify", "skip"} => RecordsOf(r[1]) # {}

\* A record's execution has an event, and made both moves.
RecordBacked(r) ==
  Row(r).status # "NONE" /\ Audited(r, "PAYMENT") /\ Audited(r, "ORDER")

AppliedOK ==
  /\ \A r \in Runs : RunApplied(r)
  /\ \A t \in transactions : t.kind = "WEBHOOK" => \E r \in Runs : t.by = <<"webhook", r>>
  /\ \A t \in transactions, r \in Runs : t.by = <<"webhook", r>> => RecordBacked(r)
  /\ ProcessedEventIsRecorded

\* Nothing is taken back, and an event that has arrived is about one thing.
Grown ==
  /\ audits \subseteq audits'
  /\ transactions \subseteq transactions'
  /\ \A e \in Events : event[e].status # "NONE" =>
       /\ event'[e].status # "NONE"
       /\ event'[e].type = event[e].type
       /\ event'[e].payment = event[e].payment

-------------------------------------------------------------------------------
(* Events are applied once, when no job outlives its time limit.           *)

\* Executions that have marked their row and not yet given it its result.
Processing ==
  {"lookup", "readPayment", "writePayment", "auditPayment", "readOrder",
   "writeOrder", "auditOrder", "record", "finish", "skip", "catch"}

\* Executions that found no record of their event and have not added it.
Unrecorded ==
  {"readPayment", "writePayment", "auditPayment", "readOrder", "writeOrder",
   "auditOrder", "record"}

\* Only the attempt the queue waits for is under way, and its row shows it.
RunOnce(r) ==
  /\ run[r].pc \notin {"idle", "done"} => IsActive(r)
  /\ RunAt(r, "mark") => Row(r).status # "PROCESSED"
  /\ run[r].pc \in Processing => Row(r).status = "PROCESSING"
  /\ RunAt(r, "notify") => Row(r).status = "PROCESSED"
  /\ run[r].pc \in Unrecorded => RecordsOf(r[1]) = {}

\* A job is completed when it is notified about, and not taken again.
NoticesOnce(e) ==
  \A r, q \in notices : r[1] = e /\ q[1] = e => r = q /\ job[e].state = "completed"

RecordsOnce(e) == \A t, u \in RecordsOf(e) : t = u

OnceOK ==
  /\ \A r \in Runs : RunOnce(r)
  /\ \A e \in Events : RecordsOnce(e) /\ NoticesOnce(e)

-------------------------------------------------------------------------------
(* What the steps change.                                                  *)

\* The other actors leave the events, their jobs and executions alone, and
\* the transactions they add are their own.
Elsewhere ==
  /\ UNCHANGED <<event, job, run, notices>>
  /\ audits \subseteq audits'
  /\ transactions \subseteq transactions'
  /\ \A t \in transactions' \ transactions :
       t.kind = "INTENT" /\ \E i \in Intents : t.by = <<"intent", i>>

\* Customers, the dashboard and a stuttering step are elsewhere.
LEMMA OthersAreElsewhere ==
  ASSUME \/ \E i \in Intents : IntentStep(i)
         \/ \E d \in Requests : RequestStep(d)
         \/ UNCHANGED vars
  PROVE  Elsewhere
<1>1. ASSUME NEW i \in Intents, IntentStep(i) PROVE Elsewhere
  <2>1. CASE IntentRecords(i)
    BY <2>1 DEF IntentRecords, Elsewhere
  <2>2. CASE ~IntentRecords(i)
    BY <1>1, <2>2 DEF IntentStep, ReadPayableOrder, CreatePayment, LinkPayment, OpenIntent,
       IntentReadsPayment, IntentWritesPayment, IntentAuditsPayment, IntentReadsOrder,
       IntentWritesOrder, IntentAuditsOrder, Audit, Elsewhere
  <2> QED
    BY <2>1, <2>2
<1>2. ASSUME NEW d \in Requests, RequestStep(d) PROVE Elsewhere
  BY <1>2 DEF RequestStep, ReadManagedOrder, WriteManagedOrder, WriteShipment,
     AuditManagedOrder, Audit, Elsewhere
<1>3. CASE UNCHANGED vars
  BY <1>3 DEF vars, Elsewhere
<1> QED
  BY <1>1, <1>2, <1>3

\* No step takes a row, an audit or a transaction back.
LEMMA StepGrows ==
  ASSUME IInv, [Next]_vars
  PROVE  Grown
<1>1. CASE Elsewhere
  BY <1>1 DEF Elsewhere, Grown
<1>2. ASSUME NEW e \in Events, NEW i \in Intents, NEW type \in EventTypes,
             EventArrives(e, i, type)
      PROVE  Grown
  BY <1>2 DEF EventArrives, IInv, TypeOK, Grown
<1>3. ASSUME NEW r \in Runs, RunStep(r) \/ TimeOut(r) \/ StatementFails(r)
      PROVE  Grown
  <2>1. audits \subseteq audits' /\ transactions \subseteq transactions'
    BY <1>3 DEF RunStep, StartAttempt, LoadEvent, MarkProcessing, LookupTransaction,
       RunReadsPayment, RunWritesPayment, RunAuditsPayment, RunReadsOrder, RunWritesOrder,
       RunAuditsOrder, RunRecords, MarkProcessed, Notify, SkipRecorded, MarkFailed,
       TimeOut, StatementFails, Audit
  <2>2. ~RunAt(r, "idle") => Row(r).status # "NONE"
    BY RunFacts
  <2>3. CASE \E status \in {"PROCESSING", "PROCESSED", "FAILED"} :
               SetRow(r, status) /\ ~RunAt(r, "idle")
    BY <2>1, <2>2, <2>3, RowMarked DEF IInv, RowsKept, Grown
  <2>4. CASE event' = event
    BY <2>1, <2>4 DEF Grown
  <2>5. CASE MarkProcessing(r) \/ MarkProcessed(r) \/ SkipRecorded(r) \/ MarkFailed(r)
    BY <2>3, <2>5 DEF MarkProcessing, MarkProcessed, SkipRecorded, MarkFailed, RunAt
  <2>6. CASE ~(MarkProcessing(r) \/ MarkProcessed(r) \/ SkipRecorded(r) \/ MarkFailed(r))
    BY <1>3, <2>4, <2>6 DEF RunStep, StartAttempt, LoadEvent, LookupTransaction,
       RunReadsPayment, RunWritesPayment, RunAuditsPayment, RunReadsOrder, RunWritesOrder,
       RunAuditsOrder, RunRecords, Notify, TimeOut, StatementFails
  <2> QED
    BY <2>5, <2>6
<1> QED
  BY <1>1, <1>2, <1>3, OthersAreElsewhere DEF Next

\* What has been audited or recorded stays so.
LEMMA ApplicationStays ==
  ASSUME IInv, Grown
  PROVE  /\ \A r \in Runs : Row(r).status # "NONE" =>
              /\ Row(r)'.status # "NONE"
              /\ Row(r)'.type = Row(r).type
              /\ PaymentTarget(r)' = PaymentTarget(r)
              /\ OrderTarget(r)' = OrderTarget(r)
         /\ \A r \in Runs, entity \in {"PAYMENT", "ORDER"} :
              Row(r).status # "NONE" /\ Audited(r, entity) => Audited(r, entity)'
         /\ \A e \in Events : RecordsOf(e) # {} => RecordsOf(e)' # {}
         /\ \A r \in Runs : RecordBacked(r) => RecordBacked(r)'
         /\ \A r \in Runs : ~RunAt(r, "idle") /\ RunApplied(r) /\ run'[r] = run[r] => RunApplied(r)'
<1>1. \A r \in Runs : Row(r).status # "NONE" =>
        /\ Row(r)'.status # "NONE"
        /\ Row(r)'.type = Row(r).type
        /\ PaymentTarget(r)' = PaymentTarget(r)
        /\ OrderTarget(r)' = OrderTarget(r)
  BY RunsPair DEF Grown, Row, PaymentTarget, OrderTarget
<1>2. ASSUME NEW r \in Runs, NEW entity \in {"PAYMENT", "ORDER"},
             Row(r).status # "NONE", Audited(r, entity)
      PROVE  Audited(r, entity)'
  <2>1. PICK a \in audits :
          /\ a.by = <<"webhook", r>>
          /\ a.entity = entity
          /\ a.allowed
          /\ a.to = IF entity = "PAYMENT" THEN PaymentTarget(r) ELSE OrderTarget(r)
    BY <1>2 DEF Audited
  <2>2. a \in audits'
    BY DEF Grown
  <2>3. PaymentTarget(r)' = PaymentTarget(r) /\ OrderTarget(r)' = OrderTarget(r)
    BY <1>1, <1>2
  <2> QED
    BY <2>1, <2>2, <2>3 DEF Audited
<1>3. \A e \in Events : RecordsOf(e) # {} => RecordsOf(e)' # {}
  BY DEF Grown, RecordsOf
<1>4. \A r \in Runs : RecordBacked(r) => RecordBacked(r)'
  BY <1>1, <1>2 DEF RecordBacked
<1>5. ASSUME NEW r \in Runs, ~RunAt(r, "idle"), RunApplied(r), run'[r] = run[r]
      PROVE  RunApplied(r)'
  <2>1. Row(r).status # "NONE" /\ r[1] \in Events
    BY <1>5, RunFacts, RunsPair
  <2> QED
    BY <1>2, <1>3, <1>5, <2>1 DEF RunApplied, RunAt
<1> QED
  BY <1>1, <1>2, <1>3, <1>4, <1>5

\* An execution may have moved on, recorded, processed or notified, if it had
\* what that step presupposes.
LEMMA AppliedKept ==
  ASSUME IInv, AppliedOK, Grown,
         \A q \in Runs : run'[q] = run[q] \/ RunApplied(q)',
         \A t \in transactions' \ transactions :
            /\ t.kind = "WEBHOOK" => \E q \in Runs : t.by = <<"webhook", q>>
            /\ \A q \in Runs : t.by = <<"webhook", q>> => RecordBacked(q),
         \A e \in Events : event'[e].status = "PROCESSED" =>
            event[e].status = "PROCESSED" \/ RecordsOf(e) # {},
         \A n \in notices' \ notices : n[1] \in Events /\ RecordsOf(n[1]) # {}
  PROVE  AppliedOK'
<1>1. \A r \in Runs : RunApplied(r)'
  <2> SUFFICES ASSUME NEW r \in Runs, run'[r] = run[r] PROVE RunApplied(r)'
    OBVIOUS
  <2>1. CASE RunAt(r, "idle")
    BY <2>1 DEF RunApplied, RunAt
  <2>2. CASE ~RunAt(r, "idle")
    BY <2>2, ApplicationStays DEF AppliedOK
  <2> QED
    BY <2>1, <2>2
<1>2. \A t \in transactions', r \in Runs : t.by = <<"webhook", r>> => RecordBacked(r)'
  BY ApplicationStays DEF AppliedOK
<1>3. \A t \in transactions' : t.kind = "WEBHOOK" => \E r \in Runs : t.by = <<"webhook", r>>
  BY DEF AppliedOK
<1>4. ProcessedEventIsRecorded'
  <2>1. \A e \in Events : event'[e].status = "PROCESSED" => RecordsOf(e)' # {}
    BY ApplicationStays DEF AppliedOK, ProcessedEventIsRecorded
  <2>2. \A n \in notices : n[1] \in Events
    BY RunsPair DEF IInv, TypeOK
  <2>3. \A n \in notices' : RecordsOf(n[1])' # {}
    BY <2>2, ApplicationStays DEF AppliedOK, ProcessedEventIsRecorded
  <2> QED
    BY <2>1, <2>3 DEF ProcessedEventIsRecorded
<1> QED
  BY <1>1, <1>2, <1>3, <1>4 DEF AppliedOK

\* A step of an execution that changes no row, transaction or notice moves
\* on to where its audits and records allow.
LEMMA RunKeepsApplied ==
  ASSUME IInv, AppliedOK, Grown, NEW r \in Runs,
         RunStep(r) \/ TimeOut(r) \/ StatementFails(r)
  PROVE  AppliedOK'
<1>0. /\ TypeOK /\ "CREATED" \in Statuses /\ run[r].seen \in Statuses
      /\ ~RunAt(r, "idle") => Row(r).status # "NONE"
      /\ r[1] \in Events
      /\ payment[Row(r).payment].status \in Statuses \cup {"NONE"}
      /\ order.status \in Statuses
  BY RunFacts, RunsPair DEF TypeOK, PaymentRow, Statuses
<1>1. ASSUME NEW pc \in RunSteps, NEW seen \in Statuses, RunReads(r, pc, seen),
             pc \in {"readOrder", "writeOrder", "auditOrder", "record"} => Audited(r, "PAYMENT")',
             pc = "record" => Audited(r, "ORDER")',
             pc \in {"finish", "notify", "skip"} => RecordsOf(r[1])' # {}
      PROVE  \A q \in Runs : run'[q] = run[q] \/ RunApplied(q)'
  BY <1>0, <1>1, RunMoves DEF RunApplied, RunAt
<1>2. ASSUME NEW pc \in RunSteps, NEW seen \in Statuses, RunReads(r, pc, seen),
             pc \in {"readOrder", "writeOrder", "auditOrder", "record"} => Audited(r, "PAYMENT")',
             pc = "record" => Audited(r, "ORDER")',
             pc \in {"finish", "notify", "skip"} => RecordsOf(r[1])' # {},
             UNCHANGED <<transactions, notices>>,
             \A e \in Events : event'[e].status = "PROCESSED" =>
               event[e].status = "PROCESSED" \/ RecordsOf(e) # {}
      PROVE  AppliedOK'
  BY <1>1, <1>2, AppliedKept
<1>3. \A entity \in {"PAYMENT", "ORDER"} :
        ~RunAt(r, "idle") /\ Audited(r, entity) => Audited(r, entity)'
  BY <1>0, ApplicationStays
<1>4. RecordsOf(r[1]) # {} => RecordsOf(r[1])' # {}
  BY <1>0, ApplicationStays
<1>5. RunApplied(r)
  BY DEF AppliedOK
<1>6. CASE StartAttempt(r)
  <2>1. RunReads(r, "load", "CREATED") /\ UNCHANGED <<event, transactions, notices>>
    BY <1>6 DEF StartAttempt, RunGoes
  <2> QED BY <1>0, <1>2, <2>1 DEF RunSteps
<1>7. CASE LoadEvent(r)
  <2>1. PICK pc \in {"done", "mark"} :
          RunReads(r, pc, "CREATED") /\ UNCHANGED <<event, transactions, notices>>
    BY <1>7 DEF LoadEvent, RunGoes
  <2> QED BY <1>0, <1>2, <2>1 DEF RunSteps
<1>8. CASE MarkProcessing(r)
  <2>1. PICK pc \in {"lookup", "catch"} :
          RunReads(r, pc, "CREATED") /\ UNCHANGED <<transactions, notices>>
    BY <1>8 DEF MarkProcessing, RunGoes
  <2>2. \A e \in Events : event'[e].status = "PROCESSED" => event[e].status = "PROCESSED"
    BY <1>0, <1>8 DEF MarkProcessing, SetRow, TypeOK, EventRow
  <2> QED BY <1>0, <1>2, <2>1, <2>2 DEF RunSteps
<1>9. CASE LookupTransaction(r)
  <2>1. PICK pc \in {"skip", "readPayment"} :
          /\ RunReads(r, pc, "CREATED")
          /\ pc = "skip" => RecordsOf(r[1]) # {}
          /\ UNCHANGED <<event, transactions, notices>>
    BY <1>9 DEF LookupTransaction, RunGoes
  <2> QED BY <1>0, <1>2, <1>4, <2>1 DEF RunSteps
<1>10. CASE RunReadsPayment(r)
  <2>1. PICK pc \in {"writePayment", "catch"}, seen \in Statuses \cup {"NONE"} :
          RunReads(r, pc, seen) /\ UNCHANGED <<event, transactions, notices>>
    BY <1>0, <1>10 DEF RunReadsPayment, RunGoes
  <2>2. \A q \in Runs : run'[q] = run[q] \/ RunApplied(q)'
    BY <1>0, <2>1 DEF RunReads, TypeOK, RunApplied, RunAt
  <2> QED BY <2>1, <2>2, AppliedKept
<1>11. CASE RunWritesPayment(r)
  <2>1. RunReads(r, "auditPayment", run[r].seen) /\ UNCHANGED <<event, transactions, notices>>
    BY <1>11 DEF RunWritesPayment
  <2> QED BY <1>0, <1>2, <2>1 DEF RunSteps
<1>12. CASE RunAuditsPayment(r)
  <2>1. RunReads(r, "readOrder", "CREATED") /\ UNCHANGED <<event, transactions, notices>>
    BY <1>12 DEF RunAuditsPayment, RunGoes
  <2>2. Audited(r, "PAYMENT")'
    <3> DEFINE a == [by |-> <<"webhook", r>>, entity |-> "PAYMENT", from |-> run[r].seen,
                     to |-> PaymentTarget(r), allowed |-> TRUE]
    <3>1. a \in audits' /\ event' = event
      BY <1>12 DEF RunAuditsPayment, Audit
    <3>2. PaymentTarget(r)' = PaymentTarget(r)
      BY <3>1 DEF PaymentTarget, Row
    <3> QED
      BY <3>1, <3>2 DEF Audited
  <2> QED BY <1>0, <1>2, <2>1, <2>2 DEF RunSteps
<1>13. CASE RunReadsOrder(r)
  <2>1. PICK pc \in {"writeOrder", "catch"}, seen \in Statuses :
          RunReads(r, pc, seen) /\ UNCHANGED <<event, transactions, notices>>
    BY <1>0, <1>13 DEF RunReadsOrder, RunGoes
  <2>2. Audited(r, "PAYMENT")'
    BY <1>3, <1>5, <1>13 DEF RunReadsOrder, RunAt, RunApplied
  <2> QED BY <1>2, <2>1, <2>2 DEF RunSteps
<1>14. CASE RunWritesOrder(r)
  <2>1. RunReads(r, "auditOrder", run[r].seen) /\ UNCHANGED <<event, transactions, notices>>
    BY <1>14 DEF RunWritesOrder
  <2>2. Audited(r, "PAYMENT")'
    BY <1>3, <1>5, <1>14 DEF RunWritesOrder, RunAt, RunApplied
  <2> QED BY <1>0, <1>2, <2>1, <2>2 DEF RunSteps
<1>15. CASE RunAuditsOrder(r)
  <2>1. RunReads(r, "record", "CREATED") /\ UNCHANGED <<event, transactions, notices>>
    BY <1>15 DEF RunAuditsOrder, RunGoes
  <2>2. Audited(r, "PAYMENT")'
    BY <1>3, <1>5, <1>15 DEF RunAuditsOrder, RunAt, RunApplied
  <2>3. Audited(r, "ORDER")'
    <3> DEFINE a == [by |-> <<"webhook", r>>, entity |-> "ORDER", from |-> run[r].seen,
                     to |-> OrderTarget(r), allowed |-> TRUE]
    <3>1. a \in audits' /\ event' = event
      BY <1>15 DEF RunAuditsOrder, Audit
    <3>2. OrderTarget(r)' = OrderTarget(r)
      BY <3>1 DEF OrderTarget, Row
    <3> QED
      BY <3>1, <3>2 DEF Audited
  <2> QED BY <1>0, <1>2, <2>1, <2>2, <2>3 DEF RunSteps
<1>16. CASE RunRecords(r)
  <2> DEFINE t == [kind |-> "WEBHOOK", payment |-> Row(r).payment, by |-> <<"webhook", r>>]
  <2>1. /\ RunReads(r, "finish", "CREATED") /\ UNCHANGED <<event, notices>>
        /\ transactions' = transactions \cup {t}
    BY <1>16 DEF RunRecords, RunGoes
  <2>2. t \in RecordsOf(r[1])'
    BY <2>1 DEF RecordsOf
  <2>3. \A q \in Runs : run'[q] = run[q] \/ RunApplied(q)'
    BY <1>0, <1>1, <2>1, <2>2 DEF RunSteps
  <2>4. RecordBacked(r)
    BY <1>0, <1>5, <1>16 DEF RunRecords, RunAt, RunApplied, RecordBacked
  <2>5. \A u \in transactions' \ transactions :
          /\ u.kind = "WEBHOOK" => \E q \in Runs : u.by = <<"webhook", q>>
          /\ \A q \in Runs : u.by = <<"webhook", q>> => RecordBacked(q)
    BY <2>1, <2>4
  <2> QED BY <2>1, <2>3, <2>5, AppliedKept
<1>17. CASE MarkProcessed(r) \/ SkipRecorded(r)
  <2>1. PICK pc \in {"notify", "done"} :
          RunReads(r, pc, "CREATED") /\ UNCHANGED <<transactions, notices>>
    BY <1>17 DEF MarkProcessed, SkipRecorded, RunGoes
  <2>2. RecordsOf(r[1]) # {}
    BY <1>5, <1>17 DEF MarkProcessed, SkipRecorded, RunAt, RunApplied
  <2>3. \A e \in Events : e # r[1] => event'[e] = event[e]
    BY <1>0, <1>17 DEF MarkProcessed, SkipRecorded, SetRow, TypeOK
  <2> QED BY <1>0, <1>2, <1>4, <2>1, <2>2, <2>3 DEF RunSteps
<1>18. CASE Notify(r)
  <2>1. /\ RunReads(r, "done", "CREATED") /\ UNCHANGED <<event, transactions>>
        /\ notices' = notices \cup {r}
    BY <1>18 DEF Notify, RunGoes
  <2>2. RecordsOf(r[1]) # {}
    BY <1>5, <1>18 DEF Notify, RunAt, RunApplied
  <2>3. \A q \in Runs : run'[q] = run[q] \/ RunApplied(q)'
    BY <1>0, <1>1, <2>1 DEF RunSteps
  <2> QED BY <1>0, <2>1, <2>2, <2>3, AppliedKept
<1>19. CASE MarkFailed(r)
  <2>1. RunReads(r, "done", "CREATED") /\ UNCHANGED <<transactions, notices>>
    BY <1>19 DEF MarkFailed, RunGoes
  <2>2. \A e \in Events : event'[e].status = "PROCESSED" => event[e].status = "PROCESSED"
    BY <1>0, <1>19 DEF MarkFailed, SetRow, TypeOK, EventRow
  <2> QED BY <1>0, <1>2, <2>1, <2>2 DEF RunSteps
<1>20. CASE TimeOut(r)
  BY <1>20, AppliedKept DEF TimeOut
<1>21. CASE StatementFails(r)
  <2>1. PICK pc \in {"catch", "done"} :
          RunReads(r, pc, "CREATED") /\ UNCHANGED <<event, transactions, notices>>
    BY <1>21 DEF StatementFails, RunGoes
  <2> QED BY <1>0, <1>2, <2>1 DEF RunSteps
<1> QED
  BY <1>6, <1>7, <1>8, <1>9, <1>10, <1>11, <1>12, <1>13, <1>14, <1>15, <1>16, <1>17, <1>18,
     <1>19, <1>20, <1>21 DEF RunStep

\* Every step keeps events whole.
LEMMA NextKeepsApplied == IInv /\ AppliedOK /\ [Next]_vars => AppliedOK'
<1> SUFFICES ASSUME IInv, AppliedOK, [Next]_vars PROVE AppliedOK'
  OBVIOUS
<1>0. Grown
  BY StepGrows
<1>1. CASE Elsewhere
  <2>1. \A t \in transactions' \ transactions :
          /\ t.kind # "WEBHOOK"
          /\ \A q \in Runs : t.by # <<"webhook", q>>
    BY <1>1 DEF Elsewhere
  <2> QED
    BY <1>0, <1>1, <2>1, AppliedKept DEF Elsewhere
<1>2. ASSUME NEW e \in Events, NEW i \in Intents, NEW type \in EventTypes,
             EventArrives(e, i, type)
      PROVE  AppliedOK'
  <2>1. \A x \in Events : event'[x].status = "PROCESSED" => event[x].status = "PROCESSED"
    BY <1>2 DEF EventArrives, IInv, TypeOK
  <2>2. UNCHANGED <<run, transactions, notices>>
    BY <1>2 DEF EventArrives
  <2> QED
    BY <1>0, <2>1, <2>2, AppliedKept
<1>3. ASSUME NEW r \in Runs, RunStep(r) \/ TimeOut(r) \/ StatementFails(r)
      PROVE  AppliedOK'
  BY <1>0, <1>3, RunKeepsApplied
<1> QED
  BY <1>1, <1>2, <1>3, OthersAreElsewhere DEF Next

\* A record, a processed row or a notice means what it says.
LEMMA AppliedIsWhole == AppliedOK => EventsAreAppliedWhole
<1> SUFFICES ASSUME AppliedOK PROVE RecordFollowsBothTransitions
  BY DEF AppliedOK, EventsAreAppliedWhole
<1> SUFFICES ASSUME NEW r \in Runs,
                    [kind |-> "WEBHOOK", payment |-> Row(r).payment, by |-> <<"webhook", r>>]
                      \in transactions
             PROVE  Audited(r, "PAYMENT") /\ Audited(r, "ORDER")
  BY DEF RecordFollowsBothTransitions, Audited
<1> QED
  BY DEF AppliedOK, RecordBacked

\* Even with failing statements and executions that outlive their job: a
\* recorded event moved and audited both its payment and its order, and a
\* processed or notified event is recorded.
THEOREM EventsWhole == Spec => []EventsAreAppliedWhole
<1>1. Init => AppliedOK
  BY DEF Init, AppliedOK, RunApplied, RunAt, ProcessedEventIsRecorded
<1> QED
  BY <1>1, NextKeepsApplied, AppliedIsWhole, AlwaysIInv, PTL DEF Spec

-------------------------------------------------------------------------------
(* Events are applied once.                                                *)

\* Nothing of the other events changes.
OnlyTouches(e) ==
  \A x \in Events \ {e} :
    job'[x] = job[x] /\ event'[x] = event[x] /\ RecordsOf(x)' = RecordsOf(x)

\* Two attempts at an event are not under way together.
LEMMA OthersAreQuiet ==
  ASSUME OnceOK, NEW r \in Runs, job[r[1]].state = "waiting" \/ IsActive(r),
         NEW q \in Runs, q[1] = r[1], q # r
  PROVE  run[q].pc \in {"idle", "done"}
<1> SUFFICES ASSUME IsActive(q) PROVE FALSE
  BY DEF OnceOK, RunOnce
<1>1. job[r[1]].state = "active" /\ job[r[1]].attempt = q[2]
  BY DEF IsActive
<1>2. q[2] = r[2]
  BY <1>1 DEF IsActive
<1> QED
  BY <1>2 DEF Runs

\* The attempt the queue waits for moves on; it may settle its job, and
\* notifies only when it completes it.
LEMMA OnceKept ==
  ASSUME OnceOK, TypeOK, NEW r \in Runs, job[r[1]].state = "waiting" \/ IsActive(r),
         \A q \in Runs \ {r} : run'[q] = run[q],
         OnlyTouches(r[1]), RunOnce(r)', RecordsOnce(r[1])',
         \/ notices' = notices
         \/ notices' = notices \cup {r} /\ job'[r[1]].state = "completed"
  PROVE  OnceOK'
<1>0. r[1] \in Events
  BY RunsPair
<1>1. ASSUME NEW q \in Runs PROVE RunOnce(q)'
  <2>1. CASE q = r
    BY <2>1
  <2>2. CASE q # r /\ q[1] = r[1]
    <3>1. run'[q] = run[q] /\ run[q].pc \in {"idle", "done"}
      BY <2>2, OthersAreQuiet
    <3> QED
      BY <3>1 DEF RunOnce, RunAt, Processing, Unrecorded
  <2>3. CASE q[1] # r[1]
    <3>1. /\ run'[q] = run[q] /\ job'[q[1]] = job[q[1]] /\ event'[q[1]] = event[q[1]]
          /\ RecordsOf(q[1])' = RecordsOf(q[1])
      BY <2>3, RunsPair DEF OnlyTouches
    <3> QED
      BY <3>1 DEF OnceOK, RunOnce, RunAt, IsActive, Row
  <2> QED
    BY <2>1, <2>2, <2>3
<1>2. \A e \in Events : RecordsOnce(e)'
  BY DEF OnceOK, RecordsOnce, OnlyTouches
<1>3. \A n \in notices : n[1] # r[1]
  <2>1. job[r[1]].state # "completed"
    BY DEF IsActive
  <2> QED
    BY <1>0, <2>1 DEF OnceOK, NoticesOnce
<1>4. \A e \in Events : NoticesOnce(e)'
  BY <1>3 DEF OnceOK, NoticesOnce, OnlyTouches
<1> QED
  BY <1>1, <1>2, <1>4 DEF OnceOK

\* The end of the attempt the queue waits for settles its job.
LEMMA JobSettles ==
  ASSUME TypeOK, NEW r \in Runs, IsActive(r)
  PROVE  /\ RunSucceeds(r) => job'[r[1]].state = "completed"
         /\ RunFails(r) => job'[r[1]].state = AfterFailure(r[2])
         /\ RunSucceeds(r) \/ RunFails(r) => \A x \in Events \ {r[1]} : job'[x] = job[x]
  BY RunsPair DEF TypeOK, JobRow, RunSucceeds, RunFails

\* What marking a row does.
LEMMA RowSet ==
  ASSUME TypeOK, NEW r \in Runs, NEW status \in {"PROCESSING", "PROCESSED", "FAILED"},
         SetRow(r, status)
  PROVE  Row(r)'.status = status /\ \A x \in Events \ {r[1]} : event'[x] = event[x]
  BY RunsPair DEF TypeOK, EventRow, SetRow, Row

\* A step of an execution keeps events applied once.
LEMMA RunKeepsOnce ==
  ASSUME JobsTimeOut = FALSE, IInv, OnceOK, NEW r \in Runs,
         RunStep(r) \/ TimeOut(r) \/ StatementFails(r)
  PROVE  OnceOK'
<1>0. /\ TypeOK /\ "CREATED" \in Statuses /\ run[r].seen \in Statuses
      /\ r[1] \in Events /\ run[r] \in RunRow
      /\ RunOnce(r)
      /\ RecordsOnce(r[1])
      /\ \A pc : RunAt(r, pc) /\ pc \notin {"idle", "done"} => IsActive(r)
  BY RunFacts, RunsPair DEF TypeOK, OnceOK, RunOnce, RunAt
<1>1. ASSUME NEW pc, NEW seen, RunReads(r, pc, seen)
      PROVE  run'[r].pc = pc /\ \A q \in Runs \ {r} : run'[q] = run[q]
  BY <1>0, <1>1 DEF RunReads, TypeOK
\* An execution that goes on, leaving its job as it is.
<1>2. ASSUME NEW pc \in RunSteps, NEW seen, RunReads(r, pc, seen),
             ~RunAt(r, "idle"), ~RunAt(r, "done"), UNCHANGED <<job, notices>>,
             \A x \in Events \ {r[1]} : event'[x] = event[x] /\ RecordsOf(x)' = RecordsOf(x),
             RecordsOnce(r[1])',
             pc = "mark" => Row(r)'.status # "PROCESSED",
             pc \in Processing => Row(r)'.status = "PROCESSING",
             pc = "notify" => Row(r)'.status = "PROCESSED",
             pc \in Unrecorded => RecordsOf(r[1])' = {}
      PROVE  OnceOK'
  <2>1. IsActive(r) /\ IsActive(r)'
    BY <1>0, <1>2 DEF RunAt, IsActive, RunOnce
  <2>2. RunOnce(r)' /\ \A q \in Runs \ {r} : run'[q] = run[q]
    BY <1>1, <1>2, <2>1 DEF RunOnce, RunAt
  <2>3. OnlyTouches(r[1])
    BY <1>2 DEF OnlyTouches
  <2> QED
    BY <1>0, <1>2, <2>1, <2>2, <2>3, OnceKept
\* An execution that ends, and settles its job.
<1>3. ASSUME NEW seen, RunReads(r, "done", seen),
             ~RunAt(r, "idle"), ~RunAt(r, "done"), RunSucceeds(r) \/ RunFails(r),
             \A x \in Events \ {r[1]} : event'[x] = event[x], transactions' = transactions,
             notices' = notices \/ (notices' = notices \cup {r} /\ RunSucceeds(r))
      PROVE  OnceOK'
  <2>1. IsActive(r)
    BY <1>0, <1>3 DEF RunAt, RunOnce
  <2>2. RunOnce(r)' /\ \A q \in Runs \ {r} : run'[q] = run[q]
    BY <1>1, <1>3 DEF RunOnce, RunAt, Processing, Unrecorded
  <2>3. OnlyTouches(r[1]) /\ RecordsOnce(r[1])'
    BY <1>0, <1>3, <2>1, JobSettles DEF OnlyTouches, RecordsOf, RecordsOnce
  <2>4. notices' = notices \/ (notices' = notices \cup {r} /\ job'[r[1]].state = "completed")
    BY <1>0, <1>3, <2>1, JobSettles
  <2> QED
    BY <1>0, <2>1, <2>2, <2>3, <2>4, OnceKept
\* Most of the steps that go on change no row and no record.
<1>4. ASSUME NEW pc \in RunSteps \ {"mark", "notify"}, NEW seen, RunReads(r, pc, seen),
             run[r].pc \in Processing, UNCHANGED <<job, notices, event, transactions>>,
             pc \in Unrecorded => RecordsOf(r[1]) = {}
      PROVE  OnceOK'
  <2>1. \A x \in Events : RecordsOf(x)' = RecordsOf(x)
    BY <1>4 DEF RecordsOf
  <2>2. Row(r)'.status = "PROCESSING" /\ ~RunAt(r, "idle") /\ ~RunAt(r, "done")
    BY <1>0, <1>4 DEF Row, RunOnce, RunAt, Processing
  <2>3. RecordsOnce(r[1])'
    BY <1>0, <2>1 DEF RecordsOnce
  <2> QED
    BY <1>0, <1>2, <1>4, <2>1, <2>2, <2>3
<1>5. CASE StartAttempt(r)
  <2>1. /\ RunReads(r, "load", "CREATED") /\ UNCHANGED <<event, transactions, notices>>
        /\ job[r[1]].state = "waiting"
        /\ job' = [job EXCEPT ![r[1]] = [state |-> "active", attempt |-> r[2]]]
    BY <1>5 DEF StartAttempt, RunGoes
  <2>2. IsActive(r)' /\ \A x \in Events \ {r[1]} : job'[x] = job[x]
    BY <1>0, <2>1 DEF IsActive, TypeOK
  <2>3. RunOnce(r)' /\ \A q \in Runs \ {r} : run'[q] = run[q]
    BY <1>1, <2>1, <2>2 DEF RunOnce, RunAt, Processing, Unrecorded
  <2>4. OnlyTouches(r[1]) /\ RecordsOnce(r[1])'
    BY <1>0, <2>1, <2>2 DEF OnlyTouches, RecordsOf, RecordsOnce
  <2> QED
    BY <1>0, <2>1, <2>3, <2>4, OnceKept
<1>6. CASE LoadEvent(r)
  <2>1. CASE RunReads(r, "done", "CREATED") /\ RunSucceeds(r)
    BY <1>3, <1>6, <2>1 DEF LoadEvent, RunAt
  <2>2. CASE Row(r).status # "PROCESSED" /\ RunReads(r, "mark", "CREATED") /\ UNCHANGED job
    <3>1. \A x \in Events : event'[x] = event[x] /\ RecordsOf(x)' = RecordsOf(x)
      BY <1>6 DEF LoadEvent, RecordsOf
    <3>2. UNCHANGED notices /\ ~RunAt(r, "idle") /\ ~RunAt(r, "done")
      BY <1>6 DEF LoadEvent, RunAt
    <3>3. RecordsOnce(r[1])' /\ Row(r)'.status # "PROCESSED"
      BY <1>0, <2>2, <3>1 DEF RecordsOnce, Row
    <3> QED
      BY <1>2, <2>2, <3>1, <3>2, <3>3 DEF RunSteps, Processing, Unrecorded
  <2> QED
    BY <1>6, <2>1, <2>2 DEF LoadEvent, RunGoes
<1>7. CASE MarkProcessing(r)
  <2>1. PICK pc \in {"lookup", "catch"} : RunReads(r, pc, "CREATED")
    BY <1>7 DEF MarkProcessing, RunGoes
  <2>2. Row(r)'.status = "PROCESSING" /\ \A x \in Events \ {r[1]} : event'[x] = event[x]
    BY <1>0, <1>7, RowSet DEF MarkProcessing
  <2>3. /\ UNCHANGED <<job, notices>> /\ ~RunAt(r, "idle") /\ ~RunAt(r, "done")
        /\ \A x \in Events : RecordsOf(x)' = RecordsOf(x)
    BY <1>7 DEF MarkProcessing, RunAt, RecordsOf
  <2>4. RecordsOnce(r[1])'
    BY <1>0, <2>3 DEF RecordsOnce
  <2> QED
    BY <1>2, <2>1, <2>2, <2>3, <2>4 DEF RunSteps, Processing, Unrecorded
<1>8. CASE LookupTransaction(r)
  <2>1. PICK pc \in {"skip", "readPayment"} :
          RunReads(r, pc, "CREATED") /\ (pc = "readPayment" => RecordsOf(r[1]) = {})
    BY <1>8 DEF LookupTransaction, RunGoes
  <2>2. RunAt(r, "lookup") /\ UNCHANGED <<job, notices, event, transactions>>
    BY <1>8 DEF LookupTransaction
  <2> QED
    BY <1>4, <2>1, <2>2 DEF RunSteps, RunAt, Processing, Unrecorded
<1>9. CASE RunReadsPayment(r)
  <2>1. PICK pc, seen :
          pc \in {"writePayment", "catch"} /\ RunReads(r, pc, seen) /\ UNCHANGED <<job, notices, event, transactions>>
    BY <1>9 DEF RunReadsPayment, RunGoes
  <2>2. RunAt(r, "readPayment") /\ RecordsOf(r[1]) = {}
    BY <1>0, <1>9 DEF RunReadsPayment, RunAt, RunOnce, Unrecorded
  <2> QED
    BY <1>4, <2>1, <2>2 DEF RunSteps, RunAt, Processing, Unrecorded
<1>10. CASE RunReadsOrder(r)
  <2>1. PICK pc, seen :
          pc \in {"writeOrder", "catch"} /\ RunReads(r, pc, seen) /\ UNCHANGED <<job, notices, event, transactions>>
    BY <1>10 DEF RunReadsOrder, RunGoes
  <2>2. RunAt(r, "readOrder") /\ RecordsOf(r[1]) = {}
    BY <1>0, <1>10 DEF RunReadsOrder, RunAt, RunOnce, Unrecorded
  <2> QED
    BY <1>4, <2>1, <2>2 DEF RunSteps, RunAt, Processing, Unrecorded
<1>11. CASE RunWritesPayment(r) \/ RunAuditsPayment(r) \/ RunWritesOrder(r) \/ RunAuditsOrder(r)
  <2>1. PICK pc, seen :
          pc \in {"auditPayment", "readOrder", "auditOrder", "record"} /\ RunReads(r, pc, seen) /\ UNCHANGED <<job, notices, event, transactions>>
    BY <1>11 DEF RunWritesPayment, RunAuditsPayment, RunWritesOrder, RunAuditsOrder, RunGoes
  <2>2. run[r].pc \in Unrecorded /\ run[r].pc \in Processing /\ RecordsOf(r[1]) = {}
    BY <1>0, <1>11 DEF RunWritesPayment, RunAuditsPayment, RunWritesOrder, RunAuditsOrder,
                       RunAt, RunOnce, Unrecorded, Processing
  <2> QED
    BY <1>4, <2>1, <2>2 DEF RunSteps, Unrecorded
<1>12. CASE RunRecords(r)
  <2> DEFINE t == [kind |-> "WEBHOOK", payment |-> Row(r).payment, by |-> <<"webhook", r>>]
  <2>1. /\ RunReads(r, "finish", "CREATED") /\ UNCHANGED <<job, notices, event>>
        /\ transactions' = transactions \cup {t} /\ RunAt(r, "record")
    BY <1>12 DEF RunRecords, RunGoes
  <2>2. RecordsOf(r[1]) = {} /\ Row(r).status = "PROCESSING"
    BY <1>0, <2>1 DEF RunAt, RunOnce, Unrecorded, Processing
  <2>3. RecordsOnce(r[1])'
    BY <2>1, <2>2 DEF RecordsOnce, RecordsOf
  <2>4. \A x \in Events \ {r[1]} : RecordsOf(x)' = RecordsOf(x)
    BY <2>1 DEF RecordsOf
  <2>5. Row(r)'.status = "PROCESSING" /\ ~RunAt(r, "idle") /\ ~RunAt(r, "done")
    BY <2>1, <2>2 DEF Row, RunAt
  <2> HIDE DEF t
  <2> QED
    BY <1>2, <2>1, <2>3, <2>4, <2>5 DEF RunSteps, Unrecorded, Processing
<1>13. CASE MarkProcessed(r)
  <2>1. Row(r)'.status = "PROCESSED" /\ \A x \in Events \ {r[1]} : event'[x] = event[x]
    BY <1>0, <1>13, RowSet DEF MarkProcessed
  <2>2. /\ UNCHANGED <<notices, transactions>> /\ ~RunAt(r, "idle") /\ ~RunAt(r, "done")
        /\ \A x \in Events : RecordsOf(x)' = RecordsOf(x)
    BY <1>13 DEF MarkProcessed, RunAt, RecordsOf
  <2>3. CASE RunReads(r, "notify", "CREATED") /\ UNCHANGED job
    <3>1. RecordsOnce(r[1])'
      BY <1>0, <2>2 DEF RecordsOnce
    <3> QED
      BY <1>2, <2>1, <2>2, <2>3, <3>1 DEF RunSteps, Unrecorded, Processing
  <2>4. CASE RunReads(r, "done", "CREATED") /\ RunSucceeds(r)
    BY <1>3, <2>1, <2>2, <2>4
  <2> QED
    BY <1>13, <2>3, <2>4 DEF MarkProcessed, RunGoes
<1>14. CASE Notify(r)
  BY <1>3, <1>14 DEF Notify, RunGoes, RunAt
<1>15. CASE SkipRecorded(r)
  <2>1. \A x \in Events \ {r[1]} : event'[x] = event[x]
    BY <1>0, <1>15, RowSet DEF SkipRecorded
  <2> QED
    BY <1>3, <1>15, <2>1 DEF SkipRecorded, RunGoes, RunAt
<1>16. CASE MarkFailed(r)
  <2>1. \A x \in Events \ {r[1]} : event'[x] = event[x]
    BY <1>0, <1>16, RowSet DEF MarkFailed
  <2> QED
    <3>1. /\ RunReads(r, "done", "CREATED") /\ RunFails(r) /\ UNCHANGED <<transactions, notices>>
          /\ ~RunAt(r, "idle") /\ ~RunAt(r, "done")
      BY <1>16 DEF MarkFailed, RunGoes, RunAt
    <3> QED
      BY <1>3, <2>1, <3>1
<1>17. CASE TimeOut(r)
  BY <1>17 DEF TimeOut
<1>18. CASE StatementFails(r)
  <2>1. UNCHANGED <<event, transactions, notices>>
    BY <1>18 DEF StatementFails
  <2>2. CASE /\ run[r].pc \in {"lookup", "readPayment", "writePayment", "auditPayment",
                               "readOrder", "writeOrder", "auditOrder", "record",
                               "finish", "skip"}
             /\ RunGoes(r, "catch")
             /\ UNCHANGED job
    BY <1>4, <2>1, <2>2 DEF RunGoes, RunSteps, Processing, Unrecorded
  <2>3. CASE /\ run[r].pc \in {"load", "mark", "catch", "notify"}
             /\ RunGoes(r, "done")
             /\ RunFails(r) \/ RunSucceeds(r)
    <3>1. RunReads(r, "done", "CREATED") /\ ~RunAt(r, "idle") /\ ~RunAt(r, "done")
      BY <2>3 DEF RunGoes, RunAt
    <3> QED
      BY <1>3, <2>1, <2>3, <3>1
  <2> QED
    BY <1>18, <2>2, <2>3 DEF StatementFails, RunAt
<1> QED
  BY <1>5, <1>6, <1>7, <1>8, <1>9, <1>10, <1>11, <1>12, <1>13, <1>14, <1>15, <1>16, <1>17,
     <1>18 DEF RunStep

\* Every step keeps events applied once.
LEMMA NextKeepsOnce ==
  ASSUME JobsTimeOut = FALSE
  PROVE  IInv /\ OnceOK /\ [Next]_vars => OnceOK'
<1> SUFFICES ASSUME IInv, OnceOK, [Next]_vars PROVE OnceOK'
  OBVIOUS
<1>1. CASE Elsewhere
  <2>1. \A x \in Events : RecordsOf(x)' = RecordsOf(x)
    BY <1>1 DEF Elsewhere, RecordsOf
  <2>2. \A r \in Runs : RunOnce(r)'
    BY <1>1, <2>1, RunsPair DEF Elsewhere, OnceOK, RunOnce, RunAt, IsActive, Row
  <2> QED
    BY <1>1, <2>1, <2>2 DEF Elsewhere, OnceOK, RecordsOnce, NoticesOnce
<1>2. ASSUME NEW e \in Events, NEW i \in Intents, NEW type \in EventTypes,
             EventArrives(e, i, type)
      PROVE  OnceOK'
  <2>1. /\ UNCHANGED <<run, transactions, notices>>
        /\ \A x \in Events \ {e} : event'[x] = event[x] /\ job'[x] = job[x]
    BY <1>2 DEF EventArrives, IInv, TypeOK
  <2>2. job[e].state = "none"
    BY <1>2 DEF EventArrives, IInv, RefsOK
  <2>3. \A r \in Runs : r[1] = e => run[r].pc \in {"idle", "done"}
    <3>1. \A r \in Runs : r[1] = e => ~IsActive(r)
      BY <2>2 DEF IsActive
    <3> QED
      BY <3>1 DEF OnceOK, RunOnce
  <2>4. \A n \in notices : n[1] # e
    BY <1>2, <2>2 DEF OnceOK, NoticesOnce
  <2>5. \A x \in Events : RecordsOf(x)' = RecordsOf(x)
    BY <2>1 DEF RecordsOf
  <2>6. ASSUME NEW r \in Runs PROVE RunOnce(r)'
    <3>1. CASE r[1] = e
      BY <2>1, <2>3, <3>1 DEF RunOnce, RunAt, Processing, Unrecorded
    <3>2. CASE r[1] # e
      <4>1. event'[r[1]] = event[r[1]] /\ job'[r[1]] = job[r[1]] /\ run' = run
        BY <2>1, <3>2, RunsPair
      <4> QED
        BY <2>5, <4>1, RunsPair DEF OnceOK, RunOnce, RunAt, IsActive, Row
    <3> QED
      BY <3>1, <3>2
  <2>7. \A x \in Events : NoticesOnce(x)' /\ RecordsOnce(x)'
    BY <2>1, <2>4, <2>5 DEF OnceOK, NoticesOnce, RecordsOnce
  <2> QED
    BY <2>6, <2>7 DEF OnceOK
<1>3. ASSUME NEW r \in Runs, RunStep(r) \/ TimeOut(r) \/ StatementFails(r)
      PROVE  OnceOK'
  BY <1>3, RunKeepsOnce
<1> QED
  BY <1>1, <1>2, <1>3, OthersAreElsewhere DEF Next

\* Without the job timeout no two executions of a job run at a time.
LEMMA AlwaysOnce ==
  ASSUME JobsTimeOut = FALSE
  PROVE  Spec => [](IInv /\ OnceOK)
<1>1. Init => OnceOK
  BY DEF Init, OnceOK, RunOnce, RunAt, RecordsOnce, RecordsOf, NoticesOnce, Processing, Unrecorded
<1>2. IInv /\ OnceOK /\ [Next]_vars => OnceOK'
  BY NextKeepsOnce
<1> QED
  BY <1>1, <1>2, AlwaysIInv, PTL DEF Spec

\* Two elements that must be equal are at most one.
LEMMA AtMostOne ==
  ASSUME NEW S, \A x, y \in S : x = y
  PROVE  Cardinality(S) <= 1
<1>1. CASE S = {}
  BY <1>1, FS_EmptySet
<1>2. CASE S # {}
  <2>1. PICK x \in S : S = {x}
    BY <1>2
  <2> QED
    BY <2>1, FS_Singleton
<1> QED
  BY <1>1, <1>2

\* Retries after failed statements record an event once and write about it
\* once, and what it ended as is not taken back, as long as no execution
\* outlives its job.
THEOREM EventsOnce ==
  ASSUME JobsTimeOut = FALSE
  PROVE  Spec => []OneRecordPerEvent /\ ProcessedIsFinal
<1>1. OnceOK => OneRecordPerEvent
  <2> SUFFICES ASSUME OnceOK, NEW e \in Events
               PROVE  /\ Cardinality(RecordsOf(e)) <= 1
                      /\ Cardinality({r \in notices : r[1] = e}) <= 1
    BY DEF OneRecordPerEvent
  <2>1. \A t, u \in RecordsOf(e) : t = u
    BY DEF OnceOK, RecordsOnce
  <2>2. \A r, q \in {n \in notices : n[1] = e} : r = q
    BY DEF OnceOK, NoticesOnce
  <2> QED
    BY <2>1, <2>2, AtMostOne
<1>2. IInv /\ OnceOK /\ [Next]_vars =>
        [\A e \in Events : event[e].status = "PROCESSED" => event'[e].status = "PROCESSED"]_vars
  <2> SUFFICES ASSUME IInv, OnceOK, [Next]_vars, NEW e \in Events,
                      event[e].status = "PROCESSED", event'[e].status # "PROCESSED"
               PROVE  FALSE
    OBVIOUS
  <2>1. CASE Elsewhere
    BY <2>1 DEF Elsewhere
  <2>2. ASSUME NEW x \in Events, NEW i \in Intents, NEW type \in EventTypes,
               EventArrives(x, i, type)
        PROVE  FALSE
    BY <2>2 DEF EventArrives, IInv, TypeOK
  <2>3. ASSUME NEW r \in Runs, RunStep(r) \/ TimeOut(r) \/ StatementFails(r)
        PROVE  FALSE
    <3>1. TypeOK /\ RunOnce(r)
      BY DEF IInv, OnceOK
    <3>2. CASE MarkProcessing(r) \/ MarkFailed(r)
      <4>1. Row(r).status # "PROCESSED"
        BY <3>1, <3>2 DEF MarkProcessing, MarkFailed, RunOnce, RunAt, Processing
      <4>2. e # r[1]
        BY <4>1 DEF Row
      <4> QED
        BY <3>1, <3>2, <4>2, RowSet DEF MarkProcessing, MarkFailed
    <3>3. CASE MarkProcessed(r) \/ SkipRecorded(r)
      <4>1. Row(r)'.status = "PROCESSED" /\ \A x \in Events \ {r[1]} : event'[x] = event[x]
        BY <3>1, <3>3, RowSet DEF MarkProcessed, SkipRecorded
      <4> QED
        BY <4>1 DEF Row
    <3>4. CASE ~(MarkProcessing(r) \/ MarkFailed(r) \/ MarkProcessed(r) \/ SkipRecorded(r))
      BY <2>3, <3>4 DEF RunStep, StartAttempt, LoadEvent, LookupTransaction, RunReadsPayment,
         RunWritesPayment, RunAuditsPayment, RunReadsOrder, RunWritesOrder, RunAuditsOrder,
         RunRecords, Notify, TimeOut, StatementFails
    <3> QED
      BY <3>2, <3>3, <3>4
  <2> QED
    BY <2>1, <2>2, <2>3, OthersAreElsewhere DEF Next
<1> QED
  BY <1>1, <1>2, AlwaysOnce, PTL DEF Spec, ProcessedIsFinal

-------------------------------------------------------------------------------
(* The queue and the table agree.                                          *)

\* The step keeps the agreement about the event of an active execution, if
\* it settles the job as it leaves the row.
LEMMA AgreementKept ==
  ASSUME JobAndRowAgree, NEW e \in Events,
         \A x \in Events \ {e} : job'[x] = job[x] /\ event'[x] = event[x],
         job'[e].state = "completed" => event'[e].status = "PROCESSED",
         job'[e].state = "failed" => event'[e].status = "FAILED"
  PROVE  JobAndRowAgree'
  BY DEF JobAndRowAgree

\* An execution whose row can be read and marked settles its job as it
\* leaves its row.
LEMMA RunKeepsAgreement ==
  ASSUME JobsTimeOut = FALSE, FailingSteps \cap {"load", "mark", "catch"} = {},
         IInv, OnceOK, JobAndRowAgree, NEW r \in Runs,
         RunStep(r) \/ TimeOut(r) \/ StatementFails(r)
  PROVE  JobAndRowAgree'
<1>0. TypeOK /\ r[1] \in Events /\ RunOnce(r)
  BY RunsPair DEF IInv, OnceOK
<1>1. AfterFailure(r[2]) # "completed"
  BY DEF AfterFailure
<1>2. CASE StartAttempt(r)
  <2>1. /\ job'[r[1]].state = "active"
        /\ \A x \in Events \ {r[1]} : job'[x] = job[x] /\ event'[x] = event[x]
    BY <1>0, <1>2 DEF StartAttempt, TypeOK
  <2> QED
    BY <1>0, <2>1, AgreementKept
<1>3. CASE LoadEvent(r)
  <2>1. event' = event /\ IsActive(r)
    BY <1>0, <1>3 DEF LoadEvent, RunAt, RunOnce
  <2>2. CASE Row(r).status = "PROCESSED" /\ RunSucceeds(r)
    <3>1. job'[r[1]].state = "completed" /\ event'[r[1]].status = "PROCESSED"
      BY <1>0, <2>1, <2>2, JobSettles DEF Row
    <3> QED
      BY <1>0, <2>1, <2>2, <3>1, JobSettles, AgreementKept
  <2>3. CASE UNCHANGED job
    BY <2>1, <2>3 DEF JobAndRowAgree
  <2> QED
    BY <1>3, <2>2, <2>3 DEF LoadEvent
<1>4. CASE MarkProcessing(r)
  <2>1. /\ job' = job /\ job[r[1]].state = "active"
        /\ \A x \in Events \ {r[1]} : event'[x] = event[x]
    BY <1>0, <1>4, RowSet DEF MarkProcessing, RunAt, RunOnce, IsActive
  <2> QED
    BY <1>0, <2>1, AgreementKept
<1>5. CASE MarkProcessed(r) \/ SkipRecorded(r)
  <2>1. IsActive(r)
    BY <1>0, <1>5 DEF MarkProcessed, SkipRecorded, RunAt, RunOnce
  <2>2. event'[r[1]].status = "PROCESSED" /\ \A x \in Events \ {r[1]} : event'[x] = event[x]
    BY <1>0, <1>5, RowSet DEF MarkProcessed, SkipRecorded, Row
  <2>3. CASE RunSucceeds(r)
    <3>1. job'[r[1]].state = "completed" /\ \A x \in Events \ {r[1]} : job'[x] = job[x]
      BY <1>0, <2>1, <2>3, JobSettles
    <3> QED
      BY <1>0, <2>2, <3>1, AgreementKept
  <2>4. CASE UNCHANGED job
    <3>1. job'[r[1]].state = "active"
      BY <2>1, <2>4 DEF IsActive
    <3> QED
      BY <1>0, <2>2, <2>4, <3>1, AgreementKept
  <2> QED
    BY <1>5, <2>3, <2>4 DEF MarkProcessed, SkipRecorded
<1>6. CASE /\ RunAt(r, "notify") /\ RunSucceeds(r) /\ UNCHANGED event
  <2>1. IsActive(r) /\ event'[r[1]].status = "PROCESSED"
    BY <1>0, <1>6 DEF RunAt, RunOnce, Row
  <2>2. job'[r[1]].state = "completed" /\ \A x \in Events \ {r[1]} : job'[x] = job[x]
    BY <1>0, <1>6, <2>1, JobSettles
  <2> QED
    BY <1>0, <1>6, <2>1, <2>2, AgreementKept
<1>7. CASE MarkFailed(r)
  <2>1. IsActive(r) /\ RunFails(r)
    BY <1>0, <1>7 DEF MarkFailed, RunAt, RunOnce
  <2>2. event'[r[1]].status = "FAILED" /\ \A x \in Events \ {r[1]} : event'[x] = event[x]
    BY <1>0, <1>7, RowSet DEF MarkFailed, Row
  <2>3. job'[r[1]].state # "completed" /\ \A x \in Events \ {r[1]} : job'[x] = job[x]
    BY <1>0, <1>1, <2>1, JobSettles
  <2> QED
    BY <1>0, <2>2, <2>3, AgreementKept
<1>8. CASE UNCHANGED <<job, event>>
  BY <1>8 DEF JobAndRowAgree
<1>9. CASE StatementFails(r)
  <2>1. ~RunAt(r, "load") /\ ~RunAt(r, "mark") /\ ~RunAt(r, "catch") /\ UNCHANGED event
    BY <1>9 DEF StatementFails, RunAt
  <2> QED
    BY <1>6, <1>8, <1>9, <2>1 DEF StatementFails, RunAt
<1>10. CASE Notify(r)
  BY <1>6, <1>10 DEF Notify
<1>11. CASE TimeOut(r)
  BY <1>11 DEF TimeOut
<1> QED
  BY <1>2, <1>3, <1>4, <1>5, <1>7, <1>8, <1>9, <1>10, <1>11 DEF RunStep, LookupTransaction,
     RunReadsPayment, RunWritesPayment, RunAuditsPayment, RunReadsOrder, RunWritesOrder,
     RunAuditsOrder, RunRecords

\* Every step keeps the agreement.
LEMMA NextKeepsAgreement ==
  ASSUME JobsTimeOut = FALSE, FailingSteps \cap {"load", "mark", "catch"} = {}
  PROVE  IInv /\ OnceOK /\ JobAndRowAgree /\ [Next]_vars => JobAndRowAgree'
<1> SUFFICES ASSUME IInv, OnceOK, JobAndRowAgree, [Next]_vars PROVE JobAndRowAgree'
  OBVIOUS
<1>1. CASE Elsewhere
  BY <1>1 DEF Elsewhere, JobAndRowAgree
<1>2. ASSUME NEW e \in Events, NEW i \in Intents, NEW type \in EventTypes,
             EventArrives(e, i, type)
      PROVE  JobAndRowAgree'
  <2>1. job'[e].state = "waiting" /\ \A x \in Events \ {e} : job'[x] = job[x] /\ event'[x] = event[x]
    BY <1>2 DEF EventArrives, IInv, TypeOK, JobRow
  <2> QED
    BY <2>1, AgreementKept
<1>3. ASSUME NEW r \in Runs, RunStep(r) \/ TimeOut(r) \/ StatementFails(r)
      PROVE  JobAndRowAgree'
  BY <1>3, RunKeepsAgreement
<1> QED
  BY <1>1, <1>2, <1>3, OthersAreElsewhere DEF Next

\* Whatever the actors do in whatever order: the order's timestamps tell a
\* possible story, closed orders released their stock, the shipment follows,
\* references resolve, and, when no execution outlives its job and the row can
\* be read and marked, the queue and the table agree on how an event ended.
THEOREM OrderSound ==
  ASSUME JobsTimeOut = FALSE, FailingSteps \cap {"load", "mark", "catch"} = {}
  PROVE  Spec => []OrderIsSound
<1>1. Init => JobAndRowAgree
  BY DEF Init, JobAndRowAgree
<1>2. IInv /\ OnceOK /\ JobAndRowAgree /\ [Next]_vars => JobAndRowAgree'
  BY NextKeepsAgreement
<1>3. Spec => [](IInv /\ OnceOK)
  BY AlwaysOnce
<1>4. Spec => [](/\ FulfilledOnlyIfPaid
                 /\ MilestoneChain
                 /\ ClosedOrderReleasedStock
                 /\ ShipmentFollowsOrder
                 /\ ReferencesResolve)
  BY OrderSafe
<1> QED
  BY <1>1, <1>2, <1>3, <1>4, PTL DEF Spec, OrderIsSound

===============================================================================
