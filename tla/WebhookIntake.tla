----------------------------- MODULE WebhookIntake -----------------------------
(***************************************************************************)
(* How a gateway event gets into the store: POST /payments/webhooks/stripe *)
(* looks for the event's row, creates it, queues the event's job and       *)
(* answers. The gateway delivers an event again until it is answered with  *)
(* success, and may deliver it again even then, several copies at a time.  *)
(*                                                                         *)
(* Each action is one statement or one call of the queue. OrderPayments    *)
(* takes over where the job is queued: its EventArrives happens once for   *)
(* each event because of what is shown here, and states it with the same   *)
(* specification, EventQueue.                                              *)
(***************************************************************************)
EXTENDS Naturals

CONSTANTS
  Events,
  Deliveries,    \* requests; each is one delivery of one event
  NoEvent,
  QueueFails,    \* whether adding a job may fail
  ServerFails    \* whether the server may die in the middle of a request

ASSUME IntakeAssumption ==
  /\ NoEvent \notin Events
  /\ QueueFails \in BOOLEAN
  /\ ServerFails \in BOOLEAN

VARIABLES
  stored,     \* events that have a PaymentWebhookEvent row
  jobs,       \* number of jobs added for each event
  delivery,   \* progress of each request
  answered    \* events the gateway has a successful answer for

vars == <<stored, jobs, delivery, answered>>

\* A request ends done, refused by the unique index, or broken off.
Ended == {"done", "refused", "broken"}

Steps == {"idle", "lookup", "create", "enqueue", "reply"} \cup Ended

TypeOK ==
  /\ stored \subseteq Events
  /\ jobs \in [Events -> Nat]
  /\ delivery \in [Deliveries -> [pc : Steps, event : Events \cup {NoEvent}]]
  /\ answered \subseteq Events

Init ==
  /\ stored = {}
  /\ jobs = [e \in Events |-> 0]
  /\ delivery = [d \in Deliveries |-> [pc |-> "idle", event |-> NoEvent]]
  /\ answered = {}

At(d, pc) == delivery[d].pc = pc

Goes(d, pc) == delivery' = [delivery EXCEPT ![d].pc = pc]

EventOf(d) == delivery[d].event

\* Mutant: the event's id is not taken from the body.
DeliverUnparsed(d, e) ==
  /\ At(d, "idle")
  /\ delivery' = [delivery EXCEPT ![d] = [pc |-> "lookup", event |-> NoEvent]]
  /\ UNCHANGED <<stored, jobs, answered>>

\* The gateway signs what it sends, so the signature and the body are valid.
Deliver(d, e) ==
  /\ At(d, "idle")
  /\ delivery' = [delivery EXCEPT ![d] = [pc |-> "lookup", event |-> e]]
  /\ UNCHANGED <<stored, jobs, answered>>

FindStored(d) ==
  /\ At(d, "lookup")
  /\ Goes(d, IF EventOf(d) \in stored THEN "reply" ELSE "create")
  /\ UNCHANGED <<stored, jobs, answered>>

\* Mutant: there is no unique index on (provider, externalEventId).
StoreAgain(d) ==
  /\ At(d, "create")
  /\ stored' = stored \cup {EventOf(d)}
  /\ Goes(d, "enqueue")
  /\ UNCHANGED <<jobs, answered>>

\* The unique index refuses the row if another copy was stored meanwhile;
\* that request ends in an error.
Store(d) ==
  /\ At(d, "create")
  /\ \/ /\ EventOf(d) \notin stored
        /\ stored' = stored \cup {EventOf(d)}
        /\ Goes(d, "enqueue")
     \/ /\ EventOf(d) \in stored
        /\ Goes(d, "refused")
        /\ UNCHANGED stored
  /\ UNCHANGED <<jobs, answered>>

\* Mutant: the answer is sent without queueing the job.
ReplyOnly(d) ==
  /\ At(d, "enqueue")
  /\ Goes(d, "reply")
  /\ UNCHANGED <<stored, jobs, answered>>

Enqueue(d) ==
  /\ At(d, "enqueue")
  /\ jobs' = [jobs EXCEPT ![EventOf(d)] = @ + 1]
  /\ Goes(d, "reply")
  /\ UNCHANGED <<stored, answered>>

EnqueueFails(d) ==
  /\ QueueFails
  /\ At(d, "enqueue")
  /\ Goes(d, "broken")
  /\ UNCHANGED <<stored, jobs, answered>>

Reply(d) ==
  /\ At(d, "reply")
  /\ answered' = answered \cup {EventOf(d)}
  /\ Goes(d, "done")
  /\ UNCHANGED <<stored, jobs>>

\* The process dies, or the answer is lost on its way.
Dies(d) ==
  /\ ServerFails
  /\ delivery[d].pc \notin {"idle"} \cup Ended
  /\ Goes(d, "broken")
  /\ UNCHANGED <<stored, jobs, answered>>

Handle(d) == FindStored(d) \/ Store(d) \/ Enqueue(d) \/ Reply(d)

Next ==
  \E d \in Deliveries :
    \/ \E e \in Events : Deliver(d, e)
    \/ Handle(d)
    \/ EnqueueFails(d)
    \/ Dies(d)

Spec == Init /\ [][Next]_vars

-------------------------------------------------------------------------------
\* However many copies of an event come in, and at the same time, one job is
\* queued for it.
QueuedAtMostOnce == \A e \in Events : jobs[e] <= 1

\* To the worker the endpoint is a queue of events: whatever copies come in, fail
\* and overlap, an event's row and its one job are added as EventQueue has it.
Intake == INSTANCE EventQueue

ImplementsEventQueue == Intake!Spec

\* The gateway stops delivering only what is stored, and only stored events
\* have jobs, whose processor would not find them otherwise.
NothingIsInvented ==
  /\ answered \subseteq stored
  /\ \A e \in Events : jobs[e] > 0 => e \in stored

\* A stored event is queued, also when it was another copy of it that was
\* refused or answered, unless the request that stored it is still to do so or
\* was broken off.
StoredIsQueued ==
  \A e \in stored :
    jobs[e] = 1 \/ \E d \in Deliveries : EventOf(d) = e /\ (At(d, "enqueue") \/ At(d, "broken"))

\* README: the endpoint persists the event and schedules its processing. An
\* event the gateway will not send again, and no request is working on, has
\* its job.
AnsweredIsQueued ==
  \A e \in Events :
    e \in answered /\ (\A d \in Deliveries : EventOf(d) = e => delivery[d].pc \in Ended)
      => jobs[e] = 1
===============================================================================
