-------------------------------- MODULE RateLimit --------------------------------
(***************************************************************************)
(* The counters behind the API's 429 answers: one process's fixed windows, *)
(* each begun by the request that finds none, and the sweep that forgets   *)
(* the windows that have ended.                                            *)
(***************************************************************************)
EXTENDS Naturals, FiniteSets, Sequences

CONSTANTS
  Callers,      \* bucket keys: a scope with a client's address and e-mail
  MaxRequests,
  Window,       \* length of a window
  SweepEvery,   \* 30 s
  ManyBuckets,  \* 1000, from which every request sweeps
  LastTime      \* bound of the clock

ASSUME RateLimitAssumption ==
  /\ MaxRequests \in Nat \ {0} /\ Window \in Nat \ {0}
  /\ SweepEvery \in Nat /\ ManyBuckets \in Nat /\ LastTime \in Nat

VARIABLES
  time,
  bucket,   \* per caller, its window: the requests counted and the end
  sweptAt,  \* lastCleanupAt
  passed    \* history: per caller, when a request was let through, in order

rateLimitVars == <<time, bucket, sweptAt, passed>>

NoBucket == [count |-> 0, resetAt |-> 0]
NonePassed == [k \in Callers |-> <<>>]

RateLimitTypeOK ==
  /\ time \in 0..LastTime /\ sweptAt \in 0..time
  /\ bucket \in [Callers -> [count : 0..MaxRequests + 1, resetAt : 0..LastTime + Window]]
  /\ passed \in [Callers -> Seq(0..LastTime)]

RateLimitInit ==
  /\ time = 0 /\ sweptAt = 0
  /\ bucket = [k \in Callers |-> NoBucket]
  /\ passed = NonePassed

-------------------------------------------------------------------------------
Held == {k \in Callers : bucket[k] # NoBucket}

SweepIsDue == time - sweptAt >= SweepEvery \/ Cardinality(Held) >= ManyBuckets

\* Mutant: a sweep forgets every window.
SweptBare ==
  [k \in Callers |-> IF SweepIsDue THEN NoBucket ELSE bucket[k]]

\* cleanup: the windows as they are after it.
Swept ==
  [k \in Callers |-> IF SweepIsDue /\ bucket[k].resetAt <= time THEN NoBucket ELSE bucket[k]]

\* consume; counting goes no further than the first request refused (the bound
\* of the counter: the ones after it are refused alike).
Consume(k) ==
  LET found   == Swept[k]
      current == IF found.resetAt <= time THEN [count |-> 0, resetAt |-> time + Window] ELSE found
      count   == current.count + 1 IN
  /\ bucket' = [Swept EXCEPT ![k] = [current EXCEPT
       !.count = IF count > MaxRequests THEN MaxRequests + 1 ELSE count]]
  /\ sweptAt' = IF SweepIsDue THEN time ELSE sweptAt
  /\ passed' = IF count <= MaxRequests THEN [passed EXCEPT ![k] = Append(@, time)] ELSE passed
  /\ UNCHANGED time

\* The process starts again with no windows.
RestartLimiter ==
  /\ bucket' = [k \in Callers |-> NoBucket]
  /\ sweptAt' = 0
  /\ passed' = NonePassed
  /\ UNCHANGED time

ClockAdvances ==
  /\ time < LastTime
  /\ time' = time + 1
  /\ UNCHANGED <<bucket, sweptAt, passed>>

RateLimitNext == ClockAdvances \/ RestartLimiter \/ \E k \in Callers : Consume(k)

RateLimitSpec == RateLimitInit /\ [][RateLimitNext]_rateLimitVars

-------------------------------------------------------------------------------
\* Over any stretch as long as a window a caller gets through at most twice the
\* limit, and at most the limit within the window it holds, however sweeps and
\* other callers fall between; a restarted process counts anew.
PassedIn(k, from, to) ==
  Cardinality({i \in 1..Len(passed[k]) : from <= passed[k][i] /\ passed[k][i] < to})

LimitHolds ==
  \A k \in Callers :
    /\ \A t \in 0..time : PassedIn(k, t, t + Window) <= 2 * MaxRequests
    /\ bucket[k] # NoBucket =>
         PassedIn(k, bucket[k].resetAt - Window, bucket[k].resetAt) <= MaxRequests
===============================================================================
